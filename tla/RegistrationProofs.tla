------------------------- MODULE RegistrationProofs -------------------------
(***************************************************************************)
(* Proofs about a registration: for any expiry a registrar may demand or   *)
(* grant, any challenges and delays, the binding is refreshed in time.     *)
(***************************************************************************)
EXTENDS Registration, TLAPS

(* What the interval needs: two exchanges take less than the ten seconds,  *)
(* no expiry is so short that twenty seconds (the least create_reg_interval*)
(* assumes) are too long, and a shortened one is said in the Expires       *)
(* header, which the answer to a removal lacks.                            *)
Enough == Margin + 2 * MaxLate
IntervalsFit ==
    /\ 2 * MaxLate < Margin /\ Expiry > Enough /\ \A g \in Grants : g > Enough
    /\ ByHeader /\ ~EchoesZero

Phases == {"idle", "registered", "removed", "refused", "failed"} \cup Sending

(* The interval belongs to the expiry.                                     *)
IntervalInv ==
    /\ reg \in [expires : Nat, period : Nat, tick : Nat, cseq : Nat, tag : BOOLEAN]
    /\ reg.expires > Enough /\ reg.period = CreateRegInterval(reg.expires) /\ reg.tick <= reg.period
    /\ binding \in Nat /\ late \in 0 .. MaxLate

(* What is under way belongs to the phase.                                 *)
MsgInv ==
    /\ phase \in Phases
    /\ phase \in Sending <=> msg.type # "none"
    /\ msg.type = "request" => msg.expires = IF phase = "removing" THEN 0 ELSE reg.expires
    /\ msg.type = "too brief" => phase # "removing" /\ msg.minExpires \in Nat /\ msg.minExpires > Enough
    /\ msg.type = "success" => IF phase = "removing" THEN ~msg.header
                               ELSE msg.header /\ msg.expires \in Nat /\ msg.expires > Enough

(* The binding outlasts what is left until the next request, which may be  *)
(* late, reaches the registrar.                                            *)
OutlastInv ==
    /\ phase = "registered" => binding > reg.tick + MaxLate
    /\ phase = "refreshing" /\ msg.type # "success" => binding + late > MaxLate
    /\ phase \in {"registering", "refreshing"} /\ msg.type = "success" => binding + late >= msg.expires

RegistrationInv == IntervalInv /\ MsgInv /\ OutlastInv

-----------------------------------------------------------------------------
LEMMA RegConstants ==
    ASSUME IntervalsFit
    PROVE  /\ Margin \in Nat /\ MaxLate \in Nat /\ MinExpires \in Nat /\ Expiry \in Nat /\ Grants \subseteq Nat
           /\ 2 * MaxLate < Margin /\ Enough \in Nat /\ Enough = Margin + 2 * MaxLate /\ Floor = 2 * Margin
           /\ Expiry > Enough /\ (\A g \in Grants : g > Enough) /\ ByHeader /\ ~EchoesZero
  BY RegistrationAssumption DEF IntervalsFit, Enough, Floor

(* The interval ends ten seconds before the expiry, or ten seconds after   *)
(* it has begun.                                                           *)
LEMMA Interval ==
    ASSUME IntervalsFit, NEW e \in Nat, e > Enough
    PROVE  /\ CreateRegInterval(e) \in Nat
           /\ \A b, l, t \in Nat : b + l >= e /\ l <= MaxLate /\ t <= CreateRegInterval(e) => b > t + MaxLate
  BY RegConstants DEF CreateRegInterval

LEMMA Sent ==
    ASSUME NEW r, NEW a, NEW why, SendRegister(r, a, why)
    PROVE  /\ reg' = [r EXCEPT !.cseq = @ + 1] /\ phase' = why
           /\ msg'.type = "request" /\ msg'.expires = IF why = "removing" THEN 0 ELSE r.expires
  BY DEF SendRegister, CreateRegister

LEMMA RegistrationInit == ASSUME IntervalsFit, Init PROVE RegistrationInv
<1>1. /\ reg = [expires |-> Expiry, period |-> CreateRegInterval(Expiry), tick |-> CreateRegInterval(Expiry),
                cseq |-> 0, tag |-> FALSE]
      /\ phase = "idle" /\ msg = Nothing /\ binding = 0 /\ late = 0
  BY DEF Init
<1>2. CreateRegInterval(Expiry) \in Nat
  BY RegConstants, Interval
<1>3. IntervalInv
  BY <1>1, <1>2, RegConstants DEF IntervalInv
<1>4. MsgInv
  BY <1>1 DEF MsgInv, Nothing, Phases, Sending
<1>5. OutlastInv
  BY <1>1 DEF OutlastInv
<1> QED
  BY <1>3, <1>4, <1>5 DEF RegistrationInv

(* A request that is sent, and the interval as it is or restarted.         *)
LEMMA SentKeeps ==
    ASSUME IntervalsFit, RegistrationInv, NEW r, NEW a, NEW why, SendRegister(r, a, why),
           r \in [expires : Nat, period : Nat, tick : Nat, cseq : Nat, tag : BOOLEAN],
           r.expires > Enough, r.period = CreateRegInterval(r.expires), r.tick <= r.period,
           why \in Sending, UNCHANGED binding, late' \in 0 .. MaxLate,
           why = "refreshing" => binding + late' > MaxLate
    PROVE  RegistrationInv'
<1>1. /\ reg' = [r EXCEPT !.cseq = @ + 1] /\ phase' = why
      /\ msg'.type = "request" /\ msg'.expires = IF why = "removing" THEN 0 ELSE r.expires
  BY Sent
<1>2. /\ reg' \in [expires : Nat, period : Nat, tick : Nat, cseq : Nat, tag : BOOLEAN]
      /\ reg'.expires = r.expires /\ reg'.period = r.period /\ reg'.tick = r.tick
  BY <1>1
<1>3. IntervalInv'
  BY <1>2 DEF IntervalInv, RegistrationInv
<1>4. MsgInv'
  BY <1>1, <1>2 DEF MsgInv, Phases, Sending
<1>5. OutlastInv'
  BY <1>1 DEF OutlastInv, Sending
<1> QED
  BY <1>3, <1>4, <1>5 DEF RegistrationInv

(* A message takes the place of the request, nothing else changes.         *)
LEMMA MessageKeeps ==
    ASSUME RegistrationInv, msg.type # "none", msg'.type # "none", msg'.type \notin {"request", "success", "too brief"},
           msg.type # "success", UNCHANGED <<reg, phase, binding, late>>
    PROVE  RegistrationInv'
<1>1. IntervalInv'
  BY DEF RegistrationInv, IntervalInv
<1>2. MsgInv'
  BY DEF RegistrationInv, MsgInv
<1>3. OutlastInv'
  BY DEF RegistrationInv, OutlastInv
<1> QED
  BY <1>1, <1>2, <1>3 DEF RegistrationInv

(* The loop is over, or has nothing registered.                            *)
LEMMA OverKeeps ==
    ASSUME RegistrationInv, phase' \in {"refused", "failed"}, msg' = Nothing, UNCHANGED <<reg, binding, late>>
    PROVE  RegistrationInv'
<1>1. IntervalInv'
  BY DEF RegistrationInv, IntervalInv
<1>2. MsgInv'
  BY DEF MsgInv, Nothing, Phases, Sending
<1>3. OutlastInv'
  BY DEF OutlastInv
<1> QED
  BY <1>1, <1>2, <1>3 DEF RegistrationInv

LEMMA Typed ==
    ASSUME RegistrationInv
    PROVE  /\ reg \in [expires : Nat, period : Nat, tick : Nat, cseq : Nat, tag : BOOLEAN]
           /\ reg.expires \in Nat /\ reg.tick \in Nat /\ reg.period \in Nat
           /\ reg.expires > Enough /\ reg.period = CreateRegInterval(reg.expires) /\ reg.tick <= reg.period
           /\ binding \in Nat /\ late \in 0 .. MaxLate /\ MsgInv /\ OutlastInv
  BY DEF RegistrationInv, IntervalInv

LEMMA StartSteps == ASSUME IntervalsFit, RegistrationInv, Register \/ Refresh \/ RemoveBinding PROVE RegistrationInv'
<1>1. CASE Register
  <2>1. SendRegister(reg, auth, "registering") /\ late' = 0 /\ UNCHANGED binding
    BY <1>1 DEF Register
  <2>2. "registering" \in Sending /\ 0 \in 0 .. MaxLate
    BY RegConstants DEF Sending
  <2> QED
    BY <2>1, <2>2, Typed, SentKeeps
<1>2. CASE Refresh
  <2>1. /\ phase = "registered" /\ reg.tick = 0 /\ late' = 0 /\ UNCHANGED binding
        /\ SendRegister([reg EXCEPT !.tick = reg.period], auth, "refreshing")
    BY <1>2 DEF Refresh
  <2>2. PICK r : r = [reg EXCEPT !.tick = reg.period]
    OBVIOUS
  <2>3. /\ r \in [expires : Nat, period : Nat, tick : Nat, cseq : Nat, tag : BOOLEAN]
        /\ r.expires > Enough /\ r.period = CreateRegInterval(r.expires) /\ r.tick <= r.period
    BY <2>2, Typed
  <2>4. "refreshing" \in Sending /\ late' \in 0 .. MaxLate
    BY <2>1, RegConstants DEF Sending
  <2>5. binding + late' > MaxLate
    BY <2>1, Typed, RegConstants DEF OutlastInv
  <2>6. SendRegister(r, auth, "refreshing")
    BY <2>1, <2>2
  <2> QED
    BY <2>1, <2>3, <2>4, <2>5, <2>6, SentKeeps
<1>3. CASE RemoveBinding
  <2>1. SendRegister(reg, auth, "removing") /\ late' = 0 /\ UNCHANGED binding
    BY <1>3 DEF RemoveBinding
  <2>2. "removing" \in Sending /\ 0 \in 0 .. MaxLate
    BY RegConstants DEF Sending
  <2> QED
    BY <2>1, <2>2, Typed, SentKeeps
<1> QED
  BY <1>1, <1>2, <1>3

LEMMA ServerSteps ==
    ASSUME IntervalsFit, RegistrationInv,
           \/ Brief \/ Break
           \/ \E realms \in SUBSET DOMAIN guard : ChallengeRequest(realms)
           \/ \E expires \in Grantable : Grant(expires)
    PROVE  RegistrationInv'
<1>1. CASE \E realms \in SUBSET DOMAIN guard : ChallengeRequest(realms)
  <2>1. PICK realms : ChallengeRequest(realms)
    BY <1>1
  <2>2. msg.type = "request" /\ msg'.type = "rejection" /\ UNCHANGED <<reg, phase, binding, late>>
    BY <2>1 DEF ChallengeRequest
  <2> QED
    BY <2>2, MessageKeeps
<1>2. CASE Break
  <2>1. msg.type = "request" /\ msg'.type = "error" /\ UNCHANGED <<reg, phase, binding, late>>
    BY <1>2 DEF Break
  <2> QED
    BY <2>1, MessageKeeps
<1>3. CASE Brief
  <2>1. /\ msg.type = "request" /\ msg.expires \in 1 .. MinExpires - 1
        /\ msg'.type = "too brief" /\ msg'.minExpires = MinExpires /\ UNCHANGED <<reg, phase, binding, late>>
    BY <1>3 DEF Brief
  <2>2. phase \in Sending /\ phase # "removing" /\ msg.expires = reg.expires
    <3>1. phase \in Sending /\ msg.expires = IF phase = "removing" THEN 0 ELSE reg.expires
      BY <2>1, Typed DEF MsgInv
    <3>2. msg.expires # 0
      <4>1. MinExpires \in Nat
        BY RegConstants
      <4>2. \A x \in 1 .. MinExpires - 1 : x # 0
        BY <4>1
      <4> QED
        BY <2>1, <4>2
    <3> QED
      BY <3>1, <3>2
  <2>3. MinExpires \in Nat /\ MinExpires > Enough
    <3>1. PICK x \in Nat : x = reg.expires /\ x > Enough /\ x \in 1 .. MinExpires - 1
      BY <2>1, <2>2, Typed
    <3> QED
      BY <3>1, RegConstants
  <2>4. IntervalInv'
    BY <2>1 DEF RegistrationInv, IntervalInv
  <2>5. MsgInv'
    BY <2>1, <2>2, <2>3, Typed DEF MsgInv
  <2>6. OutlastInv'
    BY <2>1, Typed DEF OutlastInv
  <2> QED
    BY <2>4, <2>5, <2>6 DEF RegistrationInv
<1>4. CASE \E expires \in Grantable : Grant(expires)
  <2>1. PICK e \in Grantable : Grant(e)
    BY <1>4
  <2>2. /\ msg.type = "request" /\ msg'.type = "success" /\ msg'.expires = e /\ binding' = e
        /\ msg'.header = IF e = 0 THEN EchoesZero ELSE ByHeader
        /\ UNCHANGED <<reg, phase, late>>
    BY <2>1 DEF Grant
  <2>3. e = msg.expires \/ (e \in Grants /\ e < msg.expires)
    BY <2>1, <2>2 DEF Grantable
  <2>4. phase \in Sending /\ msg.expires = IF phase = "removing" THEN 0 ELSE reg.expires
    BY <2>2, Typed DEF MsgInv
  <2>5. e \in Nat /\ (phase = "removing" => e = 0) /\ (phase # "removing" => e > Enough)
    BY <2>3, <2>4, Typed, RegConstants
  <2>6. IntervalInv'
    BY <2>2, <2>5 DEF RegistrationInv, IntervalInv
  <2>7. MsgInv'
    <3>1. phase # "removing" => e # 0
      BY <2>5, RegConstants
    <3>2. IF phase = "removing" THEN ~msg'.header ELSE msg'.header
      BY <2>2, <2>5, <3>1, RegConstants
    <3> QED
      BY <2>2, <2>4, <2>5, <3>2, Typed DEF MsgInv
  <2>8. OutlastInv'
    <3>1. phase # "registered"
      BY <2>4 DEF Sending
    <3>2. late \in Nat /\ e + late >= e
      BY <2>5, Typed, RegConstants
    <3> QED
      BY <2>2, <3>1, <3>2 DEF OutlastInv
  <2> QED
    BY <2>6, <2>7, <2>8 DEF RegistrationInv
<1> QED
  BY <1>1, <1>2, <1>3, <1>4

LEMMA SuccessStep == ASSUME IntervalsFit, RegistrationInv, ReceiveSuccessResponse PROVE RegistrationInv'
<1>1. /\ msg.type = "success"
      /\ reg' = IF msg.header /\ msg.expires # reg.expires
                THEN [reg EXCEPT !.expires = msg.expires, !.period = CreateRegInterval(msg.expires),
                                 !.tick = CreateRegInterval(msg.expires), !.tag = TRUE]
                ELSE [reg EXCEPT !.tag = TRUE]
      /\ phase' = IF phase = "removing" THEN "removed" ELSE "registered"
      /\ msg' = Nothing /\ UNCHANGED <<binding, late>>
  BY DEF ReceiveSuccessResponse
<1>2. /\ phase \in Sending
      /\ IF phase = "removing" THEN ~msg.header ELSE msg.header /\ msg.expires \in Nat /\ msg.expires > Enough
  BY <1>1, Typed DEF MsgInv
<1>3. msg.header => CreateRegInterval(msg.expires) \in Nat
  BY <1>2, Interval
<1>4. IntervalInv'
  <2>1. CASE msg.header /\ msg.expires # reg.expires
    <3>1. /\ reg' \in [expires : Nat, period : Nat, tick : Nat, cseq : Nat, tag : BOOLEAN]
          /\ reg'.expires = msg.expires /\ reg'.period = CreateRegInterval(msg.expires)
          /\ reg'.tick = CreateRegInterval(msg.expires)
      BY <1>1, <1>2, <1>3, <2>1, Typed
    <3> QED
      BY <1>1, <1>2, <1>3, <2>1, <3>1, Typed DEF IntervalInv
  <2>2. CASE ~(msg.header /\ msg.expires # reg.expires)
    <3>1. /\ reg' \in [expires : Nat, period : Nat, tick : Nat, cseq : Nat, tag : BOOLEAN]
          /\ reg'.expires = reg.expires /\ reg'.period = reg.period /\ reg'.tick = reg.tick
      BY <1>1, <2>2, Typed
    <3> QED
      BY <1>1, <3>1, Typed DEF IntervalInv
  <2> QED
    BY <2>1, <2>2
<1>5. MsgInv'
  BY <1>1 DEF MsgInv, Nothing, Phases, Sending
<1>6. OutlastInv'
  <2>1. ASSUME phase # "removing" PROVE binding > reg'.tick + MaxLate
    <3>1. phase \in {"registering", "refreshing"} /\ msg.header /\ msg.expires \in Nat /\ msg.expires > Enough
      BY <1>2, <2>1 DEF Sending
    <3>2. binding + late >= msg.expires /\ binding \in Nat /\ late \in Nat /\ late <= MaxLate
      BY <1>1, <3>1, Typed, RegConstants DEF OutlastInv
    <3>3. reg'.tick \in Nat /\ reg'.tick <= CreateRegInterval(msg.expires)
      <4>1. CASE msg.expires # reg.expires
        <5>1. reg'.tick = CreateRegInterval(msg.expires)
          BY <1>1, <3>1, <4>1, Typed
        <5> QED
          BY <1>3, <3>1, <5>1
      <4>2. CASE msg.expires = reg.expires
        <5>1. reg'.tick = reg.tick
          BY <1>1, <4>2, Typed
        <5> QED
          BY <4>2, <5>1, Typed
      <4> QED
        BY <4>1, <4>2
    <3> QED
      BY <3>1, <3>2, <3>3, Interval
  <2> QED
    BY <1>1, <2>1 DEF OutlastInv, Nothing
<1> QED
  BY <1>4, <1>5, <1>6 DEF RegistrationInv

LEMMA RetrySteps ==
    ASSUME IntervalsFit, RegistrationInv, ReceiveErrorResponse \/ ReceiveRejection \/ ReceiveOtherError
    PROVE  RegistrationInv'
<1>1. CASE ReceiveErrorResponse
  <2>1. PICK r : r = [reg EXCEPT !.expires = msg.minExpires, !.period = CreateRegInterval(msg.minExpires),
                                 !.tick = CreateRegInterval(msg.minExpires)]
    OBVIOUS
  <2>2. msg.type = "too brief" /\ SendRegister(r, auth, phase) /\ UNCHANGED <<binding, late>>
    BY <1>1, <2>1 DEF ReceiveErrorResponse
  <2>3. phase \in Sending /\ msg.minExpires \in Nat /\ msg.minExpires > Enough
    BY <2>2, Typed DEF MsgInv
  <2>4. CreateRegInterval(msg.minExpires) \in Nat
    BY <2>3, Interval
  <2>5. /\ r \in [expires : Nat, period : Nat, tick : Nat, cseq : Nat, tag : BOOLEAN]
        /\ r.expires > Enough /\ r.period = CreateRegInterval(r.expires) /\ r.tick <= r.period
    <3>1. PICK m \in Nat, k \in Nat : m = msg.minExpires /\ k = CreateRegInterval(m) /\ m > Enough
      BY <2>3, <2>4
    <3>2. r = [reg EXCEPT !.expires = m, !.period = k, !.tick = k]
      BY <2>1, <3>1
    <3>3. /\ r \in [expires : Nat, period : Nat, tick : Nat, cseq : Nat, tag : BOOLEAN]
          /\ r.expires = m /\ r.period = k /\ r.tick = k
      BY <3>2, Typed
    <3> QED
      BY <3>1, <3>3
  <2>6. phase = "refreshing" => binding + late' > MaxLate
    BY <2>2, Typed DEF OutlastInv
  <2> QED
    BY <2>2, <2>3, <2>5, <2>6, Typed, SentKeeps
<1>2. CASE ReceiveRejection
  <2>1. PICK r : \/ r.ok /\ SendRegister(reg, r.auth, phase)
                 \/ phase' = "failed" /\ msg' = Nothing /\ UNCHANGED reg
    BY <1>2 DEF ReceiveRejection
  <2>2. msg.type = "rejection" /\ UNCHANGED <<binding, late>>
    BY <1>2 DEF ReceiveRejection
  <2>3. CASE SendRegister(reg, r.auth, phase)
    <3>1. phase \in Sending /\ (phase = "refreshing" => binding + late' > MaxLate)
      BY <2>2, Typed DEF MsgInv, OutlastInv
    <3> QED
      BY <2>2, <2>3, <3>1, Typed, SentKeeps
  <2>4. CASE phase' = "failed" /\ msg' = Nothing /\ UNCHANGED reg
    BY <2>2, <2>4, OverKeeps
  <2> QED
    BY <2>1, <2>3, <2>4
<1>3. CASE ReceiveOtherError
  BY <1>3, OverKeeps DEF ReceiveOtherError
<1> QED
  BY <1>1, <1>2, <1>3

LEMMA PassStep == ASSUME IntervalsFit, RegistrationInv, Pass PROVE RegistrationInv'
<1>1. /\ IF phase \in Sending THEN late < MaxLate ELSE phase = "registered" /\ reg.tick > 0
      /\ reg' = [reg EXCEPT !.tick = IF @ = 0 THEN 0 ELSE @ - 1]
      /\ binding' = IF binding = 0 THEN 0 ELSE binding - 1
      /\ late' = IF phase \in Sending THEN late + 1 ELSE late
      /\ UNCHANGED <<phase, msg>>
  BY DEF Pass
<1>2. /\ reg' \in [expires : Nat, period : Nat, tick : Nat, cseq : Nat, tag : BOOLEAN]
      /\ reg'.expires = reg.expires /\ reg'.period = reg.period
      /\ reg'.tick = (IF reg.tick = 0 THEN 0 ELSE reg.tick - 1) /\ reg'.tick <= reg'.period
  BY <1>1, Typed
<1>3. binding' \in Nat /\ late' \in 0 .. MaxLate
  BY <1>1, Typed, RegConstants
<1>4. IntervalInv'
  BY <1>2, <1>3, Typed DEF IntervalInv
<1>5. MsgInv'
  BY <1>1, <1>2, Typed DEF MsgInv
<1>6. OutlastInv'
  <2>1. ASSUME phase = "registered" PROVE binding' > reg'.tick + MaxLate
    <3>1. binding > reg.tick + MaxLate /\ reg.tick > 0
      BY <1>1, <2>1, Typed DEF OutlastInv, Sending
    <3> QED
      BY <1>1, <1>2, <3>1, Typed, RegConstants
  <2>2. ASSUME phase = "refreshing", msg.type # "success" PROVE binding' + late' > MaxLate
    <3>1. binding + late > MaxLate /\ late < MaxLate /\ late' = late + 1
      BY <1>1, <2>2, Typed DEF OutlastInv, Sending
    <3> QED
      BY <1>1, <3>1, Typed, RegConstants
  <2>3. ASSUME phase \in {"registering", "refreshing"}, msg.type = "success" PROVE binding' + late' >= msg.expires
    <3>1. binding + late >= msg.expires /\ late < MaxLate /\ late' = late + 1 /\ msg.expires \in Nat /\ msg.expires > Enough
      BY <1>1, <2>3, Typed DEF OutlastInv, MsgInv, Sending
    <3> QED
      BY <1>1, <3>1, Typed, RegConstants
  <2> QED
    BY <1>1, <2>1, <2>2, <2>3 DEF OutlastInv
<1> QED
  BY <1>4, <1>5, <1>6 DEF RegistrationInv

LEMMA RegistrationStep == ASSUME IntervalsFit, RegistrationInv, [Next]_vars PROVE RegistrationInv'
<1>1. CASE UNCHANGED <<reg, phase, msg, binding, late>>
  BY <1>1 DEF RegistrationInv, IntervalInv, MsgInv, OutlastInv
<1>2. CASE Exchange
  BY <1>2, SuccessStep, RetrySteps, ServerSteps DEF Exchange
<1>3. CASE \E r \in DOMAIN guard : Forget(r)
  <2>1. UNCHANGED <<reg, phase, msg, binding, late>>
    BY <1>3 DEF Forget
  <2> QED
    BY <1>1, <2>1
<1>4. CASE UNCHANGED vars
  BY <1>1, <1>4 DEF vars
<1> QED
  BY <1>2, <1>3, <1>4, StartSteps, PassStep DEF Next

(* RegistrationInv, the inductive invariant, holds in every reachable      *)
(* state: the interval belongs to the expiry, what is under way to the     *)
(* phase, and the binding outlasts the way to the next request.            *)
THEOREM RegistrationInvariant == ASSUME IntervalsFit PROVE Spec => []RegistrationInv
<1>1. Init => RegistrationInv
  BY RegistrationInit
<1>2. RegistrationInv /\ [Next]_vars => RegistrationInv'
  BY RegistrationStep
<1> QED
  BY <1>1, <1>2, PTL DEF Spec

(* BindingKept for any expiry, grants and challenges: the registration     *)
(* whose interval create_reg_interval sets does not lapse at the registrar *)
(* while the loop keeps refreshing it.                                     *)
THEOREM BindingIsKept == ASSUME IntervalsFit PROVE Spec => []BindingKept
<1>1. RegistrationInv => BindingKept
  <2> SUFFICES ASSUME RegistrationInv, phase \in {"registered", "refreshing"} PROVE binding > 0
    BY DEF BindingKept
  <2>1. CASE phase = "registered"
    BY <2>1, Typed, RegConstants DEF OutlastInv
  <2>2. CASE phase = "refreshing" /\ msg.type # "success"
    BY <2>2, Typed, RegConstants DEF OutlastInv
  <2>3. CASE phase = "refreshing" /\ msg.type = "success"
    <3>1. binding + late >= msg.expires /\ msg.expires \in Nat /\ msg.expires > Enough
      BY <2>3, Typed DEF OutlastInv, MsgInv
    <3> QED
      BY <3>1, Typed, RegConstants
  <2> QED
    BY <2>1, <2>2, <2>3
<1> QED
  BY <1>1, RegistrationInvariant, PTL
=============================================================================
