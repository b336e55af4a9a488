------------------------------ MODULE IceAgent ------------------------------
(***************************************************************************)
(* Two agents of the ice crate (ice/src/lib.rs, stun.rs) that check their  *)
(* candidate pairs against each other over a network with an address       *)
(* translator.  An agent is a record; the crate's methods, which are       *)
(* sequential, are operators on it that give the new record, the messages  *)
(* sent and, if an expect failed, the candidates for which it did.         *)
(***************************************************************************)
EXTENDS Integers, Sequences, FiniteSets, SequencesExt

CONSTANTS
    A, B,            \* the agents; A makes the offer
    Places,          \* the networks the agents may be in, each with
                     \*   hosts, the host addresses of each agent in order,
                     \*   seen, the address a host address has outside,
                     \*   prompt, whether an answer comes before the agent's
                     \*   timer fires, unless it or the request is lost,
                     \*   losses, how many a prompt network loses,
                     \*   max_pairs, the IceAgent::max_pairs of each agent
    CompOf,          \* component of each host address: "rtp" or "rtcp"
    Tie,             \* control_tie_breaker of each agent
    RtcpMux,         \* rtcp_mux
    MaxRetransmits,  \* StunConfig::max_retransmits
    None

Agents == {A, B}
Peer(x) == IF x = A THEN B ELSE A
Addrs == DOMAIN CompOf
Components == IF RtcpMux THEN {"rtp"} ELSE {"rtp", "rtcp"}

ASSUME IceAssumption ==
    /\ A # B /\ Tie \in [Agents -> Nat] /\ Tie[A] # Tie[B]
    /\ \A pl \in Places : /\ pl.hosts \in [Agents -> Seq(Addrs)] /\ DOMAIN pl.seen = Addrs
                          /\ pl.max_pairs \in [Agents -> Nat]
    /\ CompOf \in [Addrs -> Components]
    /\ MaxRetransmits \in Nat

VARIABLES
    place,     \* the network the agents are in
    agent,     \* the agents
    net,       \* messages under way
    conflict,  \* whether both agents began in the same role
    lost,      \* messages a prompt network lost
    panicked   \* None, or the agent and the candidates for which an expect failed

vars == <<place, agent, net, conflict, lost, panicked>>

-----------------------------------------------------------------------------
(* Candidates and pairs.                                                   *)

(* The priority of a local candidate, with the crate's weights scaled      *)
(* down: the kind, the number of older candidates of the kind, the         *)
(* component.                                                              *)
Priority(kind, older, comp) ==
    16 * (CASE kind = "host" -> 3 [] kind = "prflx" -> 2)
       + 2 * older + (IF comp = "rtp" THEN 1 ELSE 0)

HostCandidate(x, i) ==
    LET addr == place.hosts[x][i] IN
    [kind |-> "host", addr |-> addr, base |-> addr, comp |-> CompOf[addr],
     prio |-> Priority("host", i - 1, CompOf[addr])]

HostCandidates(x) == {HostCandidate(x, i) : i \in DOMAIN place.hosts[x]}

NewPair(l, r) ==
    [l |-> l, r |-> r, comp |-> l.comp, state |-> "waiting", checks |-> 0,
     req |-> None, tries |-> 0, use |-> FALSE, nominated |-> FALSE]

(* pair_priority; 1000 stands for 2^32.                                    *)
PairPriority(p, ctrl) ==
    LET g == IF ctrl THEN p.l.prio ELSE p.r.prio
        d == IF ctrl THEN p.r.prio ELSE p.l.prio IN
    1000 * (IF g < d THEN g ELSE d) + 2 * (IF g < d THEN d ELSE g) + (IF g > d THEN 1 ELSE 0)

Best(ag, P) ==
    CHOOSE p \in P : \A q \in P : PairPriority(q, ag.ctrl) <= PairPriority(p, ag.ctrl)
Least(ag, P) ==
    CHOOSE p \in P : \A q \in P : PairPriority(p, ag.ctrl) <= PairPriority(q, ag.ctrl)

Replace(ag, p, q) == [ag EXCEPT !.pairs = (@ \ {p}) \cup {q}]

HasPair(ag, l, r) == \E p \in ag.pairs : p.l = l /\ p.r = r

(* prune_pairs: the list is sorted by rising priority, and the end goes.   *)
Prune(ag) ==
    IF Cardinality(ag.pairs) <= ag.max_pairs THEN ag
    ELSE [ag EXCEPT !.pairs = CHOOSE P \in SUBSET @ :
             /\ Cardinality(P) = ag.max_pairs
             /\ \A p \in P, q \in @ \ P : PairPriority(p, ag.ctrl) <= PairPriority(q, ag.ctrl)]

(* form_pairs, for addresses of one family.                                *)
FormPairs(ag) ==
    Prune([ag EXCEPT !.pairs = @ \cup
        {NewPair(c[1], c[2]) : c \in {d \in ag.local \X ag.remote :
            /\ d[2].kind # "prflx"
            /\ d[1].comp = d[2].comp
            /\ ~HasPair(ag, d[1], d[2])}}])

(* add_local_candidate for a peer-reflexive candidate.                     *)
AddPeerReflexive(ag, comp, base, addr) ==
    IF \E l \in ag.local : l.kind = "prflx" /\ l.base = base /\ l.addr = addr THEN ag
    ELSE LET older == Cardinality({l \in ag.local : l.kind = "prflx"}) IN
         FormPairs([ag EXCEPT !.local = @ \cup
             {[kind |-> "prflx", addr |-> addr, base |-> base, comp |-> comp,
               prio |-> Priority("prflx", older, comp)]}])

-----------------------------------------------------------------------------
(* Messages: the addresses are those the receiver sees, the key is the     *)
(* agent whose password protects the message.                              *)
Request(x, ag, p) ==
    [class |-> "request", tx |-> <<x, p.l.kind, p.l.addr, p.r.addr, p.checks + 1>>,
     key |-> Peer(x), src |-> place.seen[p.l.base], dst |-> p.r.addr,
     ctrl |-> ag.ctrl, use |-> p.nominated, prio |-> p.l.prio]

Success(x, m, at) ==
    [class |-> "success", tx |-> m.tx, key |-> x, src |-> place.seen[at], dst |-> m.src,
     mapped |-> m.src]

(* make_role_error: a success message under the receiver's own password.   *)
RoleError(x, m, at) == [Success(x, m, at) EXCEPT !.key = Peer(x)]

(* verify_integrity.                                                       *)
Verified(x, m) == m.key = (IF m.class = "request" THEN x ELSE Peer(x))

(* The host address behind the one a message is sent to, if there is one.  *)
Behind(dst) == {a \in Addrs : place.seen[a] = dst}

Result(ag, out, bad) == [ag |-> ag, out |-> out, bad |-> bad]

-----------------------------------------------------------------------------
(* IceEvent::UseAddr: the application sends to the pair's remote address.  *)
UseAddr(ag, p) == [ag EXCEPT !.used[p.comp] = [from |-> place.seen[p.l.base], to |-> p.r.addr]]

(* poll_nomination_of_component, controlled: the pair that the peer        *)
(* nominated, once it has succeeded.                                       *)
NominateControlled(ag, c) ==
    LET P == {p \in ag.pairs : p.comp = c /\ p.use /\ p.state = "succeeded"} IN
    IF P = {} \/ \E p \in ag.pairs : p.nominated THEN ag
    ELSE LET p == Best(ag, P) IN
         UseAddr(Replace(ag, p, [p EXCEPT !.nominated = TRUE]), p)

(* Mutant: a pair is nominated although another one is.                    *)
NominateControllingAgain(ag, c) ==
    LET P == {p \in ag.pairs : p.comp = c /\ p.state = "succeeded" /\ ~p.nominated} IN
    IF P = {} THEN ag
    ELSE LET p == Best(ag, P) IN
         [Replace(ag, p, [p EXCEPT !.nominated = TRUE]) EXCEPT
             !.queue = <<<<p.l, p.r>>>> \o @]

(* ... and controlling: the best pair that succeeded is checked once more. *)
NominateControlling(ag, c) ==
    LET P == {p \in ag.pairs : p.comp = c /\ p.state = "succeeded"} IN
    IF P = {} \/ \E p \in ag.pairs : p.comp = c /\ p.nominated THEN ag
    ELSE LET p == Best(ag, P) IN
         [Replace(ag, p, [p EXCEPT !.nominated = TRUE]) EXCEPT
             !.queue = <<<<p.l, p.r>>>> \o @]

Nominate(ag, c) ==
    IF ag.ctrl THEN NominateControlling(ag, c) ELSE NominateControlled(ag, c)

PollNomination(ag) ==
    LET rtp == Nominate(ag, "rtp") IN IF RtcpMux THEN rtp ELSE Nominate(rtp, "rtcp")

-----------------------------------------------------------------------------
(* IceAgent::poll.                                                         *)

(* Mutant: a check fails when its timer fires for the first time.          *)
PollRetransmitNever(ag, due) ==
    Result([ag EXCEPT !.pairs = (@ \ due) \cup
               {[p EXCEPT !.state = "failed", !.req = None] : p \in due}], {}, None)

(* poll_retransmit, for the pairs whose timer is due.                      *)
PollRetransmit(ag, due) ==
    LET again == {p \in due : p.tries < MaxRetransmits} IN
    Result([ag EXCEPT !.pairs =
               (@ \ due) \cup {[p EXCEPT !.tries = @ + 1] : p \in again}
                         \cup {[p EXCEPT !.state = "failed", !.req = None] : p \in due \ again}],
           {p.req : p \in again}, None)

(* poll_state.                                                             *)
PollState(ag) ==
    LET nominated == \A c \in Components : \E p \in ag.pairs :
                        p.comp = c /\ p.nominated /\ p.state = "succeeded"
        possible == \A c \in Components : \E p \in ag.pairs :
                        p.comp = c /\ p.state \in {"waiting", "in_progress"} IN
    [ag EXCEPT !.conn =
        IF nominated THEN "connected"
        ELSE IF ~possible THEN "failed"
        ELSE IF @ = "new" THEN "checking"
        ELSE IF @ = "connected" THEN "disconnected" ELSE @]

Check(x, ag, p) ==
    LET req == Request(x, ag, p) IN
    Result(Replace(ag, p, [p EXCEPT !.state = "in_progress", !.req = req,
                                    !.checks = @ + 1, !.tries = 0]),
           {req}, None)

(* The check that a poll starts: the head of the triggered-check queue or  *)
(* the first pair of the list that waits.                                  *)
StartCheck(x, ag) ==
    LET popped == [ag EXCEPT !.queue = IF @ = <<>> THEN @ ELSE Tail(@)]
        top == {p \in ag.pairs : ag.queue # <<>> /\ <<p.l, p.r>> = Head(ag.queue)}
        waiting == {p \in ag.pairs : p.state = "waiting"} IN
    CASE top # {} -> Check(x, popped, CHOOSE p \in top : TRUE)
      [] top = {} /\ waiting # {} -> Check(x, popped, Least(ag, waiting))
      [] OTHER -> Result(popped, {}, None)

-----------------------------------------------------------------------------
(* IceAgent::receive.  `at` is the host address a message arrived at.      *)

(* receive_stun_success.                                                   *)
ReceiveSuccess(x, ag, m, at) ==
    LET P == {p \in ag.pairs : p.state = "in_progress" /\ p.req.tx = m.tx} IN
    IF P = {} THEN Result(ag, {}, None)
    ELSE LET p == CHOOSE q \in P : TRUE
             symmetric == m.src = p.r.addr \/ at = p.l.base
             done == Replace(ag, p,
                        [p EXCEPT !.state = IF symmetric THEN "succeeded" ELSE "failed",
                                  !.nominated = @ /\ symmetric, !.req = None])
             used == IF symmetric /\ p.nominated THEN UseAddr(done, p) ELSE done IN
         Result(IF m.mapped # p.l.addr THEN AddPeerReflexive(used, p.comp, at, m.mapped)
                ELSE used, {}, None)

(* Role conflict: the agent with the larger tie breaker keeps its role.    *)
Conflicts(ag, m) == m.ctrl = ag.ctrl

(* Mutant: a peer-reflexive candidate is not paired.                       *)
AcceptUnpaired(x, ag, m, at) ==
    LET local == CHOOSE l \in ag.local : l.kind = "host" /\ l.addr = at
        new == [kind |-> "prflx", addr |-> m.src, comp |-> CompOf[at], prio |-> m.prio]
        P == {p \in ag.pairs : p.l = local /\ p.r.addr = m.src} IN
    IF P = {} THEN Result(ag, {}, [agent |-> x, local |-> local, remote |-> new])
    ELSE LET p == CHOOSE q \in P : TRUE
             noted == Replace(ag, p, [p EXCEPT !.use = m.use]) IN
         Result(IF m.use THEN PollNomination(noted) ELSE noted, {Success(x, m, at)}, None)

(* The rest of receive_stun_request: the pair of the message's addresses,  *)
(* made for a peer-reflexive candidate if the source is not known.         *)
Accept(x, ag, m, at) ==
    LET local == CHOOSE l \in ag.local : l.kind = "host" /\ l.addr = at
        known == {r \in ag.remote : r.addr = m.src}
        new == [kind |-> "prflx", addr |-> m.src, comp |-> CompOf[at], prio |-> m.prio]
        remote == IF known = {} THEN new ELSE CHOOSE r \in known : TRUE
        met == IF known # {} THEN ag
               ELSE [ag EXCEPT !.remote = @ \cup {new}, !.pairs = @ \cup {NewPair(local, new)},
                               !.queue = Append(@, <<local, new>>)]
        P == {p \in met.pairs : p.l = local /\ p.r = remote} IN
    IF P = {} THEN Result(met, {}, [agent |-> x, local |-> local, remote |-> remote])
    ELSE LET p == CHOOSE q \in P : TRUE
             noted == Replace(met, p, [p EXCEPT !.use = m.use]) IN
         Result(IF m.use THEN PollNomination(noted) ELSE noted, {Success(x, m, at)}, None)

(* Mutant: no conflict is seen.                                            *)
ReceiveRequestBlind(x, ag, m, at) == Accept(x, ag, m, at)

(* Mutant: the role is never given up.                                     *)
ReceiveRequestRefuses(x, ag, m, at) ==
    IF Conflicts(ag, m) THEN Result(ag, {RoleError(x, m, at)}, None)
    ELSE Accept(x, ag, m, at)

(* receive_stun_request.                                                   *)
ReceiveRequest(x, ag, m, at) ==
    IF Conflicts(ag, m) /\ Tie[x] >= Tie[Peer(x)]
    THEN Result(ag, {RoleError(x, m, at)}, None)
    ELSE Accept(x, [ag EXCEPT !.ctrl = ~m.ctrl], m, at)

Receive(x, ag, m, at) ==
    IF ~ag.known THEN Result([ag EXCEPT !.backlog = Append(@, [m |-> m, at |-> at])], {}, None)
    ELSE IF ~Verified(x, m) THEN Result(ag, {}, None)
    ELSE IF m.class = "request" THEN ReceiveRequest(x, ag, m, at)
    ELSE ReceiveSuccess(x, ag, m, at)

(* set_remote_data: the peer's candidates, then what was held back.        *)
Informed(x, ag) ==
    LET ready == FormPairs([ag EXCEPT !.known = TRUE, !.backlog = <<>>,
                                      !.remote = @ \cup HostCandidates(Peer(x))])
        step(res, pkt) == LET r == Receive(x, res.ag, pkt.m, pkt.at) IN
                          IF res.bad # None THEN res
                          ELSE Result(r.ag, res.out \cup r.out, r.bad) IN
    FoldLeft(step, Result(ready, {}, None), ag.backlog)

-----------------------------------------------------------------------------
NewAgent(x, ctrl) ==
    [max_pairs |-> place.max_pairs[x], local |-> HostCandidates(x), remote |-> {}, pairs |-> {}, queue |-> <<>>,
     ctrl |-> ctrl, conn |-> "new", known |-> FALSE, backlog |-> <<>>,
     used |-> [c \in {"rtp", "rtcp"} |-> None]]

(* The offering agent waits for the answer, the other has its peer's data. *)
Init ==
    \E roles \in [Agents -> BOOLEAN], pl \in Places :
        /\ place = pl
        /\ agent = [x \in Agents |-> IF x = A THEN NewAgent(A, roles[A])
                                     ELSE Informed(B, NewAgent(B, roles[B])).ag]
        /\ conflict = (roles[A] = roles[B])
        /\ net = {} /\ lost = 0 /\ panicked = None

(* The application carries out what a method asked for; a message to an    *)
(* address nobody is seen under goes nowhere.                              *)
Apply(x, res, rest) ==
    /\ agent' = [agent EXCEPT ![x] = res.ag]
    /\ net' = rest \cup {m \in res.out : Behind(m.dst) # {}}
    /\ panicked' = res.bad
    /\ UNCHANGED <<place, conflict>>

(* Timers that may fire: over a prompt network only those of a check whose *)
(* request or answer was lost.                                             *)
MayBeDue(x) ==
    {p \in agent[x].pairs :
        /\ p.state = "in_progress"
        /\ place.prompt =>
            /\ p.req.tx \notin {m.tx : m \in net}
            /\ \A y \in Agents : p.req.tx \notin {b.m.tx : b \in ToSet(agent[y].backlog)}}

(* ta: the last check is 50 ms ago.                                        *)
Poll(x) ==
    /\ panicked = None
    /\ \E due \in SUBSET MayBeDue(x), ta \in BOOLEAN :
        \E sent \in {PollRetransmit(agent[x], due)} :
        \E seen \in {PollState(sent.ag)} :
        \E polled \in {PollNomination(seen)} :
        \E res \in {IF polled.known /\ ta THEN StartCheck(x, polled)
                    ELSE Result(polled, {}, None)} :
            Apply(x, res, net \cup {m \in sent.out : Behind(m.dst) # {}})
    /\ UNCHANGED lost

(* A network that is not prompt reorders, repeats and forgets messages.    *)
Deliver(x) ==
    /\ panicked = None
    /\ \E m \in net : \E at \in Behind(m.dst) \cap ToSet(place.hosts[x]) :
        \E res \in {Receive(x, agent[x], m, at)} :
            Apply(x, res, IF place.prompt THEN net \ {m} ELSE net)
    /\ UNCHANGED lost

Lose ==
    /\ place.prompt /\ lost < place.losses
    /\ \E m \in net : net' = net \ {m}
    /\ lost' = lost + 1
    /\ UNCHANGED <<place, agent, conflict, panicked>>

SetRemoteData ==
    /\ panicked = None /\ ~agent[A].known
    /\ \E res \in {Informed(A, agent[A])} : Apply(A, res, net)
    /\ UNCHANGED lost

Step == SetRemoteData \/ \E x \in Agents : Poll(x) \/ Deliver(x)

Next == Step \/ Lose

(* Over a prompt network something goes on as long as anything can.        *)
Spec == Init /\ [][Next]_vars /\ WF_vars(place.prompt /\ Step)

-----------------------------------------------------------------------------
(* Types: the fields of both agents and the messages under way.            *)
TypeOK ==
    /\ \A x \in Agents :
        LET ag == agent[x] IN
        /\ {ag.ctrl, ag.known} \subseteq BOOLEAN
        /\ ag.conn \in {"new", "checking", "connected", "disconnected", "failed"}
        /\ \A p \in ag.pairs :
            /\ p.l \in ag.local /\ p.r \in ag.remote /\ p.l.comp = p.r.comp
            /\ p.state \in {"waiting", "in_progress", "succeeded", "failed"}
            /\ (p.state = "in_progress") = (p.req # None)
            /\ p.tries \in 0 .. MaxRetransmits
        /\ \A p, q \in ag.pairs : p.l = q.l /\ p.r = q.r => p = q
    /\ lost \in 0 .. place.losses /\ conflict \in BOOLEAN
    /\ panicked # None => panicked.agent \in Agents

(* expect("local_id & remote_id are valid") fails in two cases only, in    *)
(* whatever order checks and answers arrive: for a peer-reflexive          *)
(* candidate that was paired with another local address, where it was met, *)
(* and with a list of pairs that is full.                                  *)
NoPanic ==
    panicked # None =>
        LET pairs == agent[panicked.agent].pairs IN
        \/ panicked.remote.kind = "prflx" /\ \E p \in pairs : p.r = panicked.remote
        \/ Cardinality(pairs) >= place.max_pairs[panicked.agent]

(* Both applications send to each other: the address an agent was told to  *)
(* use is the one under which its peer sends, in whatever order checks,    *)
(* answers and nominations arrive and whichever roles the agents began in. *)
Agreement ==
    \A c \in Components :
        LET a == agent[A].used[c]
            b == agent[B].used[c] IN
        a # None /\ b # None => a.to = b.from /\ b.to = a.from

(* A controlled agent uses a pair only if the peer, as the controlling     *)
(* one, nominated the pair of the same addresses.                          *)
NominatedByController ==
    \A x \in Agents, c \in Components :
        agent[x].used[c] # None /\ ~agent[x].ctrl =>
            /\ agent[Peer(x)].ctrl
            /\ \E p \in agent[Peer(x)].pairs :
                /\ p.nominated /\ p.comp = c
                /\ p.r.addr = agent[x].used[c].from /\ place.seen[p.l.base] = agent[x].used[c].to

(* The two applications use one pair, which the controlling agent chose.   *)
OnePairUsed == Agreement /\ NominatedByController

(* Once told, the address to use is not changed any more.                  *)
UsedStays ==
    [][\A x \in Agents, c \in Components :
          agent[x].used[c] # None => agent'[x].used[c] = agent[x].used[c]]_vars

(* A role conflict is settled: one agent ends up controlling the other,    *)
(* unless an expect fails first.                                           *)
RolesSettle == place.prompt => <>[](agent[A].ctrl # agent[B].ctrl \/ panicked # None)

Direct == \A a \in Addrs : place.seen[a] = a

(* Agents that began in different roles and see each other without address *)
(* translation both end up connected, as long as no more is lost than      *)
(* retransmissions make up for and no expect fails.                        *)
BothConnect ==
    place.prompt /\ ~conflict /\ Direct =>
        <>[](panicked # None \/ \A x \in Agents : agent[x].conn = "connected")
=============================================================================
