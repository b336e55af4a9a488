----------------------------- MODULE DialogLayer -----------------------------
(***************************************************************************)
(* DialogLayer (sip-ua/src/dialog/layer.rs) and the Dialog objects on both *)
(* ends of a call (dialog/mod.rs, dialog/client_builder.rs).  The calling  *)
(* dialog numbers its requests from one counter; the called one accepts    *)
(* them by CSeq under the lock of the dialog map, keeps those that come    *)
(* too early in a backlog, and distributes the accepted ones to its usages *)
(* after the lock is released, one task per received request.              *)
(***************************************************************************)
EXTENDS Naturals, Sequences, FiniteSets, SequencesExt

CONSTANTS
    C0,           \* CSeq of the INVITE that created the dialog
    MaxCSeq       \* bound on the calling dialog's counter

ASSUME CSeqAssumption == C0 \in Nat \ {0} /\ MaxCSeq \in Nat /\ C0 < MaxCSeq

VARIABLES
    ordered,         \* does the transport keep the order of the requests?
    local_cseq,      \* the calling Dialog.local_cseq
    skipped,         \* numbers create_ack took from the counter (history)
    unacked,         \* CSeqs of INVITEs answered with 2xx and not acknowledged
    arriving,        \* requests on their way to DialogLayer::receive
    next_peer_cseq,  \* of the receiving DialogEntry, or None
    base,            \* the first number the entry expected (history), or None
    backlog,         \* of the receiving DialogEntry
    listed,          \* is the DialogEntry in the map?
    usage,           \* is the invite usage registered in the entry?
    tasks,           \* what each receiving task still has to distribute
    handled,         \* requests a usage took, in this order
    refused          \* requests answered 404 or 481, or ACKs ignored

entryVars == <<next_peer_cseq, base, backlog, listed, usage>>
peerVars == <<ordered, local_cseq, skipped, unacked>>
vars == <<peerVars, arriving, entryVars, tasks, handled, refused>>

None == 0

Request == [method : {"INVITE", "OTHER", "ACK"}, cseq : C0 .. MaxCSeq]

(* The entry of Dialog::new_server expects C0 + 1: its peer made its       *)
(* Dialog from the 2xx, starts at the INVITE's own number, owes the ACK.   *)
ServerEntry == next_peer_cseq = C0 + 1 /\ base = C0 + 1 /\ unacked = {C0}

(* The entry of create_dialog_from_response expects nothing yet; its peer  *)
(* is the called side, which starts at a random number.                    *)
ClientEntry == next_peer_cseq = None /\ base = None /\ unacked = {}

Init ==
    /\ ServerEntry \/ ClientEntry
    /\ ordered \in BOOLEAN
    /\ local_cseq = C0 /\ skipped = {}
    /\ arriving = <<>>
    /\ backlog = {} /\ listed = TRUE /\ usage = TRUE
    /\ tasks = {} /\ handled = <<>> /\ refused = {}

-----------------------------------------------------------------------------
(* Dialog::create_request numbers every request it constructs.             *)
CreateRequest(method) ==
    /\ local_cseq < MaxCSeq
    /\ arriving' = Append(arriving, [method |-> method, cseq |-> local_cseq])
    /\ local_cseq' = local_cseq + 1
    /\ UNCHANGED <<ordered, skipped, unacked, entryVars, tasks, handled, refused>>

(* Sent once the INVITEs before it are acknowledged.                       *)
SendRequest(method) ==
    /\ unacked = {}
    /\ CreateRequest(method)

(* invite::create_ack takes a number from the counter as any request does  *)
(* and then replaces it by the INVITE's.                                   *)
SendAck(cseq) ==
    /\ cseq \in unacked
    /\ local_cseq < MaxCSeq
    /\ arriving' = Append(arriving, [method |-> "ACK", cseq |-> cseq])
    /\ local_cseq' = local_cseq + 1
    /\ skipped' = skipped \cup {local_cseq}
    /\ unacked' = unacked \ {cseq}
    /\ UNCHANGED <<ordered, entryVars, tasks, handled, refused>>

-----------------------------------------------------------------------------
Arrives(i) == i \in 1 .. Len(arriving) /\ (i = 1 \/ ~ordered)

(* A task with the requests it distributes to the usages it has cloned.    *)
Task(requests) == [requests |-> requests, usage |-> usage]

(* The expected number, which get_or_insert takes from the first request   *)
(* when there is none.                                                     *)
Expected(r) == IF next_peer_cseq = None THEN r.cseq ELSE next_peer_cseq

(* DialogLayer::receive under the lock, by the comparison of the CSeq with *)
(* the expected one.                                                       *)
ReceiveLess(i) ==
    /\ Arrives(i) /\ listed
    /\ arriving[i].cseq < Expected(arriving[i])
    /\ tasks' = tasks \cup {Task(<<arriving[i]>>)}
    /\ arriving' = RemoveAt(arriving, i)
    /\ UNCHANGED <<peerVars, entryVars, handled, refused>>

(* The numbers of the backlog that follow n without a gap, n included.     *)
Run(n) == {c \in n .. MaxCSeq : \A d \in n .. c : \E r \in backlog : r.cseq = d}

(* The requests drained from the backlog behind the one received: the loop *)
(* looks for its own number first and stops at the first number not found. *)
Drained(r) ==
    [i \in 1 .. Cardinality(Run(r.cseq)) |-> CHOOSE b \in backlog : b.cseq = r.cseq + i - 1]
(* Mutants: the expected number stays; a drained request stays.            *)
ReceiveEqualStays(i) ==
    /\ Arrives(i) /\ listed
    /\ arriving[i].cseq = Expected(arriving[i])
    /\ tasks' = tasks \cup {Task(<<arriving[i]>>)}
    /\ next_peer_cseq' = arriving[i].cseq
    /\ base' = IF base = None THEN arriving[i].cseq ELSE base
    /\ arriving' = RemoveAt(arriving, i)
    /\ UNCHANGED <<peerVars, backlog, listed, usage, handled, refused>>
ReceiveEqualKeeps(i) ==
    /\ Arrives(i) /\ listed
    /\ arriving[i].cseq = Expected(arriving[i])
    /\ LET kept == {b \in backlog : b.cseq = arriving[i].cseq + 1}
       IN tasks' = tasks \cup {Task(<<arriving[i]>>)} \cup {Task(<<b>>) : b \in kept}
    /\ next_peer_cseq' = arriving[i].cseq + 1
    /\ base' = IF base = None THEN arriving[i].cseq ELSE base
    /\ arriving' = RemoveAt(arriving, i)
    /\ UNCHANGED <<peerVars, backlog, listed, usage, handled, refused>>

ReceiveEqual(i) ==
    /\ Arrives(i) /\ listed
    /\ arriving[i].cseq = Expected(arriving[i])
    /\ LET requests == <<arriving[i]>> \o Drained(arriving[i]) IN
       /\ tasks' = tasks \cup {Task(requests)}
       /\ backlog' = backlog \ ToSet(Drained(arriving[i]))
       /\ next_peer_cseq' = Last(requests).cseq + 1
       /\ base' = IF base = None THEN arriving[i].cseq ELSE base
    /\ arriving' = RemoveAt(arriving, i)
    /\ UNCHANGED <<peerVars, listed, usage, handled, refused>>

(* BTreeMap::insert: a request kept under the same number is dropped.      *)
ReceiveGreater(i) ==
    /\ Arrives(i) /\ listed
    /\ arriving[i].cseq > Expected(arriving[i])
    /\ backlog' = {b \in backlog : b.cseq # arriving[i].cseq} \cup {arriving[i]}
    /\ arriving' = RemoveAt(arriving, i)
    /\ UNCHANGED <<peerVars, next_peer_cseq, base, listed, usage, tasks, handled, refused>>

(* No entry: the layer passes, and the endpoint answers 481.               *)
ReceiveUnlisted(i) ==
    /\ Arrives(i) /\ ~listed
    /\ refused' = refused \cup {arriving[i]}
    /\ arriving' = RemoveAt(arriving, i)
    /\ UNCHANGED <<peerVars, entryVars, tasks, handled>>

(* A task offers its next request to the usages; what none takes, and what *)
(* comes when there is none, is answered by handle_unwanted_request.  An   *)
(* INVITE is answered with 2xx by the session.                             *)
Distribute(t) ==
    LET r == Head(t.requests)
        rest == [t EXCEPT !.requests = Tail(@)] IN
    /\ t \in tasks
    /\ tasks' = (tasks \ {t}) \cup (IF rest.requests = <<>> THEN {} ELSE {rest})
    /\ IF t.usage
       THEN /\ handled' = Append(handled, r)
            /\ unacked' = IF r.method = "INVITE" THEN unacked \cup {r.cseq} ELSE unacked
            /\ UNCHANGED refused
       ELSE refused' = refused \cup {r} /\ UNCHANGED <<handled, unacked>>
    /\ UNCHANGED <<ordered, local_cseq, skipped, arriving, entryVars>>

(* UsageGuard::drop and Dialog::drop, in the order of InviteSession's      *)
(* fields: the usage goes, then the entry with its backlog.                *)
DropUsage ==
    /\ usage
    /\ usage' = FALSE
    /\ UNCHANGED <<peerVars, arriving, next_peer_cseq, base, backlog, listed, tasks, handled, refused>>

DropDialog ==
    /\ listed /\ ~usage
    /\ listed' = FALSE /\ backlog' = {}
    /\ UNCHANGED <<peerVars, arriving, next_peer_cseq, base, usage, tasks, handled, refused>>

Peer == (\E m \in {"INVITE", "OTHER"} : SendRequest(m)) \/ (\E c \in unacked : SendAck(c))

Layer ==
    \/ \E i \in 1 .. Len(arriving) :
          ReceiveLess(i) \/ ReceiveEqual(i) \/ ReceiveGreater(i) \/ ReceiveUnlisted(i)
    \/ \E t \in tasks : Distribute(t)

Next == Peer \/ Layer \/ DropUsage \/ DropDialog

(* Every spawned receive task runs to its end; the session may end at any  *)
(* time.                                                                   *)
Spec == Init /\ [][Next]_vars /\ WF_vars(Layer)

-----------------------------------------------------------------------------
Underway == UNION {ToSet(t.requests) : t \in tasks}
Accepted == Underway \cup ToSet(handled) \cup refused

(* Types; and the layer never expects a number the peer has not reached.   *)
TypeOK ==
    /\ ordered \in BOOLEAN /\ local_cseq \in C0 .. MaxCSeq /\ skipped \subseteq C0 .. MaxCSeq
    /\ unacked \subseteq C0 .. MaxCSeq
    /\ arriving \in Seq(Request) /\ handled \in Seq(Request)
    /\ next_peer_cseq \in {None, C0 + 1} \cup (C0 .. local_cseq)
    /\ base \in {None} \cup (C0 .. MaxCSeq)
    /\ backlog \subseteq Request /\ refused \subseteq Request
    /\ listed \in BOOLEAN /\ usage \in BOOLEAN
    /\ \A t \in tasks : t.requests \in Seq(Request) /\ t.usage \in BOOLEAN

(* Nothing is skipped: every request numbered below the expected CSeq has  *)
(* been accepted, so a request is only ever let through when all that came *)
(* before it in the dialog were, however they overtook each other.         *)
NoGap ==
    \A n \in base .. next_peer_cseq - 1 :
        \E r \in Accepted : r.cseq = n /\ r.method # "ACK"

(* A request is given to the usages once: nothing is both kept for later   *)
(* and accepted, or accepted by two tasks.                                 *)
AcceptedOnce ==
    /\ backlog \cap Accepted = {}
    /\ IsInjective(handled)
    /\ ToSet(handled) \cap Underway = {}

(* However requests overtake each other, none is skipped and none let      *)
(* through twice.                                                          *)
InSequence == NoGap /\ AcceptedOnce

(* Over a transport that keeps the order every request is answered: a      *)
(* usage takes it or it is refused, also when the session ends under it.   *)
(* It holds for a request all of whose predecessors in the dialog carry    *)
(* consecutive numbers.                                                    *)
OrderedRequestsAnswered ==
    \A r \in Request :
        ordered /\ r \in ToSet(arriving) /\ skipped \cap (C0 + 1 .. r.cseq) = {}
            ~> \/ r \in ToSet(handled) \cup refused
               \/ ~listed

=============================================================================
