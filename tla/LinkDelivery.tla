---------------------------- MODULE LinkDelivery ----------------------------
(***************************************************************************)
(* LinkDeliveryManager (crates/lxmf-core/src/link_delivery.rs): messages   *)
(* sent over Links that this node opens.  A Direct Link is kept, one for   *)
(* each destination, and carries the messages queued on it one after the   *)
(* other; a propagation deposit has a Link of its own.                     *)
(*                                                                         *)
(* The embedder calls start, drain_events, tick, cancel and fail.  What    *)
(* drain_events reads (acknowledgements of the transport, packets of the   *)
(* peer, ends of endpoints) comes in any order, late or never, so each     *)
(* kind is one action: a call that finds just that.  Time is abstracted:   *)
(* each tick chooses, for each Link, which of its clocks has run out.      *)
(*                                                                         *)
(* A copy is one message handed to a start function: a retry of the same   *)
(* message is another copy, and so is its packet.  Link IDs are random and *)
(* every event of a removed Link is ignored, so an ID is used again here.  *)
(***************************************************************************)
EXTENDS Naturals, Sequences, FiniteSets

CONSTANTS
    Links, Dests, Messages, None,
    N,              \* copies started, at most
    MessageOf,      \* the message each copy is a copy of
    DestOf,         \* ... and where it goes
    OneShot,        \* copies started by start_packed_delivery
    Size            \* Resource segments of a copy; 0 fits one Link packet

Copies == 1..N

ASSUME InstanceAssumption ==
    /\ N \in Nat /\ MessageOf \in [Copies -> Messages] /\ DestOf \in [Copies -> Dests]
    /\ OneShot \subseteq Copies /\ Size \in [Copies -> Nat]
    /\ None \notin Links /\ None \notin Copies

VARIABLES
    exact,          \* endpoint_dispatch is set: exact admission receipts
    pending,        \* LinkDeliveryManager::pending
    directLinks,    \* direct_links
    panicked,       \* take() met a settled payload
    outcome,        \* what the embedder knows of each copy
    sent,           \* <<copy, segment>> handed to the transport
    got,            \* ... of which the peer's proof exists
    refused         \* Resources the peer refused

manager == <<pending, directLinks, panicked>>
peer == <<got, refused>>
vars == <<exact, manager, outcome, sent, peer>>

DeliveryState == {"Idle", "Establishing", "Identifying", "Transferring",
                  "AwaitingProof", "Complete", "Rejected", "Failed"}

Segments(c) == IF Size[c] = 0 THEN {0} ELSE 1..Size[c]
Parts == UNION {{c} \X Segments(c) : c \in Copies}

(* PendingDelivery.  link is the state of its Link, and "active" is what    *)
(* is_active() tests; proof is packet_proof_hash; transfer is the segment   *)
(* under way, 0 when none can be proved.  The rest are answers still owed:  *)
(* request by the transport to the Link request, bind to the endpoint, and  *)
(* handshake, plain and dispatch to packets sent (of one kind, one answer   *)
(* stands for all).                                                         *)
Session ==
    [dest: Dests, reusable: BOOLEAN, copy: Copies, image: BOOLEAN,
     state: DeliveryState, queued: Seq(Copies),
     link: {"pending", "active", "stale", "closed"}, attached: BOOLEAN,
     identified: BOOLEAN, transfer: Nat, proof: Copies \cup {None},
     request: BOOLEAN, bind: BOOLEAN, handshake: BOOLEAN, plain: BOOLEAN,
     dispatch: BOOLEAN]

(* A Link without a session.                                                *)
ASSUME NoSessionAssumption == None \notin Session

NewSession(c) ==
    [dest |-> DestOf[c], reusable |-> c \notin OneShot, copy |-> c, image |-> TRUE,
     state |-> "Establishing", queued |-> <<>>, link |-> "pending", attached |-> FALSE,
     identified |-> FALSE, transfer |-> 0, proof |-> None, request |-> TRUE,
     bind |-> FALSE, handshake |-> FALSE, plain |-> FALSE, dispatch |-> FALSE]

Init ==
    /\ exact \in BOOLEAN
    /\ pending = [l \in Links |-> None]
    /\ directLinks = [d \in Dests |-> None]
    /\ panicked = FALSE
    /\ outcome = [c \in Copies |-> "new"]
    /\ sent = {} /\ got = {} /\ refused = {}

Open(l) == pending[l] # None

-----------------------------------------------------------------------------
(* Settling the current copy and starting the next.                         *)

Failing(s) == [s EXCEPT !.state = "Failed"]

(* Packets staged for the transport, whose answer matters: LinkIdentify     *)
(* (and LRRRTT), which the payload waits for, and every other.              *)
Identifies(s) == [s EXCEPT !.identified = TRUE, !.handshake = TRUE]
SendsPlain(s) == [s EXCEPT !.plain = TRUE]

Revived(s) == IF s.link = "stale" THEN [s EXCEPT !.link = "active"] ELSE s

StartQueued(s) ==
    [s EXCEPT !.copy = Head(s.queued), !.image = TRUE, !.queued = Tail(s.queued),
              !.state = "Identifying", !.transfer = 0, !.proof = None, !.dispatch = FALSE]

(* finish_unsuccessful_reusable_delivery                                    *)
NextOrIdle(s) ==
    IF s.link = "active" /\ s.queued # <<>>
    THEN StartQueued(s)
    ELSE [s EXCEPT !.image = FALSE, !.state = "Idle",
                   !.transfer = 0, !.proof = None, !.dispatch = FALSE]

(* finish_reusable_delivery identifies this node to the peer once.          *)
Finish(s, staged) ==
    NextOrIdle(IF staged /\ ~s.identified THEN Identifies(s) ELSE s)

(* The result of ticking a session: what is left of it, the reports, and    *)
(* what was sent.                                                           *)
Result(s, reports) == [session |-> s, reports |-> reports, sent |-> {}, panic |-> FALSE]
Keep(s) == Result(s, {})

QueueFailed(s) == {<<s.queued[i], "failed">> : i \in DOMAIN s.queued}

(* Mutant: only the current copy is reported.                               *)
Mut_FailAll(s) ==
    IF s.image THEN Result(None, {<<s.copy, "failed">>}) ELSE [Keep(s) EXCEPT !.panic = TRUE]

(* take_current_delivery_message expects the payload to be there.           *)
FailAll(s) ==
    IF s.image THEN Result(None, {<<s.copy, "failed">>} \cup QueueFailed(s))
    ELSE [Keep(s) EXCEPT !.panic = TRUE]

SettleAs(s, kind, next) ==
    IF s.reusable /\ s.link # "closed"
    THEN Result(next, {<<s.copy, kind>>})
    ELSE Result(None, {<<s.copy, kind>>} \cup QueueFailed(s))

-----------------------------------------------------------------------------
(* tick(), for one session; ch is what its clocks and the transport do:     *)
(* "timeout", its deadline has passed; "fault", a packet cannot be staged;  *)
(* "keepalive", "stale" and "close", what Link::tick asks for.              *)
Choice == {"none", "timeout", "fault", "keepalive", "stale", "close"}

(* Mutant: a proof is awaited for ever.                                     *)
Mut_Waiting(s) == s.state \in {"Establishing", "Identifying"}

Waiting(s) == s.state \in {"Establishing", "Identifying", "AwaitingProof"}

(* LRRRTT and LinkIdentify must reach the transport before the payload.     *)
Gated(s) == exact /\ s.state = "Identifying" /\ s.link = "active" /\ s.handshake

Transmit(s, ch) ==
    IF ch = "fault" THEN Keep(Failing(s))
    ELSE IF Size[s.copy] > 0
    THEN Keep([s EXCEPT !.state = "Transferring", !.transfer = 1])
    ELSE [Keep([s EXCEPT !.state = "AwaitingProof", !.proof = s.copy,
                         !.dispatch = exact, !.plain = @ \/ ~exact])
            EXCEPT !.sent = {<<s.copy, 0>>}]

(* A deposit identifies before its payload, a Direct Link after a delivery. *)
SendIdentified(s, ch) ==
    IF s.reusable \/ s.identified THEN Transmit(s, ch)
    ELSE IF ch = "fault" THEN Keep(Failing(s))
    ELSE IF exact THEN Keep(Identifies(s))
    ELSE Transmit(Identifies(s), ch)

(* dispatch_action: the packets of the segment under way, in one step.      *)
SendSegment(s, ch) ==
    IF ch \in {"timeout", "fault"} THEN FailAll(s)
    ELSE [Keep(SendsPlain(s)) EXCEPT !.sent = {<<s.copy, s.transfer>>}]

StateStep(s, ch) ==
    CASE s.state = "Identifying" /\ s.link = "active" -> SendIdentified(s, ch)
      [] s.state = "Transferring" /\ s.transfer > 0 -> SendSegment(s, ch)
      [] s.state = "Complete" -> SettleAs(s, "complete", Finish(s, ch # "fault"))
      [] s.state = "Rejected" -> SettleAs(s, "rejected", NextOrIdle(s))
      [] s.state = "Failed" -> FailAll(s)
      [] OTHER -> Keep(s)

Expired(s, ch) == s.state = "Idle" /\ s.queued = <<>> /\ s.link = "active" /\ ch = "timeout"
Closes(s, ch) == ch = "close" /\ s.link \in {"pending", "stale"}

(* The end of the loop, for a Direct Link that is still there.              *)
LinkStep(r, ch) ==
    LET s == r.session
        Ended(reports) == [r EXCEPT !.session = None, !.reports = r.reports \cup reports]
    IN  CASE s.link = "closed" -> Ended(QueueFailed(s))
          [] Expired(s, ch) -> Ended({})
          [] Closes(s, ch) /\ s.state \in {"Idle", "Complete"} -> Ended(QueueFailed(s))
          [] Closes(s, ch) /\ s.state \notin {"Idle", "Complete"} ->
               Ended({<<s.copy, "failed">>} \cup QueueFailed(s))
          [] ch = "stale" /\ s.link = "active" ->
               [r EXCEPT !.session = [SendsPlain(s) EXCEPT !.link = "stale"]]
          [] ch = "keepalive" /\ s.link \in {"active", "stale"} ->
               [r EXCEPT !.session = SendsPlain(s)]
          [] OTHER -> r

TickSession(idle, ch) ==
    LET s == IF idle.state = "Idle" /\ idle.queued # <<>> /\ idle.link = "active"
             THEN StartQueued(idle) ELSE idle
        r == IF Gated(s) THEN Keep(s) ELSE StateStep(s, ch)
    IN  IF ch = "timeout" /\ Waiting(idle) THEN FailAll(s)
        ELSE IF s.reusable /\ ~Gated(s) /\ r.session # None /\ ~r.panic
        THEN LinkStep(r, ch) ELSE r

Report(reports) ==
    outcome' = [c \in Copies |->
        IF \E kind \in {"complete", "rejected", "failed"} : <<c, kind>> \in reports
        THEN CHOOSE kind \in {"complete", "rejected", "failed"} : <<c, kind>> \in reports
        ELSE outcome[c]]

(* Mutant: the entry of a removed session stays.                            *)
Mut_Forget(gone) == directLinks

(* Removing a Direct session removes its destination from direct_links.     *)
Forget(gone) ==
    [d \in Dests |-> IF \E l \in gone : pending[l].reusable /\ pending[l].dest = d
                     THEN None ELSE directLinks[d]]

TickEach(r) ==
    /\ pending' = [l \in Links |-> r[l].session]
    /\ directLinks' = Forget({l \in Links : Open(l) /\ r[l].session = None})
    /\ panicked' = \E l \in Links : r[l].panic
    /\ sent' = sent \cup UNION {r[l].sent : l \in Links}
    /\ Report(UNION {r[l].reports : l \in Links})
    /\ UNCHANGED <<exact, peer>>

TickWith(ch) ==
    TickEach([l \in Links |-> IF Open(l) THEN TickSession(pending[l], ch[l]) ELSE Keep(None)])

(* A tick that finds the transport's channel closed fails every session.    *)
TransportClosed ==
    TickEach([l \in Links |-> IF Open(l) THEN FailAll(pending[l]) ELSE Keep(None)])

(* A Link without a session has no clock.                                   *)
Choices == {ch \in [Links -> Choice] : \A l \in Links : Open(l) \/ ch[l] = "none"}
Tick == \E ch \in Choices : TickWith(ch)

-----------------------------------------------------------------------------
(* Starting a delivery.                                                     *)

Unstarted(c) == outcome[c] = "new" /\ \A b \in Copies : b < c => outcome[b] # "new"
Accepted(c) == outcome' = [outcome EXCEPT ![c] = "open"]

(* start_delivery_inner: a new Link for c on a free ID; others lists the    *)
(* sessions it leaves.                                                      *)
OpenLink(c, others) ==
    /\ \E l \in Links :
         /\ others[l] = None
         /\ pending' = [others EXCEPT ![l] = NewSession(c)]
         /\ directLinks' = IF c \in OneShot THEN directLinks
                           ELSE [directLinks EXCEPT ![DestOf[c]] = l]
    /\ Accepted(c)

StartPacked(c) ==
    /\ c \in OneShot /\ Unstarted(c)
    /\ OpenLink(c, pending)
    /\ UNCHANGED <<exact, panicked, sent, peer>>

(* start_direct_delivery on the Link that is there.                         *)
UseLink(c, l) ==
    LET s == [pending[l] EXCEPT !.queued = Append(@, c)]
    IN  /\ pending' = [pending EXCEPT ![l] =
             IF s.state = "Idle" /\ s.link = "active" THEN StartQueued(s) ELSE s]
        /\ Accepted(c) /\ UNCHANGED directLinks

(* ... or on a new one, when there is none or it has been idle for too long *)
(* (the old one is closed even when the new one is refused).                *)
ReplaceLink(c, l) ==
    LET others == [pending EXCEPT ![l] = None]
    IN  /\ Expired(pending[l], "timeout")
        /\ \/ OpenLink(c, others)
           \/ pending' = others /\ directLinks' = Forget({l}) /\ outcome' = outcome

StartDirect(c) ==
    /\ c \notin OneShot /\ Unstarted(c)
    /\ LET l == directLinks[DestOf[c]]
       IN  IF l # None THEN UseLink(c, l) \/ ReplaceLink(c, l) ELSE OpenLink(c, pending)
    /\ UNCHANGED <<exact, panicked, sent, peer>>

-----------------------------------------------------------------------------
(* cancel_delivery_by_message_hash and fail_delivery_by_message_hash: the   *)
(* map of sessions has no order, and the first match counts.                *)

QueuePosition(s, m) ==
    {i \in DOMAIN s.queued :
        MessageOf[s.queued[i]] = m /\ \A j \in 1..(i-1) : MessageOf[s.queued[j]] # m}
Unqueue(s, i) ==
    [s EXCEPT !.queued = SubSeq(@, 1, i-1) \o SubSeq(@, i+1, Len(@))]

Mark(copies, kind) == outcome' = [c \in Copies |-> IF c \in copies THEN kind ELSE outcome[c]]

(* Removing a session drops what is queued on it without a report.  Where   *)
(* the payload was settled before, cancelling settles nothing (though the   *)
(* call returns true).                                                      *)
Current(s) == IF s.image THEN {s.copy} ELSE {}

Remove(l) ==
    /\ pending' = [pending EXCEPT ![l] = None]
    /\ directLinks' = Forget({l})
    /\ outcome' = [c \in Copies |->
         IF c \in Current(pending[l]) THEN "cancelled"
         ELSE IF \E i \in DOMAIN pending[l].queued : pending[l].queued[i] = c
         THEN "discarded" ELSE outcome[c]]

Replace(l, s, copies, kind) ==
    /\ pending' = [pending EXCEPT ![l] = s]
    /\ UNCHANGED directLinks
    /\ Mark(copies, kind)

(* Mutant: cancelling before the Link is up always removes the session.     *)
Mut_CancelCurrent(l, m) ==
    LET s == pending[l]
    IN  /\ s.state # "Idle" /\ MessageOf[s.copy] = m
        /\ IF s.reusable /\ s.link = "active" /\ s.attached
           THEN Replace(l, NextOrIdle(s), Current(s), "cancelled")
           ELSE Remove(l)

CancelCurrent(l, m) ==
    LET s == pending[l]
    IN  /\ s.state # "Idle" /\ MessageOf[s.copy] = m
        /\ IF s.state = "Establishing" /\ s.reusable /\ s.queued # <<>>
           THEN Replace(l, [StartQueued(s) EXCEPT !.state = "Establishing"], Current(s), "cancelled")
           ELSE IF s.reusable /\ s.link = "active" /\ s.attached
           THEN Replace(l, NextOrIdle(s), Current(s), "cancelled")
           ELSE Remove(l)

CancelQueued(l, m) ==
    LET s == pending[l]
    IN  /\ s.state = "Idle" \/ MessageOf[s.copy] # m
        /\ \E i \in QueuePosition(s, m) : Replace(l, Unqueue(s, i), {s.queued[i]}, "cancelled")

Cancel(m) ==
    /\ \E l \in Links : Open(l) /\ (CancelCurrent(l, m) \/ CancelQueued(l, m))
    /\ UNCHANGED <<exact, panicked, sent, peer>>

(* The copy settled last keeps its message hash in an idle session.         *)
FailCurrent(l, m) ==
    LET s == pending[l]
    IN  /\ MessageOf[s.copy] = m
        /\ IF s.image
           THEN /\ pending' = [pending EXCEPT ![l] = None]
                /\ directLinks' = Forget({l})
                /\ Report(FailAll(s).reports)
                /\ UNCHANGED panicked
           ELSE panicked' = TRUE /\ UNCHANGED <<pending, directLinks, outcome>>

FailQueued(l, m) ==
    LET s == pending[l]
    IN  /\ MessageOf[s.copy] # m
        /\ \E i \in QueuePosition(s, m) : Replace(l, Unqueue(s, i), {s.queued[i]}, "failed")
        /\ UNCHANGED panicked

FailDelivery(m) ==
    /\ \E l \in Links : Open(l) /\ (FailCurrent(l, m) \/ FailQueued(l, m))
    /\ UNCHANGED <<exact, sent, peer>>

-----------------------------------------------------------------------------
(* drain_events: one answer or packet found.                                *)

Becomes(l, s) ==
    /\ pending' = [pending EXCEPT ![l] = s]
    /\ UNCHANGED <<exact, directLinks, panicked, outcome, sent, peer>>

(* poll_link_requests                                                       *)
LinkRequestAnswered(l) ==
    LET s == [pending[l] EXCEPT !.request = FALSE]
    IN  /\ Open(l) /\ pending[l].request
        /\ (Becomes(l, s) \/ Becomes(l, Failing(s)))

(* handle_link_proof_with_owner: the proof opens the Link and the binding   *)
(* of its endpoint is asked for, or refused at once.  A request that was    *)
(* proved did not fail.                                                     *)
LinkProof(l) ==
    LET s == [pending[l] EXCEPT !.link = "active", !.request = FALSE]
    IN  /\ Open(l) /\ pending[l].state = "Establishing"
        /\ ~pending[l].bind /\ pending[l].link = "pending"
        /\ (Becomes(l, [s EXCEPT !.bind = TRUE]) \/ Becomes(l, Failing(s)))

(* poll_endpoint_control, the binding's answer: LRRRTT is sent.             *)
EndpointBound(l) ==
    LET s == [pending[l] EXCEPT !.bind = FALSE]
        bound == [s EXCEPT !.attached = TRUE]
    IN  /\ Open(l) /\ pending[l].bind /\ pending[l].state = "Establishing"
        /\ \/ Becomes(l, [bound EXCEPT !.state = "Identifying",
                                       !.handshake = @ \/ exact, !.plain = @ \/ ~exact])
           \/ Becomes(l, Failing(bound))
           \/ Becomes(l, Failing(s))

(* poll_endpoint_send_results and poll_packet_dispatches.                   *)
SendAnswered(l) ==
    /\ Open(l)
    /\ \/ /\ pending[l].handshake
          /\ LET s == [pending[l] EXCEPT !.handshake = FALSE]
             IN  Becomes(l, s) \/ Becomes(l, Failing(s))
       \/ /\ pending[l].plain
          /\ LET s == [pending[l] EXCEPT !.plain = FALSE]
             IN  Becomes(l, s) \/ Becomes(l, Failing(s))

PacketDispatched(l) ==
    LET s == [pending[l] EXCEPT !.dispatch = FALSE]
    IN  /\ Open(l) /\ pending[l].dispatch /\ pending[l].state = "AwaitingProof"
        /\ (Becomes(l, s) \/ Becomes(l, Failing(s)))

(* ... and the end of the endpoint the Link was bound to.                   *)
EndpointTerminated(l) ==
    /\ Open(l) /\ (pending[l].attached \/ pending[l].bind)
    /\ Becomes(l, Failing([pending[l] EXCEPT !.attached = FALSE, !.bind = FALSE]))

(* A packet counts only from the interface the Link is attached to.         *)
Hears(l) == Open(l) /\ pending[l].attached

(* Mutant: any proof heard settles the packet that is waiting.              *)
Mut_PacketProof(l, c) ==
    /\ Hears(l) /\ <<c, 0>> \in got /\ pending[l].state = "AwaitingProof"
    /\ Becomes(l, [Revived(pending[l]) EXCEPT !.state = "Complete"])

(* handle_link_packet_proof: the signature covers the packet's hash.        *)
PacketProof(l, c) ==
    /\ Hears(l) /\ <<c, 0>> \in got
    /\ pending[l].state = "AwaitingProof" /\ pending[l].proof = c
    /\ Becomes(l, [Revived(pending[l]) EXCEPT !.state = "Complete"])

(* handle_resource_proof, for the segment under way, whatever the state;    *)
(* the next segment may fail to build.                                      *)
ResourceProof(l, c, k) ==
    LET s == Revived(pending[l])
    IN  /\ Hears(l) /\ <<c, k>> \in got
        /\ s.copy = c /\ s.transfer = k /\ k > 0
        /\ IF k < Size[c]
           THEN \/ Becomes(l, [s EXCEPT !.transfer = k + 1, !.state = "Transferring"])
                \/ Becomes(l, [Failing(s) EXCEPT !.transfer = 0])
           ELSE Becomes(l, [s EXCEPT !.transfer = 0, !.state = "Complete"])

(* handle_resource_reject                                                   *)
ResourceReject(l, c) ==
    LET s == Revived(pending[l])
    IN  /\ Hears(l) /\ c \in refused /\ s.copy = c /\ s.transfer > 0
        /\ Becomes(l, [s EXCEPT !.transfer = 0, !.state = "Rejected"])

(* handle_request: parts asked for again, which may not be sent.            *)
ResourceRequest(l) ==
    LET s == Revived(pending[l])
    IN  /\ Hears(l) /\ s.transfer > 0
        /\ (Becomes(l, SendsPlain(s)) \/ Becomes(l, Failing(s)))

(* handle_inbound_link_packet: a Direct Link proves it (which may fail to   *)
(* be sent); to a deposit it can only be the node's refusal of the stamp.   *)
InboundPacket(l) ==
    LET s == pending[l]
    IN  /\ Hears(l) /\ s.link = "active"
        /\ IF s.reusable THEN Becomes(l, SendsPlain(s)) \/ Becomes(l, Failing(s))
           ELSE Becomes(l, [s EXCEPT !.state = "Rejected"])

Keepalive(l) == Hears(l) /\ pending[l].link = "stale" /\ Becomes(l, Revived(pending[l]))

(* handle_link_closed                                                       *)
LinkClosed(l) ==
    LET s == [pending[l] EXCEPT !.link = "closed"]
    IN  /\ Open(l) /\ pending[l].link # "closed"
        /\ Becomes(l, IF s.state \in {"Idle", "Complete"} THEN s
                      ELSE [Failing(s) EXCEPT !.transfer = 0, !.proof = None])

(* The peer: it proves what it has, in order, or refuses a Resource.        *)
PeerProves(c, k) ==
    /\ <<c, k>> \in sent \ got /\ c \notin refused
    /\ k > 1 => <<c, k-1>> \in got
    /\ got' = got \cup {<<c, k>>}
    /\ UNCHANGED <<exact, manager, outcome, sent, refused>>

PeerRefuses(c) ==
    /\ <<c, 1>> \in sent \ got /\ c \notin refused
    /\ refused' = refused \cup {c}
    /\ UNCHANGED <<exact, manager, outcome, sent, got>>

-----------------------------------------------------------------------------
Answers(l) ==
    \/ LinkRequestAnswered(l) \/ LinkProof(l) \/ EndpointBound(l)
    \/ SendAnswered(l) \/ PacketDispatched(l) \/ EndpointTerminated(l)

Hearing(l) ==
    \/ \E c \in Copies : PacketProof(l, c) \/ ResourceReject(l, c)
    \/ \E part \in Parts : ResourceProof(l, part[1], part[2])
    \/ ResourceRequest(l) \/ InboundPacket(l) \/ Keepalive(l) \/ LinkClosed(l)

Embedder ==
    \/ Tick \/ TransportClosed
    \/ \E c \in Copies : StartDirect(c) \/ StartPacked(c)
    \/ \E m \in Messages : Cancel(m) \/ FailDelivery(m)

Peer == \/ \E part \in Parts : PeerProves(part[1], part[2])
        \/ \E c \in Copies : PeerRefuses(c)

Next == ~panicked /\ (Embedder \/ Peer \/ \E l \in Links : (Answers(l) \/ Hearing(l)))

(* The embedder ticks; every clock that matters runs out in the end.        *)
Runs(l, choice) ==
    ~panicked /\ Open(l) /\ \E ch \in Choices : ch[l] = choice /\ TickWith(ch)

Fairness == \A l \in Links : SF_vars(Runs(l, "timeout")) /\ SF_vars(Runs(l, "close"))

Spec == Init /\ [][Next]_vars /\ Fairness

-----------------------------------------------------------------------------
(* Properties.                                                              *)

(* Every variable has its type.                                             *)
TypeOK ==
    /\ exact \in BOOLEAN /\ panicked \in BOOLEAN
    /\ pending \in [Links -> Session \cup {None}]
    /\ directLinks \in [Dests -> Links \cup {None}]
    /\ outcome \in [Copies -> {"new", "open", "complete", "rejected", "failed",
                               "cancelled", "discarded"}]
    /\ sent \subseteq Parts /\ got \subseteq sent /\ refused \subseteq Copies

(* The places that hold copy c: 0 for the current one of a session, or the  *)
(* positions of its queue.                                                  *)
Places(c) ==
    {place \in Links \X (0..N) :
        LET s == pending[place[1]]
            i == place[2]
        IN  /\ Open(place[1])
            /\ IF i = 0 THEN s.copy = c /\ s.image
               ELSE i \in DOMAIN s.queued /\ s.queued[i] = c}

(* No copy is lost, doubled or overtaken: while its settlement is awaited   *)
(* it is held in exactly one place of one session, and once settled nowhere,*)
(* whichever of timeout, closed Link, rejected send, cancel and fail ended  *)
(* it, or the one before it in the queue; and a queue is in the order of    *)
(* the starts, behind the current copy, with nothing of it sent.            *)
CopiesInOrder ==
    /\ \A c \in Copies : Cardinality(Places(c)) = IF outcome[c] = "open" THEN 1 ELSE 0
    /\ \A l \in Links : Open(l) =>
         LET q == pending[l].queued
         IN  \A i \in DOMAIN q :
               /\ pending[l].copy < q[i]
               /\ \A j \in DOMAIN q : i < j => q[i] < q[j]
               /\ \A k \in Segments(q[i]) : <<q[i], k>> \notin sent

(* direct_links and the sessions agree: it names the one session that is    *)
(* kept for the destination, whatever removed the last one.                 *)
DirectLinksOwned ==
    \A d \in Dests, l \in Links :
      directLinks[d] = l <=> Open(l) /\ pending[l].reusable /\ pending[l].dest = d

(* Cancelling a message that is waiting for its Link, or on a Link in use,  *)
(* leaves those queued behind it: only a Link that could carry nothing      *)
(* takes its queue along, without reports.                                  *)
FollowersKept ==
    [][\A l \in Links : Open(l) =>
         LET s == pending[l]
         IN  (\E i \in DOMAIN s.queued : outcome'[s.queued[i]] = "discarded")
             => s.state # "Establishing" /\ ~(s.link = "active" /\ s.attached)]_vars

(* The manager keeps the promise of Settlement: no copy is settled twice,   *)
(* and none is complete before the recipient proved all of it, so no late   *)
(* or repeated proof settles another message.                               *)
Received == {c \in Copies : \A k \in Segments(c) : <<c, k>> \in got}
Promise == INSTANCE Settlement WITH received <- Received
ImplementsSettlement == Promise!SettlementSpec

(* Every copy that was accepted is settled in the end, whatever answers and *)
(* proofs never come: with finitely many copies, that is a time at which    *)
(* none is open, again and again.                                           *)
EventuallySettled == []<>(panicked \/ \A c \in Copies : outcome[c] # "open")

(* A tick takes a payload only from a session that has one.                 *)
PayloadOwned == [][Tick => ~panicked']_vars
=============================================================================
