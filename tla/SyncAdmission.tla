---------------------------- MODULE SyncAdmission ----------------------------
(***************************************************************************)
(* Admission of inbound propagation syncs: PnInboundAdmission              *)
(* (crates/lxmf-core/src/propagation_admission.rs) inside lxmd's           *)
(* PnInboundRuntime (crates/lxmf-tools/src/commands/lxmd_pn.rs).           *)
(*                                                                         *)
(* Three threads share the runtime under one lock: the link manager, which *)
(* calls back for an offer and for each Resource advertised and posts      *)
(* accounting events; the daemon, which takes those events in order but    *)
(* late; and the workers that validate the stamps of a received batch.     *)
(*                                                                         *)
(* A Resource ID is used once, so it also names the validation token of    *)
(* its payload.  One offer is evaluated at a time, beside everything else.  *)
(***************************************************************************)
EXTENDS Naturals, Sequences, FiniteSets

CONSTANTS
    Links, Resources, Peers, Absent,
    LinkOf,             \* the Link each Resource is sent on
    PeerOf,             \* the peer at the other end of each Link
    Static,             \* static_peers
    MaxInbound,         \* max_inbound_syncs
    Sequential, StaticSequential, FromStaticOnly

ASSUME ConfigAssumption ==
    /\ LinkOf \in [Resources -> Links] /\ PeerOf \in [Links -> Peers]
    /\ Static \subseteq Peers
    /\ IsFiniteSet(Resources) /\ MaxInbound \in Nat \ {0}
    /\ Sequential \in BOOLEAN /\ StaticSequential \in BOOLEAN /\ FromStaticOnly \in BOOLEAN
    /\ Absent \notin Peers /\ Absent \notin Links

VARIABLES
    record,         \* PnInboundAdmission::records, the state of each
    throttled,      \* peers with a throttle deadline to come
    validated,      \* validated_links
    quarantined,    \* quarantined_links
    correlation,    \* correlations
    pending,        \* pending_validations
    offer,          \* the Link whose offer is being evaluated
    candidate,      \* its PnOfferCandidate is still in pending_candidates
    events,         \* posted accounting events
    jobs,           \* payloads with a validation worker
    link,           \* the link manager's view: "up", "identified", "down"
    transfer        \* ... and of each Resource

admission == <<record, throttled, offer, candidate>>
runtime == <<admission, validated, quarantined, correlation, pending>>
manager == <<link, transfer>>
onLink == <<candidate, validated, quarantined>>
syncVars == <<runtime, manager, events, jobs>>

Owner == {"Offered", "ValidatedPeer", "Client"}
Correlation == [owner: Owner, peer: Peers \cup {Absent}, started: BOOLEAN, dispatched: BOOLEAN]
Pending == [owner: Owner, peer: Peers \cup {Absent}, closed: BOOLEAN]
Event == [kind: {"Started", "Completion", "Complete", "Failed"}, resource: Resources]
         \cup [kind: {"LinkClosed"}, link: Links]

(* An absent entry is no entry.                                             *)
ASSUME AbsentAssumption ==
    Absent \notin Correlation \cup Pending \cup {"Accepted", "Transferring", "Validating"}

SyncInit ==
    /\ record = [l \in Links |-> Absent] /\ throttled = {}
    /\ validated = {} /\ quarantined = {}
    /\ correlation = [r \in Resources |-> Absent] /\ pending = [r \in Resources |-> Absent]
    /\ offer = Absent /\ candidate = FALSE
    /\ events = <<>> /\ jobs = {}
    /\ link = [l \in Links |-> "up"] /\ transfer = [r \in Resources |-> "new"]
-----------------------------------------------------------------------------
Bypasses(p) == p \in Static /\ ~StaticSequential

(* active_limited_resource_count() counts these.                            *)
Limited ==
    {r \in Resources : correlation[r] # Absent /\ ~Bypasses(correlation[r].peer)}
    \cup {r \in Resources : /\ correlation[r] = Absent /\ pending[r] # Absent
                            /\ ~Bypasses(pending[r].peer)}

Active == {l \in Links : record[l] \in {"Transferring", "Validating"}}

(* The gates of PnInboundRuntime, then those of PnInboundAdmission.         *)
Postponed(p) ==
    ~Bypasses(p) /\ \/ Sequential /\ \E r \in Resources : pending[r] # Absent
                    \/ Cardinality(Limited) >= MaxInbound

OfferGates(l) ==
    LET p == PeerOf[l] IN
    /\ Bypasses(p) \/ /\ ~(Sequential /\ \E k \in Links : record[k] = "Validating")
                      /\ Cardinality(Active) < MaxInbound
    /\ p \notin throttled
    /\ FromStaticOnly => p \in Static
    /\ record[l] = Absent

Admissible(l) == l \notin quarantined /\ ~Postponed(PeerOf[l]) /\ OfferGates(l)

ResourceAllowed(p, fits) == fits /\ (FromStaticOnly => p \in Static)
-----------------------------------------------------------------------------
(* The link manager.  The peer identifies itself on its Link.               *)
Identify(l) ==
    /\ link[l] = "up"
    /\ link' = [link EXCEPT ![l] = "identified"]
    /\ UNCHANGED <<runtime, transfer, events, jobs>>

(* handle_pn_offer_request(), first half: the candidate is taken, then the  *)
(* lock is released for the evaluation.  A refused preflight changes nothing.*)
Preflight(l) ==
    /\ offer = Absent /\ link[l] = "identified"
    /\ l \notin quarantined /\ ~Postponed(PeerOf[l]) /\ OfferGates(l)
    /\ offer' = l /\ candidate' = TRUE
    /\ UNCHANGED <<record, throttled, validated, quarantined, correlation, pending, manager,
                   events, jobs>>

(* ... second half: the peering key or the IDs were refused, ...            *)
Discard ==
    /\ offer # Absent
    /\ offer' = Absent /\ candidate' = FALSE
    /\ UNCHANGED <<record, throttled, validated, quarantined, correlation, pending, manager,
                   events, jobs>>

(* ... or commit_offer(), which looks at every gate again.                  *)
Commit(wanted) ==
    /\ offer # Absent
    /\ offer' = Absent /\ candidate' = FALSE
    /\ IF candidate /\ Admissible(offer)
       THEN /\ validated' = validated \cup {offer}
            /\ record' = IF wanted THEN [record EXCEPT ![offer] = "Accepted"] ELSE record
       ELSE UNCHANGED <<record, validated>>
    /\ UNCHANGED <<throttled, quarantined, correlation, pending, manager, events, jobs>>

OfferedOn(l) == \E r \in Resources : /\ LinkOf[r] = l /\ correlation[r] # Absent
                                     /\ correlation[r].owner = "Offered"

OwnerOn(l) ==
    IF record[l] = "Accepted" /\ ~OfferedOn(l) THEN "Offered"
    ELSE IF record[l] # Absent \/ l \in validated THEN "ValidatedPeer"
    ELSE "Client"

(* accept_resource() for a Resource not seen before.                        *)
Advertise(r, fits) ==
    LET l == LinkOf[r]
        owner == OwnerOn(l)
        peer == IF owner = "Client" /\ link[l] # "identified" THEN Absent ELSE PeerOf[l]
        room == Bypasses(peer) \/ Cardinality(Limited) < MaxInbound
        accepted == l \notin quarantined /\ room /\ ResourceAllowed(peer, fits)
    IN  /\ transfer[r] = "new" /\ link[l] # "down"
        /\ transfer' = [transfer EXCEPT ![r] = IF accepted THEN "accepted" ELSE "over"]
        /\ correlation' =
              IF accepted
              THEN [correlation EXCEPT ![r] = [owner |-> owner, peer |-> peer,
                                               started |-> FALSE, dispatched |-> FALSE]]
              ELSE correlation
        /\ record' = IF ~accepted /\ l \notin quarantined /\ owner = "Offered"
                     THEN [record EXCEPT ![l] = Absent] ELSE record
        /\ UNCHANGED <<throttled, offer, candidate, validated, quarantined, pending, link,
                       events, jobs>>

Post(r, kinds, status) ==
    /\ events' = events \o [i \in DOMAIN kinds |-> [kind |-> kinds[i], resource |-> r]]
    /\ transfer' = [transfer EXCEPT ![r] = status]
    /\ UNCHANGED <<runtime, link, jobs>>

Start(r) == transfer[r] = "accepted" /\ Post(r, <<"Started">>, "started")
Complete(r) == transfer[r] = "started" /\ Post(r, <<"Completion", "Complete">>, "over")

(* Cancelled, failed, or a later segment of it refused by accept_resource():*)
(* all three conclusions do the same to the runtime.                        *)
FailTransfer(r) ==
    transfer[r] \in {"accepted", "started"} /\ Post(r, <<"Failed">>, "over")

(* The Link closes, with its transfers; CloseLink of the daemon included.   *)
Close(l) ==
    /\ link[l] # "down"
    /\ link' = [link EXCEPT ![l] = "down"]
    /\ transfer' = [r \in Resources |-> IF LinkOf[r] = l THEN "over" ELSE transfer[r]]
    /\ events' = Append(events, [kind |-> "LinkClosed", link |-> l])
    /\ UNCHANGED <<runtime, jobs>>
-----------------------------------------------------------------------------
(* The daemon: handle_accounting_event().                                   *)
Drop(r) == correlation' = [correlation EXCEPT ![r] = Absent]

(* Mutant: a failed transfer keeps its offer's record.                      *)
Mut_Release(r, owner) ==
    record' = IF owner = "Offered" /\ pending[r] # Absent
              THEN [record EXCEPT ![LinkOf[r]] = Absent] ELSE record

(* resource_failed(), resource_rejected(), resource_cancelled().            *)
Release(r, owner) ==
    record' = IF owner = "Offered" THEN [record EXCEPT ![LinkOf[r]] = Absent] ELSE record

ResourceStarted(r) ==
    LET c == correlation[r] IN
    /\ IF c = Absent \/ (c # Absent /\ c.started) THEN UNCHANGED <<record, correlation>>
       ELSE IF c.owner = "Offered" /\ record[LinkOf[r]] # "Accepted"
       THEN Drop(r) /\ Release(r, "Offered")
       ELSE /\ correlation' = [correlation EXCEPT ![r].started = TRUE]
            /\ record' = IF c.owner = "Offered"
                         THEN [record EXCEPT ![LinkOf[r]] = "Transferring"] ELSE record
    /\ UNCHANGED <<pending, jobs, onLink>>

ResourceCompleted(r) ==
    LET c == correlation[r] IN
    /\ IF c = Absent \/ (c # Absent /\ c.dispatched)
       THEN UNCHANGED <<record, correlation, pending, jobs>>
       ELSE IF ~c.started \/ (c.owner = "Offered" /\ record[LinkOf[r]] # "Transferring")
       THEN Drop(r) /\ Release(r, c.owner) /\ UNCHANGED <<pending, jobs>>
       ELSE /\ record' = IF c.owner = "Offered"
                         THEN [record EXCEPT ![LinkOf[r]] = "Validating"] ELSE record
            /\ pending' = [pending EXCEPT ![r] = [owner |-> c.owner, peer |-> c.peer,
                                                  closed |-> FALSE]]
            /\ correlation' = [correlation EXCEPT ![r].dispatched = TRUE]
            /\ jobs' = jobs \cup {r}
    /\ UNCHANGED onLink

(* resource_concluded(): a completed payload stays with its validation; any *)
(* other end cancels it.                                                    *)
ResourceConcluded(r, complete) ==
    LET c == correlation[r] IN
    /\ IF c = Absent THEN UNCHANGED <<record, correlation, pending>>
       ELSE /\ Drop(r)
            /\ IF complete /\ c.dispatched THEN UNCHANGED record ELSE Release(r, c.owner)
            /\ pending' = IF complete THEN pending ELSE [pending EXCEPT ![r] = Absent]
    /\ UNCHANGED <<jobs, onLink>>

ClosedRecord(l) == [record EXCEPT ![l] = Absent]

(* link_closed(): completed payloads keep their validation.                 *)
LinkClosed(l) ==
    /\ validated' = validated \ {l} /\ quarantined' = quarantined \ {l}
    /\ correlation' = [r \in Resources |-> IF LinkOf[r] = l THEN Absent ELSE correlation[r]]
    /\ pending' = [r \in Resources |-> IF LinkOf[r] = l /\ pending[r] # Absent
                                       THEN [pending[r] EXCEPT !.closed = TRUE]
                                       ELSE pending[r]]
    /\ record' = ClosedRecord(l)
    /\ candidate' = (candidate /\ offer # l)
    /\ UNCHANGED jobs

HandleEvent ==
    LET e == Head(events) IN
    /\ events # <<>> /\ events' = Tail(events)
    /\ \/ e.kind = "Started" /\ ResourceStarted(e.resource)
       \/ e.kind = "Completion" /\ ResourceCompleted(e.resource)
       \/ e.kind \in {"Complete", "Failed"} /\ ResourceConcluded(e.resource, e.kind = "Complete")
       \/ e.kind = "LinkClosed" /\ LinkClosed(e.link)
    /\ UNCHANGED <<throttled, offer, manager>>


Quarantines(p, outcome) == outcome \in {"InvalidStamp", "UnauthorizedMultiple"} /\ ~p.closed

(* Mutant: peers that never identified themselves share one throttle.       *)
Mut_Throttled(p, outcome) ==
    IF outcome = "InvalidStamp" THEN throttled \cup {p.peer} ELSE throttled

Throttled(p, outcome) ==
    IF outcome = "InvalidStamp" /\ p.peer # Absent THEN throttled \cup {p.peer} ELSE throttled

(* conclude_validation() with a worker's result, which counts only while    *)
(* its token is pending.                                                    *)
Conclude(r, outcome) ==
    LET p == pending[r]
        l == LinkOf[r]
    IN  /\ r \in jobs /\ jobs' = jobs \ {r}
        /\ outcome = "UnauthorizedMultiple" /\ p # Absent => p.owner = "Client"
        /\ IF p = Absent THEN UNCHANGED <<pending, quarantined, record, throttled>>
           ELSE /\ pending' = [pending EXCEPT ![r] = Absent]
                /\ quarantined' = IF Quarantines(p, outcome) THEN quarantined \cup {l}
                                  ELSE quarantined
                /\ Release(r, p.owner)
                /\ throttled' = Throttled(p, outcome)
        /\ UNCHANGED <<offer, candidate, validated, correlation, manager, events>>

(* expire_throttles().                                                      *)
Expire(p) ==
    /\ p \in throttled /\ throttled' = throttled \ {p}
    /\ UNCHANGED <<record, offer, candidate, validated, quarantined, correlation, pending,
                   manager, events, jobs>>

Outcome == {"Valid", "InvalidStamp", "UnauthorizedMultiple", "Failed"}

SyncNext ==
    \/ \E l \in Links : Identify(l) \/ Preflight(l) \/ Close(l)
    \/ Discard \/ \E wanted \in BOOLEAN : Commit(wanted)
    \/ \E r \in Resources : \/ \E fits \in BOOLEAN : Advertise(r, fits)
                            \/ Start(r) \/ Complete(r) \/ FailTransfer(r)
    \/ HandleEvent
    \/ \E r \in Resources, outcome \in Outcome : Conclude(r, outcome)
    \/ \E p \in Peers : Expire(p)

SyncSpec == SyncInit /\ [][SyncNext]_syncVars
-----------------------------------------------------------------------------
(* Type invariant.                                                          *)
SyncTypeOK ==
    /\ record \in [Links -> {"Accepted", "Transferring", "Validating", Absent}]
    /\ throttled \subseteq Peers /\ validated \subseteq Links /\ quarantined \subseteq Links
    /\ correlation \in [Resources -> Correlation \cup {Absent}]
    /\ pending \in [Resources -> Pending \cup {Absent}]
    /\ offer \in Links \cup {Absent} /\ candidate \in BOOLEAN /\ (candidate => offer # Absent)
    /\ events \in Seq(Event) /\ jobs \subseteq Resources
    /\ link \in [Links -> {"up", "identified", "down"}]
    /\ transfer \in [Resources -> {"new", "accepted", "started", "over"}]

(* No more than max_inbound_syncs transfers and validations at a time, the  *)
(* bypassing static peers' aside, however late the daemon takes the events. *)
Carried ==
    {r \in Resources : \/ correlation[r] # Absent /\ ~Bypasses(correlation[r].peer)
                      \/ /\ correlation[r] = Absent /\ pending[r] # Absent
                         /\ ~Bypasses(pending[r].peer)}
WithinLimit == Cardinality(Carried) <= MaxInbound

(* Once the daemon has seen a Link close, nothing of the Link is left that  *)
(* could authorize, refuse or count for another.                            *)
ClosedForgotten ==
    \A l \in Links :
        link[l] = "down" /\ (\A i \in DOMAIN events : events[i] # [kind |-> "LinkClosed", link |-> l])
        => /\ l \notin validated \cup quarantined /\ record[l] = Absent
           /\ \A r \in Resources :
                 LinkOf[r] = l => correlation[r] = Absent /\ (pending[r] # Absent => pending[r].closed)
           /\ offer = l => ~candidate

(* A record that holds a sync slot has its Resource or its validation, and  *)
(* none outlives its Link: no failed, refused, cancelled or late transfer   *)
(* leaks a slot or speaks for another.                                      *)
SlotsOwned ==
    /\ ClosedForgotten
    /\ \A l \in Links :
           /\ record[l] = "Transferring" <=>
                 \E r \in Resources : /\ LinkOf[r] = l /\ correlation[r] # Absent
                                      /\ correlation[r].owner = "Offered"
                                      /\ correlation[r].started /\ ~correlation[r].dispatched
           /\ record[l] = "Validating" <=>
                 \E r \in Resources : /\ LinkOf[r] = l /\ pending[r] # Absent
                                      /\ pending[r].owner = "Offered" /\ ~pending[r].closed

(* A transfer may carry several messages only on a Link whose peer has      *)
(* proved its peering key.                                                  *)
Authorized ==
    \A r \in Resources :
        correlation[r] # Absent /\ correlation[r].owner # "Client" => LinkOf[r] \in validated

=============================================================================
