--------------------------- MODULE InboundResource ---------------------------
(***************************************************************************)
(* Resources a peer sends back over a reusable Direct Link                 *)
(* (crates/lxmf-core/src/link_delivery.rs): advertisement, parts, proof,   *)
(* the segments of a split Resource, cancellation, watchdogs, and the      *)
(* removal of the session.  The application is asked before a Resource is  *)
(* accepted and told when it has concluded, so that it can reserve memory  *)
(* for it in between.                                                      *)
(*                                                                         *)
(* Advertisements and parts are delayed, duplicated and lost.  The peer    *)
(* advertises a segment once the one before it is proved; it knows nothing *)
(* of other Resources it is sending, nor of this node's limits.  A refusal *)
(* only tells the peer to cancel, so it is no step of its own.             *)
(***************************************************************************)
EXTENDS Naturals, FiniteSets

CONSTANTS
    FromPeer,       \* Resources of the peer
    SegmentsOf,     \* how many segments each has; more than one: it is split
    PartsOf,        \* parts of every segment
    TooLarge        \* Resources above inbound_resource_limit_bytes

Segment == {s \in FromPeer \X (1..3) : s[2] <= SegmentsOf[s[1]]}

ASSUME FromPeerAssumption ==
    /\ SegmentsOf \in [FromPeer -> 1..3]
    /\ PartsOf \in Nat \ {0} /\ TooLarge \subseteq FromPeer

VARIABLES
    reverseLink,    \* Link::state of the session, "gone" once it is removed
    sending,        \* state # Idle: a message of this node is under way
    inbound,        \* what the session keeps of these Resources
    advertised,     \* segments the peer has advertised
    requested,      \* ... whose parts it was asked for
    proven,         \* ... whose proof was staged for it
    reserved,       \* Resources the application holds memory for
    given,          \* payloads the application was given
    stranded        \* reserved when the embedder removed the session

application == <<reserved, given, stranded>>
peerSide == <<advertised, requested, proven>>
inboundVars == <<reverseLink, sending, inbound, application, peerSide>>

(* InboundResourceLifecycle: the segment expected, and whether the time for *)
(* its advertisement is limited.                                            *)
NoLifecycle == [next |-> 0, deadline |-> FALSE]
NoTransfer == PartsOf           \* one that has all its parts is over

(* transfers counts the parts received (inbound_resources), splits holds    *)
(* the segments assembled, routes is inbound_segment_routing, and tracked   *)
(* what the Link counts as incoming.                                        *)
Session ==
    [transfers: [Segment -> 0 .. NoTransfer],
     lifecycles: [FromPeer -> [next: 0..4, deadline: BOOLEAN]],
     splits: [FromPeer -> SUBSET (1..3)],
     routes: SUBSET Segment, tracked: SUBSET Segment]

NoResources ==
    [transfers |-> [s \in Segment |-> NoTransfer], lifecycles |-> [r \in FromPeer |-> NoLifecycle],
     splits |-> [r \in FromPeer |-> {}], routes |-> {}, tracked |-> {}]

InboundTypeOK ==
    /\ reverseLink \in {"active", "stale", "closed", "gone"}
    /\ sending \in BOOLEAN
    /\ inbound \in Session
    /\ advertised \subseteq Segment /\ requested \subseteq Segment /\ proven \subseteq Segment
    /\ reserved \subseteq FromPeer /\ given \subseteq FromPeer /\ stranded \subseteq FromPeer

InboundInit ==
    /\ reverseLink = "active"
    /\ sending \in BOOLEAN
    /\ inbound = NoResources
    /\ advertised = {} /\ requested = {} /\ proven = {}
    /\ reserved = {} /\ given = {} /\ stranded = {}

Split(r) == SegmentsOf[r] > 1
Live(r) == inbound.lifecycles[r] # NoLifecycle
Receiving(s) == inbound.transfers[s] # NoTransfer

-----------------------------------------------------------------------------
(* What begins and ends a Resource.                                         *)

Accepted(s) ==
    [inbound EXCEPT !.transfers[s] = 0, !.tracked = @ \cup {s},
                    !.routes = IF Split(s[1]) THEN @ \cup {s} ELSE @,
                    !.lifecycles[s[1]] = [next |-> s[2], deadline |-> FALSE]]

(* Mutant: only the segment that failed is dropped.                         *)
Mut_Dropped(i, s) ==
    [i EXCEPT !.transfers[s] = NoTransfer, !.routes = @ \ {s}, !.tracked = @ \ {s},
              !.splits[s[1]] = {}]

(* drop_inbound_resource: with all its segments, where they are routed.     *)
Dropped(i, s) ==
    LET routed == {t \in i.routes : t[1] = s[1]}
        gone == IF routed = {} THEN {s} ELSE routed
    IN  [i EXCEPT !.transfers = [t \in Segment |-> IF t \in gone THEN NoTransfer ELSE @[t]],
                  !.routes = @ \ gone, !.tracked = @ \ gone,
                  !.splits[s[1]] = {}, !.lifecycles[s[1]] = NoLifecycle]

(* notify_inbound_resource_concluded: the application frees its memory.     *)
Concluded(r) == reserved' = reserved \ {r}

Abort(s) ==
    /\ inbound' = Dropped(inbound, s)
    /\ Concluded(s[1])
    /\ UNCHANGED <<reverseLink, sending, given, stranded, peerSide>>

-----------------------------------------------------------------------------
(* The peer advertises a segment.                                           *)
Advertise(s) ==
    /\ s[2] = 1 \/ <<s[1], s[2] - 1>> \in proven
    /\ advertised' = advertised \cup {s}
    /\ UNCHANGED <<reverseLink, sending, inbound, application, requested, proven>>

(* handle_inbound_resource_advertisement.                                   *)
Expected(s) == IF Live(s[1]) THEN inbound.lifecycles[s[1]].next = s[2] ELSE s[2] = 1
Competing(r) == ~Live(r) /\ \E other \in FromPeer : Live(other)

Acceptable(s) ==
    /\ reverseLink = "active" /\ s \in advertised
    /\ Expected(s) /\ ~Competing(s[1]) /\ s[1] \notin TooLarge

(* The advertisement of a segment that is being received.                   *)
AskAgain(s) ==
    /\ Acceptable(s) /\ Receiving(s)
    /\ requested' = requested \cup {s}
    /\ UNCHANGED <<reverseLink, sending, inbound, application, advertised, proven>>

(* The application accepts, and the first request is staged.                *)
Accept(s) ==
    /\ Acceptable(s) /\ ~Receiving(s)
    /\ inbound' = Accepted(s)
    /\ reserved' = reserved \cup {s[1]}
    /\ requested' = requested \cup {s}
    /\ UNCHANGED <<reverseLink, sending, given, stranded, advertised, proven>>

(* ... or there is no room for it, and what was just set up is dropped.     *)
AcceptUnrequested(s) ==
    /\ Acceptable(s) /\ ~Receiving(s)
    /\ inbound' = Dropped(Accepted(s), s)
    /\ Concluded(s[1])
    /\ UNCHANGED <<reverseLink, sending, given, stranded, peerSide>>

(* ... or no transfer can be built from the advertisement: the application  *)
(* is told, and what there is of earlier segments waits for its deadline.   *)
AcceptUnusable(s) ==
    /\ Acceptable(s) /\ ~Receiving(s)
    /\ Concluded(s[1])
    /\ UNCHANGED <<reverseLink, sending, inbound, given, stranded, peerSide>>

-----------------------------------------------------------------------------
(* handle_inbound_resource_part.                                            *)

LastPart(s) == inbound.transfers[s] = PartsOf - 1

Hears(s) == reverseLink = "active" /\ Receiving(s) /\ s \in requested

ReceivePart(s) ==
    /\ Hears(s) /\ ~LastPart(s)
    /\ inbound' = [inbound EXCEPT !.transfers[s] = @ + 1]
    /\ UNCHANGED <<reverseLink, sending, application, peerSide>>

(* Its next request, the assembled data or the proof has no room or fails.  *)
PartFails(s) == Hears(s) /\ Abort(s)

(* The segment is assembled; the payload, when all of them are there.       *)
Assembled(s) ==
    LET r == s[1]
        there == inbound.splits[r] \cup {s[2]}
        whole == there = 1 .. SegmentsOf[r]
        assembled == [inbound EXCEPT !.transfers[s] = NoTransfer, !.routes = @ \ {s},
                                    !.tracked = @ \ {s}]
    IN  IF ~Split(r) THEN <<Dropped(inbound, s), TRUE>>
        ELSE IF whole 
         THEN <<[assembled EXCEPT !.splits[r] = {}, !.lifecycles[r] = NoLifecycle], TRUE>>
        ELSE <<[assembled EXCEPT !.splits[r] = there,
                                !.lifecycles[r] = [next |-> @.next + 1, deadline |-> TRUE]],
               FALSE>>

(* The proof is staged before the payload is published.                     *)
Complete(s) ==
    /\ Hears(s) /\ LastPart(s)
    /\ inbound' = Assembled(s)[1]
    /\ proven' = proven \cup {s}
    /\ IF Assembled(s)[2]
       THEN Concluded(s[1]) /\ given' = given \cup {s[1]}
       ELSE UNCHANGED <<reserved, given>>
    /\ UNCHANGED <<reverseLink, sending, stranded, advertised, requested>>

-----------------------------------------------------------------------------
(* handle_inbound_resource_hmu, where it is refused, and                    *)
(* handle_inbound_resource_cancel: the Link may be stale.                   *)
HashmapRefused(s) == reverseLink \in {"active", "stale"} /\ Receiving(s) /\ Abort(s)

PeerCancels(s) ==
    /\ reverseLink \in {"active", "stale"}
    /\ s \in advertised /\ Receiving(s)
    /\ Abort(s)

(* drive_inbound_resource_watchdogs, called by tick for an active Link.     *)
TransferExpires(s) == reverseLink = "active" /\ Receiving(s) /\ Abort(s)

SegmentOverdue(r) ==
    /\ reverseLink = "active" /\ inbound.lifecycles[r].deadline
    /\ Abort(<<r, 1>>)

-----------------------------------------------------------------------------
(* The session.                                                             *)

LinkBecomes(state) ==
    /\ reverseLink' = state
    /\ UNCHANGED <<sending, inbound, application, peerSide>>

GoStale == reverseLink = "active" /\ LinkBecomes("stale")
Revive == reverseLink = "stale" /\ LinkBecomes("active")

SendsOrRests ==
    /\ reverseLink # "gone"
    /\ sending' = ~sending
    /\ UNCHANGED <<reverseLink, inbound, application, peerSide>>

(* drop_all_inbound_resources, and a notice for each that was live.         *)
EndAll(state) ==
    /\ reverseLink' = state
    /\ inbound' = NoResources
    /\ reserved' = {r \in reserved : ~Live(r)}
    /\ UNCHANGED <<sending, given, stranded, peerSide>>

(* handle_link_closed, and the removal of a session by tick.                *)
LinkClosed == reverseLink \in {"active", "stale"} /\ EndAll("closed")
TickRemoves == reverseLink # "gone" /\ EndAll("gone")

(* A session the embedder removes takes its Resources with it: no notice.   *)
Strand ==
    /\ reverseLink' = "gone"
    /\ inbound' = NoResources
    /\ stranded' = stranded \cup reserved
    /\ UNCHANGED <<sending, reserved, given, peerSide>>

(* cancel_delivery_by_message_hash keeps the session of an active Link,     *)
(* fail_delivery_by_message_hash keeps none, and start_direct_delivery      *)
(* replaces one that has been idle for too long.                            *)
CancelRemoves == sending /\ reverseLink \in {"stale", "closed"} /\ Strand
FailRemoves == sending /\ reverseLink # "gone" /\ Strand
StartReplaces == ~sending /\ reverseLink = "active" /\ Strand

InboundNext ==
    \/ \E s \in Segment :
         \/ Advertise(s) \/ AskAgain(s)
         \/ Accept(s) \/ AcceptUnrequested(s) \/ AcceptUnusable(s)
         \/ ReceivePart(s) \/ PartFails(s) \/ Complete(s)
         \/ HashmapRefused(s) \/ PeerCancels(s) \/ TransferExpires(s)
    \/ \E r \in FromPeer : SegmentOverdue(r)
    \/ GoStale \/ Revive \/ SendsOrRests
    \/ LinkClosed \/ TickRemoves
    \/ CancelRemoves \/ FailRemoves \/ StartReplaces

InboundSpec == InboundInit /\ [][InboundNext]_inboundVars

-----------------------------------------------------------------------------
(* A live Resource is watched: by its transfer, or else by the deadline for *)
(* its next segment.                                                        *)
Watched(r) ==
    inbound.lifecycles[r].deadline # \E s \in Segment : s[1] = r /\ Receiving(s)

Residue(r) ==
    \/ inbound.splits[r] # {}
    \/ \E s \in Segment :
          s[1] = r /\ (Receiving(s) \/ s \in inbound.routes \cup inbound.tracked)

(* Nothing outlives its Resource.  Memory the application reserved belongs  *)
(* to a Resource that is live, unless the embedder removed the session; a   *)
(* live one is watched, so that it cannot keep the Link from taking another *)
(* for ever; of one that is not no transfer, segment or route is left.  And *)
(* no local acceptance outruns what the sender is told: every segment of a  *)
(* payload the application was given was proved to the peer.                *)
InboundAccounted ==
    /\ \A r \in reserved \ stranded : Live(r)
    /\ \A r \in FromPeer : IF Live(r) THEN Watched(r) ELSE ~Residue(r)
    /\ \A r, o \in FromPeer : Live(r) /\ Live(o) => r = o
    /\ \A r \in given : \A s \in Segment : s[1] = r => s \in proven
=============================================================================
