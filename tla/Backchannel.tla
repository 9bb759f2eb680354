------------------------------ MODULE Backchannel ------------------------------
(***************************************************************************)
(* Direct messages over the Links that peers opened to this node:          *)
(* the backchannels of LinkDeliveryManager (lxmf-core/link_delivery.rs)    *)
(* and the bridge of lxmd to the runtime that owns those Links             *)
(* (lxmf-tools/commands/lxmd.rs).                                          *)
(*                                                                         *)
(* The manager puts a command into a channel and keeps the start until the *)
(* receipt of the runtime names the packet or Resource (its key); from     *)
(* then on it is a delivery that waits for the proof.  Receipt, proof,     *)
(* wait and conclusion come over channels of their own, in any order.  A   *)
(* start whose message was settled stays as a reservation while its        *)
(* receipt may still come, for then the send has to be called off.         *)
(*                                                                         *)
(* An attempt is one call of start_backchannel_delivery; its number stands *)
(* for its key too, and open starts are queued in the order of their       *)
(* numbers; a start that fail_delivery_by_message_hash settles goes to the *)
(* end, so which settled start comes first is any choice.                  *)
(* One tick visits every start, one visit a step.                          *)
(* Deadlines are abstracted: what is awaited may time out at any time.     *)
(***************************************************************************)
EXTENDS Naturals, FiniteSets, FiniteSetsExt

CONSTANTS
    Letters,           \* the messages, to one destination
    PeerLinks,         \* the Links its peer may open
    NoLink,
    Limit,             \* BACKCHANNEL_EARLY_PROOF_LIMIT
    MaxTries           \* bound: attempts

ASSUME BackchannelAssumption ==
    NoLink \notin PeerLinks /\ Limit \in Nat \ {0} /\ MaxTries \in Nat

Tries == 1 .. MaxTries

VARIABLES
    owner,             \* backchannel_links of the destination, or NoLink
    starts,            \* pending_backchannel_starts: what each start is
    deliveries,        \* keys of pending_backchannel_deliveries
    handles,           \* those with a packet_cancellation
    early,             \* early_backchannel_proofs and _resource_conclusions
    earlyHandles,      \* early_backchannel_packet_cancellations
    calledOff,         \* cancelled_backchannel_packets
    resourceCancels,   \* pending_backchannel_resource_cancellations
    abandons,          \* backchannel_abandon_rx, pending_backchannel_abandon
    pipe,              \* where the command or its answer is
    try,               \* message, Link and kind of the attempt
    send,              \* the runtime: what became of the payload
    wait,              \* its packet wait: unread, read and kept, or read in vain
    shut               \* Links that have closed

VARIABLES              \* history
    fate,              \* what became of each attempt
    unlisted,          \* packets to call off that calledOff had no room for
    bereft             \* those whose start may leave before they are called off

cancellations == <<calledOff, resourceCancels, unlisted>>
manager == <<owner, starts, deliveries, handles, early, earlyHandles, cancellations>>
handover == <<abandons, bereft>>
runtime == <<send, shut>>
backVars == <<manager, handover, pipe, try, wait, runtime, fate>>

Kind == {"packet", "resource"}
Pipe == {"none", "command", "bridge", "answered", "receipt", "error", "over"}
Sent == {"none", "asked", "staged", "out", "proven", "rejected", "lost", "cancelled", "ended",
         "acked", "told"}          \* the last two: proof or conclusion has been read
Fate == {"new", "open", "complete", "rejected", "failed", "cut", "cancelled"}
StartState ==
    {"none",                       \* not pending, or no longer
     "live", "closed",             \* awaits its receipt; closed: its Link has closed
     "settled"}                    \* a reservation: cancelled, receiver closed

BackInit ==
    /\ owner = NoLink /\ starts = [a \in Tries |-> "none"] /\ deliveries = {} /\ handles = {}
    /\ early = [a \in Tries |-> "none"] /\ earlyHandles = {}
    /\ calledOff = {} /\ resourceCancels = {} /\ unlisted = {} /\ abandons = {} /\ bereft = {}
    /\ pipe = [a \in Tries |-> "none"]
    /\ try \in [Tries -> [msg: Letters, link: {NoLink}, kind: Kind]]
    /\ send = [a \in Tries |-> "none"] /\ wait = [a \in Tries |-> "unread"] /\ shut = {}
    /\ fate = [a \in Tries |-> "new"]

-----------------------------------------------------------------------------
Held(ss) == {a \in Tries : ss[a] # "none"}
Open(a) == starts[a] \in {"live", "closed"}
Packets(S) == {a \in S : try[a].kind = "packet"}
Reserved == Cardinality(Held(starts)) + Cardinality(deliveries) + Cardinality(calledOff)

(* prune_early_backchannel_settlement, with the starts and deliveries of    *)
(* the next state: what no start on its Link awaits is forgotten.  A handle *)
(* that is forgotten cancels its packet.                                    *)
Awaiting(ss) == {try[a].link : a \in Held(ss)}
Recalled(S) == [a \in Tries |-> IF a \in S /\ send[a] = "staged" THEN "cancelled" ELSE send[a]]

Prune(ss, ds, hs, called) ==
    LET kept == {a \in hs : a \in ds \/ try[a].link \in Awaiting(ss)}
    IN  /\ earlyHandles' = kept
        /\ send' = Recalled(called \cup (hs \ kept))

Remembered(e, ss) ==
    [a \in Tries |-> IF try[a].link \in Awaiting(ss) THEN e[a] ELSE "none"]

(* cancel_backchannel_packet_key for the packets of S: all that there is    *)
(* room for are remembered, and those with a handle are recalled.           *)
CallsOff(S, D) ==
    /\ D \subseteq Packets(S) /\ Cardinality(calledOff \cup D) <= Limit
    /\ D # Packets(S) => Cardinality(calledOff \cup D) = Limit
    /\ calledOff' = calledOff \cup D
    /\ resourceCancels' = resourceCancels \cup (S \ Packets(S))
    /\ unlisted' = unlisted \cup (Packets(S) \ D)

Called(D) == D \cap (handles \cup earlyHandles)

(* The receiver of a start is closed and drained: a receipt that was there  *)
(* is cancelled, otherwise the start stays as a reservation.                *)
Returned(S) == {a \in S : pipe[a] \in {"receipt", "error"}}
Receipts(S) == {a \in S : pipe[a] = "receipt"}
Mut_Retain(S) ==                   \* a settled start still takes its receipt
    [a \in Tries |-> IF a \in Returned(S) THEN "none" ELSE starts[a]]
Retain(S) ==
    [a \in Tries |-> IF a \in Returned(S) THEN "none"
                     ELSE IF a \in S THEN "settled" ELSE starts[a]]
StartsWithout(a) == [starts EXCEPT ![a] = "none"]
Emptied(S) == [a \in Tries |-> IF a \in Returned(S) THEN "over" ELSE pipe[a]]

Settled(S, how) == [a \in Tries |-> IF a \in S THEN how ELSE fate[a]]
Disowned(l) == IF owner = l THEN NoLink ELSE owner

-----------------------------------------------------------------------------
(* register_backchannel, when the peer of a Link has identified itself.     *)
Register(l) ==
    /\ owner # l /\ owner' = l
    /\ UNCHANGED <<starts, deliveries, handles, early, earlyHandles, cancellations,
                   handover, pipe, try, wait, runtime, fate>>

(* start_backchannel_delivery, and a command channel that is full.          *)
IsNext(a) == \A b \in Tries : fate[b] = "new" <=> a <= b

StartBackchannel(a) ==
    /\ IsNext(a) /\ Reserved < Limit /\ owner # NoLink
    /\ starts' = [starts EXCEPT ![a] = "live"]
    /\ try' = [try EXCEPT ![a].link = owner]
    /\ pipe' = [pipe EXCEPT ![a] = "command"]
    /\ fate' = [fate EXCEPT ![a] = "open"]
    /\ UNCHANGED <<owner, deliveries, handles, early, earlyHandles, cancellations, handover,
                   wait, runtime>>

CommandsFull ==
    /\ Reserved < Limit /\ owner # NoLink /\ owner' = NoLink
    /\ UNCHANGED <<starts, deliveries, handles, early, earlyHandles, cancellations,
                   handover, pipe, try, wait, runtime, fate>>

-----------------------------------------------------------------------------
(* tick_backchannels, one start.                                            *)

StartEnds(a, how) ==                    \* the start a leaves with its answer
    /\ fate' = Settled({a}, how) /\ pipe' = [pipe EXCEPT ![a] = "over"]
    /\ starts' = StartsWithout(a)

(* The receipt.  What was remembered of its key settles it at once.         *)
Outcome(e) == CASE e = "proof" -> "complete" [] e = "rejected" -> "rejected"
                [] e = "failed" -> "failed"

TakesReceipt(a) ==
    LET settled == early[a] # "none"
        hs == earlyHandles \ {a}
    IN  /\ Open(a) /\ pipe[a] = "receipt"
        /\ \/ /\ starts[a] = "closed" /\ ~settled
              /\ StartEnds(a, "cut") /\ UNCHANGED <<owner, deliveries, handles>>
              /\ Prune(starts', deliveries, earlyHandles, {})
           \/ /\ settled
              /\ StartEnds(a, Outcome(early[a])) /\ UNCHANGED <<deliveries, handles>>
              /\ owner' = IF early[a] = "failed" THEN Disowned(try[a].link) ELSE owner
              /\ Prune(starts', deliveries, hs, {})
           \/ /\ starts[a] = "live" /\ ~settled
              /\ StartEnds(a, "open") /\ deliveries' = deliveries \cup {a}
              /\ handles' = handles \cup (earlyHandles \cap {a})
              /\ Prune(starts', deliveries', hs, {}) /\ UNCHANGED owner
        /\ early' = Remembered([early EXCEPT ![a] = "none"], starts')
        /\ UNCHANGED cancellations

TakesError(a) ==
    /\ Open(a) /\ pipe[a] = "error"
    /\ StartEnds(a, "failed") /\ owner' = Disowned(try[a].link)
    /\ early' = Remembered(early, starts') /\ Prune(starts', deliveries, earlyHandles, {})
    /\ UNCHANGED <<deliveries, handles, cancellations>>

(* Too late: the receiver is closed, then drained; an error that was there  *)
(* leaves the reservation.                                                  *)
StartTimesOut(a) ==
    /\ Open(a)
    /\ fate' = Settled({a}, "failed") /\ owner' = Disowned(try[a].link)
    /\ starts' = [starts EXCEPT ![a] = IF pipe[a] = "receipt" THEN "none" ELSE "settled"]
    /\ pipe' = Emptied({a})
    /\ \E D \in SUBSET Packets(Receipts({a})) :
          CallsOff(Receipts({a}), D) /\ Prune(starts', deliveries, earlyHandles \ D, Called(D))
    /\ early' = Remembered(early, starts')
    /\ UNCHANGED <<deliveries, handles>>

(* The reservation ends.  It outlasts the bridge of every earlier start on  *)
(* the Link, and the admission of what that sent                            *)
(* (BACKCHANNEL_SEND_COMMAND_TIMEOUT + LINK_PACKET_DISPATCH_TIMEOUT).       *)
Outlasted(a) == pipe[a] = "over" /\ a \notin abandons /\ send[a] \notin {"asked", "staged"}

ReservationEnds(a) ==
    /\ starts[a] = "settled"
    /\ \A b \in 1 .. a : try[b].link = try[a].link => Outlasted(b)
    /\ starts' = StartsWithout(a)
    /\ early' = Remembered(early, starts') /\ Prune(starts', deliveries, earlyHandles, {})
    /\ UNCHANGED <<owner, deliveries, handles, cancellations, pipe, fate>>

VisitStart(a) ==
    /\ TakesReceipt(a) \/ TakesError(a) \/ StartTimesOut(a) \/ ReservationEnds(a)
    /\ UNCHANGED <<handover, try, wait, shut>>

(* A delivery is called off: its wait ended, or its message failed.         *)
DropsDelivery(a, how) ==
    /\ deliveries' = deliveries \ {a} /\ handles' = handles \ {a}
    /\ \E D \in SUBSET Packets({a}) :
          /\ CallsOff({a}, D)
          /\ earlyHandles' = IF a \in handles THEN earlyHandles ELSE earlyHandles \ D
          /\ send' = Recalled(Called(D))
    /\ fate' = Settled({a}, how)
    /\ UNCHANGED <<starts, handover, pipe, try, wait, shut>>

DeliveryTimesOut(a) ==
    /\ a \in deliveries /\ DropsDelivery(a, "failed")
    /\ owner' = Disowned(try[a].link)
    /\ UNCHANGED <<early>>

(* What prune forgets for its age alone: a packet cancelled longer ago than *)
(* its admission can take, a settlement that no live start awaits.          *)
AgesOut(a) ==
    /\ \/ calledOff' = calledOff \ {a} /\ a \in calledOff /\ send[a] \notin {"asked", "staged"}
          /\ early' = early
       \/ early[a] # "none" /\ early' = [early EXCEPT ![a] = "none"] /\ calledOff' = calledOff
    /\ UNCHANGED <<owner, starts, deliveries, handles, earlyHandles, resourceCancels, unlisted,
                   handover, pipe, try, wait, runtime, fate>>

-----------------------------------------------------------------------------
(* Calls of the embedder.                                                   *)

(* fail_backchannel_link, for a Link that has closed.                       *)
Starting(l) == {a \in Held(starts) : try[a].link = l}
Mut_HasEarly(l) == FALSE           \* a start fails with its Link at once
HasEarly(l) == \E a \in Tries : early[a] # "none" /\ try[a].link = l

FailLink(l) ==
    LET failing == IF HasEarly(l) THEN {} ELSE {a \in Starting(l) : Open(a)}
        ended == {a \in deliveries : try[a].link = l}
    IN  /\ l \in shut /\ (owner = l \/ Starting(l) \cup ended # {})
        /\ owner' = Disowned(l)
        /\ starts' = [a \in Tries |-> IF try[a].link = l /\ starts[a] = "live" /\ a \notin failing
                                      THEN "closed" ELSE Retain(failing)[a]]
        /\ pipe' = Emptied(failing)
        /\ deliveries' = deliveries \ ended /\ handles' = handles \ ended
        /\ \E D \in SUBSET Packets(ended \cup Receipts(failing)) :
              /\ CallsOff(Packets(ended) \cup Receipts(failing), D)
              /\ Prune(starts', deliveries', earlyHandles \ D, Called(D))
        /\ early' = Remembered(early, starts')
        /\ fate' = Settled(failing \cup ended, "cut")
        /\ UNCHANGED <<handover, try, wait, shut>>

(* fail_delivery_by_message_hash                                            *)
OpenStart(m) == {a \in Tries : Open(a) /\ try[a].msg = m}

FailStart(m) ==
    LET a == Min(OpenStart(m))
    IN  /\ OpenStart(m) # {}
        /\ fate' = Settled({a}, "failed") /\ owner' = Disowned(try[a].link)
        /\ starts' = Retain({a}) /\ pipe' = Emptied({a})
        /\ \E D \in SUBSET Packets(Receipts({a})) :
              /\ CallsOff(Receipts({a}), D)
              /\ Prune(starts', deliveries, earlyHandles \ D, Called(D))
        /\ early' = Remembered(early, starts')
        /\ UNCHANGED <<deliveries, handles, handover, try, wait, shut>>

FailDelivery(m) ==
    /\ OpenStart(m) = {}
    /\ \E a \in deliveries : /\ try[a].msg = m /\ DropsDelivery(a, "failed")
                             /\ owner' = Disowned(try[a].link)
    /\ UNCHANGED <<early>>

(* cancel_delivery_by_message_hash: of the message's starts only the first  *)
(* is looked at, and when that one is settled the answer is no, even while  *)
(* another start or a delivery of the message is open.                      *)
StartOf(m) == {a \in Held(starts) : try[a].msg = m}

CancelStart(m) ==
    \E a \in StartOf(m) :
        /\ Open(a)
        /\ fate' = Settled({a}, "cancelled")
        /\ starts' = Retain({a}) /\ pipe' = Emptied({a})
        /\ \E D \in SUBSET Packets(Receipts({a})) :
              /\ CallsOff(Receipts({a}), D)
              /\ earlyHandles' = earlyHandles \ D /\ send' = Recalled(Called(D))
        /\ UNCHANGED <<owner, deliveries, handles, early, handover, try, wait, shut>>

CancelDelivery(m) ==
    /\ StartOf(m) = {}
    /\ \E a \in deliveries : /\ try[a].msg = m /\ DropsDelivery(a, "cancelled")
                             /\ early' = [early EXCEPT ![a] = "none"]
    /\ UNCHANGED <<owner>>

-----------------------------------------------------------------------------
(* What lxmd reads of the runtime: proofs, conclusions, waits.              *)

(* remember_early_backchannel_proof and its kin: while a start on the Link  *)
(* is pending; the oldest makes room.                                       *)
Remembers(a, what) ==
    LET held == {b \in Tries : early[b] # "none"}
    IN  /\ try[a].link \in Awaiting(starts) /\ early[a] = "none"
        /\ \E out \in SUBSET held :
              /\ Cardinality(held \ out) < Limit
              /\ out # {} => Cardinality(held \ out) = Limit - 1
              /\ early' = [b \in Tries |-> IF b = a THEN what ELSE IF b \in out THEN "none"
                                           ELSE early[b]]
        /\ UNCHANGED <<owner, deliveries, handles, fate>>

Concludes(a, what) ==
    /\ a \in deliveries
    /\ deliveries' = deliveries \ {a} /\ handles' = handles \ {a}
    /\ early' = [early EXCEPT ![a] = "none"]
    /\ owner' = IF what = "failed" THEN Disowned(try[a].link) ELSE owner
    /\ fate' = Settled({a}, Outcome(what))

Read(a, what) ==
    /\ \/ Concludes(a, what)
       \/ a \notin deliveries /\ Remembers(a, what)
       \/ /\ a \notin deliveries /\ try[a].link \notin Awaiting(starts)
          /\ UNCHANGED <<owner, deliveries, handles, early, fate>>
    /\ send' = [send EXCEPT ![a] = IF what = "proof" THEN "acked" ELSE "told"]
    /\ UNCHANGED <<starts, earlyHandles, cancellations, handover, pipe, try, wait, shut>>

ReadProof(a) == send[a] = "proven" /\ Read(a, "proof")

ReadConclusion(a) ==
    /\ try[a].kind = "resource"
    /\ \/ send[a] = "rejected" /\ Read(a, "rejected")
       \/ send[a] \in {"lost", "cancelled", "ended"} /\ Read(a, "failed")

(* observe_backchannel_packet_wait, with the handle of the packet.          *)
ReadWait(a) ==
    LET known == a \in calledOff
        waits == try[a].link \in Awaiting(starts)
    IN  /\ try[a].kind = "packet" /\ send[a] \notin {"none", "asked"} /\ wait[a] = "unread"
        /\ wait' = [wait EXCEPT ![a] = IF known \/ waits \/ a \in deliveries
                                       THEN "kept" ELSE "vain"]
        /\ handles' = IF ~known /\ a \in deliveries THEN handles \cup {a} ELSE handles
        /\ IF known \/ a \in deliveries \/ ~waits \/ Cardinality(earlyHandles) >= Limit
           THEN earlyHandles' = earlyHandles
           ELSE earlyHandles' = earlyHandles \cup {a}
        /\ send' = IF known \/ (a \notin deliveries /\ waits /\ a \notin earlyHandles')
                   THEN Recalled({a}) ELSE send
        /\ UNCHANGED <<owner, starts, deliveries, early, cancellations, handover, pipe, try, shut,
                       fate>>

-----------------------------------------------------------------------------
(* The bridge of lxmd: drain_core_backchannel_send_commands and             *)
(* forward_backchannel_receipt.                                             *)

Dispatch(a) ==
    /\ pipe[a] = "command"
    /\ \/ ~Open(a) /\ pipe' = [pipe EXCEPT ![a] = "over"] /\ send' = send
       \/ Open(a) /\ pipe' = [pipe EXCEPT ![a] = "bridge"] /\ send' = [send EXCEPT ![a] = "asked"]
       \/ Open(a) /\ pipe' = [pipe EXCEPT ![a] = "error"] /\ send' = send
    /\ UNCHANGED <<manager, handover, try, wait, shut, fate>>

Forward(a) ==
    /\ pipe[a] = "answered"
    /\ pipe' = [pipe EXCEPT ![a] = IF Open(a) THEN "receipt" ELSE "over"]
    /\ abandons' = IF Open(a) THEN abandons ELSE abandons \cup {a}
    /\ UNCHANGED <<manager, bereft, try, wait, runtime, fate>>

(* The owner is gone, or ten seconds have passed.  An answer may come just  *)
(* before the receiver is closed; the error that the owner gets all the     *)
(* same ends the start, perhaps before the receipt is called off.           *)
GivesUpOn(a) ==
    /\ pipe[a] \in {"bridge", "answered"}
    /\ pipe' = [pipe EXCEPT ![a] = IF Open(a) THEN "error" ELSE "over"]
    /\ bereft' = IF pipe[a] = "answered" /\ Open(a) THEN bereft \cup Packets({a}) ELSE bereft
    /\ UNCHANGED <<manager, try, wait, runtime, fate>>

Mut_BridgeLeaves(a) == GivesUpOn(a) /\ UNCHANGED abandons    \* the raced receipt is dropped

BridgeLeaves(a) ==
    /\ GivesUpOn(a)
    /\ abandons' = IF pipe[a] = "answered" THEN abandons \cup {a} ELSE abandons

(* abandon_backchannel_packet: the key takes the place of a reservation of  *)
(* its Link, which may be that of another packet.                           *)
AbandonPacket(a) ==
    LET spare == {b \in Tries : starts[b] = "settled" /\ try[b].link = try[a].link}
    IN  /\ a \in abandons /\ try[a].kind = "packet"
        /\ spare # {} \/ a \in calledOff \cup earlyHandles \/ Reserved < Limit
        /\ Cardinality(calledOff \cup {a}) <= Limit
        /\ IF spare = {} \/ a \in calledOff THEN UNCHANGED <<starts, bereft>>
           ELSE \E b \in spare : /\ starts' = StartsWithout(b)
                                 /\ bereft' = bereft \cup ({b} \ {a})
        /\ calledOff' = calledOff \cup {a} /\ earlyHandles' = earlyHandles \ {a}
        /\ send' = Recalled({a} \cap earlyHandles)
        /\ abandons' = abandons \ {a}
        /\ UNCHANGED <<owner, deliveries, handles, early, resourceCancels, unlisted, pipe, try,
                       wait, shut, fate>>

AbandonResource(a) ==
    /\ a \in abandons /\ try[a].kind = "resource"
    /\ abandons' = abandons \ {a} /\ resourceCancels' = resourceCancels \cup {a}
    /\ UNCHANGED <<owner, starts, deliveries, handles, early, earlyHandles, calledOff, unlisted,
                   bereft, pipe, try, wait, runtime, fate>>

CancelResource(a) ==
    /\ a \in resourceCancels /\ resourceCancels' = resourceCancels \ {a}
    /\ send' = [send EXCEPT ![a] = IF @ = "out" THEN "cancelled" ELSE @]
    /\ UNCHANGED <<owner, starts, deliveries, handles, early, earlyHandles, calledOff, unlisted,
                   handover, pipe, try, wait, shut, fate>>

-----------------------------------------------------------------------------
(* The runtime that owns the Links, and its peer.                           *)

Sends(a, from, to) ==
    /\ send[a] \in from /\ send' = [send EXCEPT ![a] = to]
    /\ UNCHANGED <<manager, handover, pipe, try, wait, shut, fate>>

(* SendLinkPayload.  When its answer cannot be published it is called off.  *)
RuntimeAnswers(a) ==
    /\ send[a] = "asked"
    /\ \/ /\ pipe[a] = "bridge" /\ try[a].link \notin shut
          /\ send' = [send EXCEPT ![a] = IF try[a].kind = "packet" THEN "staged" ELSE "out"]
          /\ pipe' = [pipe EXCEPT ![a] = "answered"]
       \/ /\ pipe[a] = "bridge"
          /\ send' = [send EXCEPT ![a] = "ended"]
          /\ pipe' = [pipe EXCEPT ![a] = IF Open(a) THEN "error" ELSE "over"]
       \/ /\ pipe[a] # "bridge"
          /\ send' = [send EXCEPT ![a] = "cancelled"] /\ pipe' = pipe
    /\ UNCHANGED <<manager, handover, try, wait, shut, fate>>

Admitted(a) == Sends(a, {"staged"}, "out")
PeerProves(a) == Sends(a, {"out"}, "proven")
PeerRejects(a) == try[a].kind = "resource" /\ Sends(a, {"out"}, "rejected")
TransferFails(a) == try[a].kind = "resource" /\ Sends(a, {"out"}, "lost")

Closes(l) ==
    /\ l \notin shut /\ shut' = shut \cup {l}
    /\ send' = [a \in Tries |-> IF try[a].link = l /\ send[a] \in {"staged", "out"}
                                THEN "ended" ELSE send[a]]
    /\ UNCHANGED <<manager, handover, pipe, try, wait, fate>>

BackNext ==
    \/ CommandsFull
    \/ \E l \in PeerLinks : Register(l) \/ FailLink(l) \/ Closes(l)
    \/ \E m \in Letters : \/ FailStart(m) \/ FailDelivery(m)
                          \/ CancelStart(m) \/ CancelDelivery(m)
    \/ \E a \in Tries :
          \/ StartBackchannel(a) \/ VisitStart(a) \/ DeliveryTimesOut(a) \/ AgesOut(a)
          \/ ReadProof(a) \/ ReadConclusion(a) \/ ReadWait(a)
          \/ Dispatch(a) \/ Forward(a) \/ BridgeLeaves(a)
          \/ AbandonPacket(a) \/ AbandonResource(a) \/ CancelResource(a)
          \/ RuntimeAnswers(a) \/ Admitted(a) \/ PeerProves(a) \/ PeerRejects(a)
          \/ TransferFails(a)

BackSpec == BackInit /\ [][BackNext]_backVars

-----------------------------------------------------------------------------
(* Properties.                                                              *)

(* Type invariant.                                                          *)
BackTypeOK ==
    /\ owner \in PeerLinks \cup {NoLink} /\ starts \in [Tries -> StartState]
    /\ deliveries \subseteq Tries /\ handles \subseteq deliveries
    /\ early \in [Tries -> {"none", "proof", "rejected", "failed"}]
    /\ earlyHandles \subseteq Tries /\ calledOff \subseteq Tries
    /\ resourceCancels \subseteq Tries /\ unlisted \subseteq Tries
    /\ abandons \subseteq Tries /\ bereft \subseteq Tries
    /\ pipe \in [Tries -> Pipe] /\ send \in [Tries -> Sent]
    /\ try \in [Tries -> [msg: Letters, link: PeerLinks \cup {NoLink}, kind: Kind]]
    /\ wait \in [Tries -> {"unread", "kept", "vain"}] /\ shut \subseteq PeerLinks
    /\ fate \in [Tries -> Fate]

(* An attempt is settled once, and complete only when the peer has proved   *)
(* it, although receipts and proofs come in any order and starts outlive    *)
(* their messages.                                                          *)
BackPromise == INSTANCE Settlement
    WITH Copies <- Tries,
         outcome <- [a \in Tries |-> IF fate[a] = "cut" THEN "failed" ELSE fate[a]],
         received <- {a \in Tries : send[a] \in {"proven", "acked"}}
ImplementsBackSettlement == BackPromise!SettlementSpec

(* What the runtime still sends although its message is settled is known by *)
(* its exact name to somebody who will call it off: the bridge, its queues, *)
(* or the cancelled keys (api/README.md:51-58); and a packet can be called  *)
(* off: its handle is still to come, or is held.  There are two exceptions. *)
(* A packet may find the table of cancelled keys full: see RoomReserved.    *)
(* And its handle may have come, and been dropped unused, when no start of  *)
(* its Link was left (3958-3984): the bridge's error had removed its start  *)
(* before the receipt that raced the bridge's timeout was called off        *)
(* (3531-3549), or its reservation went to another packet (4627-4653).      *)
Sending(a) == send[a] = "staged" \/ (send[a] = "out" /\ try[a].kind = "resource")

Callable(a) ==
    try[a].kind = "packet" => wait[a] = "unread" \/ a \in earlyHandles

NoOrphan ==
    \A a \in Tries : Sending(a) /\ fate[a] # "open" =>
        \/ a \in unlisted
        \/ /\ pipe[a] = "answered" \/ a \in abandons \cup resourceCancels \cup calledOff
           /\ Callable(a) \/ (wait[a] = "vain" /\ a \in bereft)

(* "Reserve reconciliation space before a runtime command can exist"        *)
(* (link_delivery.rs:1361): what has to be called off always fits the table *)
(* of cancelled keys.  It does not: a key whose handle came early is put    *)
(* there without a reservation of its own (4655-4663).                      *)
RoomReserved == unlisted = {}

(* A proof that was read before the receipt, and is still remembered (the   *)
(* full table or age may forget it), is not lost when the Link closes:      *)
(* "authenticated settlement event already observed on another      *)
(* adapter channel must be allowed to meet its exact receipt"               *)
(* (link_delivery.rs:1194).                                                 *)
ProofMeetsReceipt ==
    [][\A a \in Tries : early[a] = "proof" /\ fate'[a] = "cut" => fate[a] = "cut"]_backVars
=============================================================================
