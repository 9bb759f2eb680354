--------------------------- MODULE RouterOutbound ---------------------------
(***************************************************************************)
(* Outbound messages: LxmRouter (crates/lxmf-core/src/router.rs) and the   *)
(* tick of lxmd that drives it (crates/lxmf-tools/src/commands/lxmd.rs).   *)
(*                                                                         *)
(* A submitted message waits for its stamp (deferred), is queued (pending),*)
(* was sent as a packet and awaits its proof (flight), or was handed to    *)
(* the link manager (a copy in links).  A Direct message stays queued      *)
(* while copies of it are on the Link.                                     *)
(*                                                                         *)
(* One task owns all of this and phase is its place in tick().  What other *)
(* tasks do (a proof, the end of a worker, an announce) reaches it through *)
(* channels that one step of tick() reads, so that between two ticks is    *)
(* soon enough for it.  The link manager is the one of Settlement: a copy  *)
(* it accepts is reported once.  Time is abstracted: an entry is due or    *)
(* expired whenever it is visited.                                         *)
(***************************************************************************)
EXTENDS Naturals, Sequences, FiniteSets, SequencesExt

CONSTANTS
    Messages, None,
    MethodsOf,         \* the methods a message may be sent with
    MaxAttempts,       \* MAX_DELIVERY_ATTEMPTS
    MaxSubmits,        \* bound: submissions
    MaxCopies,         \* bound: copies in the link manager
    MaxNews            \* bound: announces that change the recipient's key or the node's cost

Method == {"Direct", "Propagated", "Opportunistic", "Large"}

ASSUME OutboundAssumption ==
    /\ None \notin Messages /\ None \notin Nat
    /\ MethodsOf \in [Messages -> SUBSET Method]
    /\ MaxAttempts \in Nat \ {0} /\ MaxSubmits \in Nat /\ MaxCopies \in Nat
    /\ MaxNews \in Nat

VARIABLES
    phase,             \* where tick() is
    method,            \* of each message; Large: Opportunistic, more than a packet holds
    pending,           \* pending_outbound
    at, left, seen,    \* the entry tick() is at, how many are left, the Link it saw
    deferred, order,   \* pending_deferred_stamps, deferred_stamp_order
    job, search,       \* active_deferred_stamp, and what its worker has sent
    flight, proofs,    \* opportunistic_in_flight, delivery proofs not yet read
    links,             \* copies in the link manager
    worker, envelope,  \* pending_propagation_envelopes, propagation_envelopes
    key, cost,         \* the recipient's latest ratchet, the node's stamp cost
    failure,           \* last_delivery_failure is set
    shot               \* the one-shot command

VARIABLES              \* history
    outcome,           \* what became of each message
    submits, sent,     \* submissions; messages sent since their last submission
    stray,             \* messages that ended while a copy was on a Link
    since,             \* the submission that deferred a message, 0 once it is not
    encryptions,       \* how often the message was encrypted for the node
    deposited,         \* the encryptions of it that were deposited
    requoted           \* a stamp under way was given up because the cost changed

queue == <<pending, at, left, seen>>
stamps == <<deferred, order, job, search, since>>
packets == <<flight, proofs>>
envelopes == <<worker, envelope, key, cost, encryptions, deposited, requoted>>
ends == <<outcome, stray>>
counts == <<submits, sent>>
vars == <<phase, method, queue, stamps, packets, links, envelopes, failure, shot, ends, counts>>

Attempts == 0 .. MaxAttempts + 1
Entry == [msg: Messages, att: Attempts]                 \* LxMessage, its delivery_attempts
Copy == [msg: Messages, att: Attempts, via: {"Direct", "Deposit"}, id: 1..MaxCopies]
Envelope == [key: Nat, cost: Nat, n: Nat]               \* n: which encryption it is
Worker == [key: Nat, cost: Nat, n: Nat, result: {"working", "ok", "bad"}]

ASSUME NoneOutside == None \notin Envelope \cup Worker \cup {"found", "dead"}

Init ==
    /\ phase = "idle" /\ failure = FALSE /\ shot \in {"daemon", "ready"}
    /\ method \in [Messages -> Method] /\ \A m \in Messages : method[m] \in MethodsOf[m]
    /\ pending = <<>> /\ at = 1 /\ left = 0 /\ seen = "none"
    /\ deferred = {} /\ order = <<>> /\ job = None /\ search = None
    /\ since = [m \in Messages |-> 0]
    /\ flight = [m \in Messages |-> None] /\ proofs = {}
    /\ links = {}
    /\ worker = [m \in Messages |-> None] /\ envelope = [m \in Messages |-> None]
    /\ key = 1 /\ cost = 1
    /\ encryptions = [m \in Messages |-> 0] /\ deposited = [m \in Messages |-> {}]
    /\ requoted = {}
    /\ outcome = [m \in Messages |-> "new"] /\ stray = {}
    /\ submits = 0 /\ sent = {}

-----------------------------------------------------------------------------
Queued(m) == {i \in DOMAIN pending : pending[i].msg = m}
CopiesOf(m) == {c \in links : c.msg = m}
Without(s, m) ==                   \* m is in it at most once
    LET found == {i \in DOMAIN s : s[i] = m}
    IN  IF found = {} THEN s ELSE RemoveAt(s, Min(found))
New(m, att) == [msg |-> m, att |-> att]

(* m ends.  A copy of it that is still on a Link may bring it back.         *)
Ended(m, how, copies) ==
    /\ outcome' = IF outcome[m] = "open" THEN [outcome EXCEPT ![m] = how] ELSE outcome
    /\ stray' = IF \E c \in copies : c.msg = m THEN stray \cup {m} ELSE stray

Ends(m, how) == Ended(m, how, links)

Forget(m) ==
    /\ worker' = [worker EXCEPT ![m] = None]
    /\ envelope' = [envelope EXCEPT ![m] = None]

Forgets(m) == Forget(m) /\ UNCHANGED <<key, cost, encryptions, deposited, requoted>>

-----------------------------------------------------------------------------
(* submit_signed: defer_stamp where a stamp is due, try_send otherwise.     *)

Mut_Defer(m) ==                    \* its stale identifier stays in the order
    /\ deferred' = deferred \cup {m}
    /\ order' = Append(order, m)
    /\ since' = [since EXCEPT ![m] = submits + 1]
    /\ UNCHANGED <<job, search, pending>>

Defer(m) ==
    /\ deferred' = deferred \cup {m}
    /\ order' = Append(Without(order, m), m)
    /\ since' = [since EXCEPT ![m] = submits + 1]
    /\ UNCHANGED <<job, search, pending>>

TrySend(m) ==
    /\ pending' = Append(pending, New(m, 0))
    /\ UNCHANGED stamps

(* The message was sent before and is over: restore_signed.                 *)
Submit(m) ==
    /\ phase = "idle" /\ shot \in {"daemon", "ready"}
    /\ outcome[m] # "open" /\ submits < MaxSubmits
    /\ m \notin deferred /\ Queued(m) = {}
    /\ Defer(m) \/ TrySend(m)
    /\ outcome' = [outcome EXCEPT ![m] = "open"]
    /\ submits' = submits + 1 /\ sent' = sent \ {m}
    /\ deposited' = [deposited EXCEPT ![m] = {}] /\ requoted' = requoted \ {m}
    /\ shot' = IF shot = "ready" THEN "draining" ELSE shot
    /\ UNCHANGED <<phase, method, at, left, seen, packets, links, worker, envelope, key, cost,
                   encryptions, failure, stray>>

(* cancel_outbound, and the Link's copy that its caller has to cancel.      *)
CancelQueued(m) ==
    /\ \E i \in Queued(m) : pending' = RemoveAt(pending, i)
    /\ UNCHANGED stamps

CancelDeferred(m) ==
    /\ Queued(m) = {} /\ m \in deferred
    /\ deferred' = deferred \ {m} /\ since' = [since EXCEPT ![m] = 0]
    /\ IF job = m THEN job' = None /\ search' = None ELSE UNCHANGED <<job, search>>
    /\ UNCHANGED <<pending, order>>

Cancel(m) ==
    /\ phase = "idle" /\ shot = "daemon" /\ outcome[m] = "open"
    /\ CancelQueued(m) \/ CancelDeferred(m)
    /\ IF CopiesOf(m) = {} THEN links' = links
       ELSE \E c \in CopiesOf(m) : links' = links \ {c}
    /\ Ended(m, "cancelled", links')
    /\ UNCHANGED <<phase, method, at, left, seen, packets, envelopes, failure, shot, counts>>

-----------------------------------------------------------------------------
(* tick(), first the packets: drain_destination_delivery_proofs.            *)
DrainProofs ==
    LET proved == {m \in proofs : flight[m] # None}
    IN  /\ phase = "idle" /\ shot \notin {"success", "failed"}
        /\ phase' = "retry" /\ proofs' = {}
        /\ flight' = [m \in Messages |-> IF m \in proved THEN None ELSE flight[m]]
        /\ outcome' = [m \in Messages |-> IF m \in proved /\ outcome[m] = "open"
                                          THEN "delivered" ELSE outcome[m]]
        /\ UNCHANGED <<method, queue, stamps, links, envelopes, failure, shot, stray, counts>>

(* retry_due_opportunistic_deliveries                                       *)
RetryDue(m) ==
    /\ phase = "retry" /\ flight[m] # None
    /\ pending' = Append(pending, New(m, flight[m]))
    /\ flight' = [flight EXCEPT ![m] = None]
    /\ UNCHANGED <<phase, method, at, left, seen, stamps, proofs, links, envelopes, failure, shot,
                   ends, counts>>

(* process_deferred_stamps: poll_active_deferred_stamp, then the oldest     *)
(* message that still waits (next_deferred_stamp).  A search that ends      *)
(* without a stamp takes its message along.                                 *)
Polled(result) == IF job \in deferred /\ search = result THEN {job} ELSE {}
Waiting == deferred \ (Polled("found") \cup Polled("dead"))
LiveAt == {i \in DOMAIN order : order[i] \in Waiting}
Oldest == IF LiveAt = {} THEN None ELSE order[Min(LiveAt)]
DropStale == IF LiveAt = {} THEN <<>> ELSE SubSeq(order, Min(LiveAt), Len(order))

(* What direct_reusable_link_state may say with these copies on Links: a    *)
(* Link is only free with one under way when it went stale.                 *)
LinkSeen == IF \E c \in links : c.via = "Direct" THEN {"pending", "closed", "active"}
            ELSE {"none", "closed", "active"}

ProcessStamps ==
    /\ phase = "retry" /\ phase' = "outbound"
    /\ deferred' = Waiting
    /\ since' = [m \in Messages |-> IF m \in Waiting THEN since[m] ELSE 0]
    /\ pending' = IF Polled("found") = {} THEN pending ELSE Append(pending, New(job, 0))
    /\ IF job # None /\ search = None THEN UNCHANGED <<order, job, search>>
       ELSE order' = DropStale /\ job' = Oldest /\ search' = None
    /\ outcome' = [m \in Messages |-> IF m \in Polled("dead") THEN "dropped" ELSE outcome[m]]
    /\ at' = 1 /\ left' = Len(pending') /\ seen' \in LinkSeen
    /\ UNCHANGED <<method, packets, links, envelopes, failure, shot, stray, counts>>

-----------------------------------------------------------------------------
(* tick(), the queue: process_outbound_with_direct and the actions it       *)
(* returns (execute_encrypted_actions), one entry after the other.          *)

Visits(m, att) ==
    /\ phase = "outbound" /\ left > 0 /\ left' = left - 1
    /\ pending[at] = New(m, att)
    /\ UNCHANGED <<phase, method, seen, stamps, proofs, shot, submits>>

Stays(att) == pending' = [pending EXCEPT ![at].att = att] /\ at' = at + 1
Leaves == pending' = RemoveAt(pending, at) /\ at' = at
Requeued(m, att) == pending' = Append(RemoveAt(pending, at), New(m, att)) /\ at' = at

(* The link manager accepts the message (start_delivery and its kin).       *)
Starts(m, att, via) ==
    \E id \in 1..MaxCopies :
        /\ id = Min({i \in 1..MaxCopies : \A c \in links : c.id # i})
        /\ links' = links \cup {[msg |-> m, att |-> att, via |-> via, id |-> id]}
Room == Cardinality(links) < MaxCopies

(* Too many attempts, or too old.                                           *)
GivesUp(m, att) ==
    /\ Visits(m, att)
    /\ \/ att > MaxAttempts /\ Ends(m, "failed")
       \/ att <= MaxAttempts /\ Ends(m, "expired")
    /\ Leaves /\ Forgets(m) /\ failure' = TRUE
    /\ UNCHANGED <<flight, links, sent>>

(* Its time has not come; a Direct message is visited earlier when there is *)
(* a Link to its recipient.                                                 *)
NotDue(m, att) ==
    /\ Visits(m, att) /\ att <= MaxAttempts
    /\ method[m] = "Direct" => seen = "none"
    /\ Stays(att)
    /\ UNCHANGED <<flight, links, envelopes, failure, ends, sent>>

(* plan_direct_delivery                                                     *)
DirectOnLink(m, att) ==
    /\ seen = "active"
    /\ Stays(att)
    /\ \/ Room /\ Starts(m, att, "Direct")
       \/ links' = links

DirectWaits(att) == seen \in {"pending", "closed"} /\ Stays(att) /\ links' = links

DirectNewLink(m, att) ==
    /\ seen = "none" /\ att < MaxAttempts
    /\ Stays(att + 1)
    /\ \/ att + 1 < MaxAttempts /\ Room /\ Starts(m, att + 1, "Direct")
       \/ links' = links

DirectOutOfBudget(att) ==
    seen = "none" /\ att = MaxAttempts /\ Stays(att + 1) /\ links' = links

Direct(m, att) ==
    /\ Visits(m, att) /\ method[m] = "Direct" /\ att <= MaxAttempts
    /\ \/ DirectOnLink(m, att)
       \/ DirectWaits(att)
       \/ DirectNewLink(m, att)
       \/ DirectOutOfBudget(att)
    /\ UNCHANGED <<flight, envelopes, failure, ends, sent>>

(* An Opportunistic message: the recipient's key is unknown, the transport  *)
(* takes the packet, or it is full.                                         *)
Packet(m, att) ==
    /\ Visits(m, att) /\ method[m] = "Opportunistic" /\ att <= MaxAttempts
    /\ \/ Requeued(m, att + 1) /\ UNCHANGED <<flight, sent>>
       \/ /\ Leaves
          /\ flight' = [flight EXCEPT ![m] = att + 1]
          /\ sent' = sent \cup {m}
    /\ UNCHANGED <<links, envelopes, failure, ends>>

(* ... that does not fit goes to the link manager, which may not take it.   *)
LargePacket(m, att) ==
    /\ Visits(m, att) /\ method[m] = "Large" /\ att <= MaxAttempts
    /\ \/ Requeued(m, att + 1) /\ UNCHANGED <<links, sent>>
       \/ /\ att + 1 < MaxAttempts /\ Room
          /\ Leaves /\ Starts(m, att + 1, "Direct")
          /\ sent' = sent \cup {m}
    /\ UNCHANGED <<flight, envelopes, failure, ends>>

(* pack_message_for_propagation.  The worker's result counts only while the *)
(* recipient's key and the node's cost are those it was started for.        *)
Current(m) == worker[m] # None /\ worker[m].key = key /\ worker[m].cost = cost
Made(m) == [key |-> worker[m].key, cost |-> worker[m].cost, n |-> worker[m].n]
Mut_Matching(m) ==                 \* an envelope with too cheap a stamp is not reused
    envelope[m] # None /\ envelope[m].key = key /\ envelope[m].cost >= cost

Matching(m) == envelope[m] # None /\ envelope[m].key = key
Fits(m) == Matching(m) /\ envelope[m].cost >= cost

Deposits(m, att, e) ==
    /\ worker' = [worker EXCEPT ![m] = None] /\ envelope' = [envelope EXCEPT ![m] = e]
    /\ UNCHANGED <<key, cost, encryptions, requoted>>
    /\ \/ Requeued(m, att + 1) /\ UNCHANGED <<links, sent, deposited>>
       \/ /\ att + 1 < MaxAttempts /\ Room
          /\ Leaves /\ Starts(m, att + 1, "Deposit")
          /\ sent' = sent \cup {m}
          /\ deposited' = [deposited EXCEPT ![m] = @ \cup {[key |-> e.key, n |-> e.n]}]
    /\ UNCHANGED <<failure, ends>>

ReadyEnvelope(m, att) ==
    \/ Current(m) /\ worker[m].result = "ok" /\ Deposits(m, att, Made(m))
    \/ worker[m] = None /\ Fits(m) /\ Deposits(m, att, envelope[m])

(* Preparation in a worker: the earlier ciphertext gets another stamp, or   *)
(* the message is encrypted anew.                                           *)
Prepares(m, att) ==
    LET n == IF Matching(m) THEN envelope[m].n ELSE encryptions[m] + 1
    IN  /\ ~Current(m) /\ ~(worker[m] = None /\ Fits(m))
        /\ Requeued(m, att)
        /\ requoted' = IF worker[m] # None /\ worker[m].key = key THEN requoted \cup {m}
                       ELSE requoted
        /\ \/ /\ worker' = [worker EXCEPT ![m] = [key |-> key, cost |-> cost, n |-> n,
                                                   result |-> "working"]]
              /\ envelope' = [envelope EXCEPT ![m] = None]
              /\ encryptions' = [encryptions EXCEPT ![m] = IF Matching(m) THEN @ ELSE @ + 1]
           \/ /\ worker' = [worker EXCEPT ![m] = None]          \* every slot is taken
              /\ UNCHANGED <<envelope, encryptions>>
        /\ UNCHANGED <<key, cost, deposited, failure, ends, links, sent>>

StillWorking(m, att) ==
    /\ Current(m) /\ worker[m].result = "working"
    /\ Requeued(m, att)
    /\ UNCHANGED <<envelopes, failure, ends, links, sent>>

Invalid(m) ==
    /\ Current(m) /\ worker[m].result = "bad"
    /\ Leaves /\ Ends(m, "failed") /\ Forgets(m) /\ failure' = TRUE
    /\ UNCHANGED <<links, sent>>

NotReady(m, att) ==
    Requeued(m, att + 1) /\ UNCHANGED <<envelopes, failure, ends, links, sent>>

Propagated(m, att) ==
    /\ Visits(m, att) /\ method[m] = "Propagated" /\ att <= MaxAttempts
    /\ \/ NotReady(m, att)
       \/ StillWorking(m, att)
       \/ Invalid(m)
       \/ Prepares(m, att)
       \/ ReadyEnvelope(m, att)
    /\ UNCHANGED flight

-----------------------------------------------------------------------------
(* tick(), the Links: handle_link_delivery_result for what the link manager *)
(* reports of the copy c.                                                   *)

Reports(c) ==
    /\ phase = "links" /\ c \in links /\ links' = links \ {c}
    /\ UNCHANGED <<phase, method, at, left, seen, stamps, packets, shot, counts>>

Dequeued(m) == IF Queued(m) = {} THEN pending ELSE RemoveAt(pending, Min(Queued(m)))

LinkComplete(c) ==
    /\ Reports(c) /\ Forgets(c.msg)
    /\ pending' = Dequeued(c.msg)
    /\ Ended(c.msg, IF Queued(c.msg) = {} THEN "proved" ELSE "delivered", links \ {c})
    /\ UNCHANGED failure

(* It was refused, or failed for good.                                      *)
LinkRefused(c) ==
    /\ Reports(c) /\ Forgets(c.msg)
    /\ pending' = Dequeued(c.msg)
    /\ Ended(c.msg, "failed", links \ {c})
    /\ failure' = TRUE

(* requeue_after_path_request, unless the router still holds the message.   *)
Mut_LinkFailed(c) ==               \* although the router still holds the message
    /\ Reports(c)
    /\ pending' = Append(pending, New(c.msg, c.att))
    /\ UNCHANGED <<envelopes, failure, ends>>

LinkFailed(c) ==
    /\ Reports(c)
    /\ pending' = IF Queued(c.msg) = {} THEN Append(pending, New(c.msg, c.att)) ELSE pending
    /\ UNCHANGED <<envelopes, failure, ends>>

EndOutbound ==
    /\ phase = "outbound" /\ left = 0 /\ phase' = "links"
    /\ at' = 1 /\ seen' = "none"
    /\ UNCHANGED <<method, pending, left, stamps, packets, links, envelopes, failure, shot, ends, counts>>

(* The end of tick(), and what the one-shot command makes of it: it waits   *)
(* for the queues, then for the Links, each for some time.                  *)
Drained == pending = <<>> /\ deferred = {} /\ \A m \in Messages : flight[m] = None
Verdict == IF failure THEN "failed" ELSE "success"

EndTick ==
    /\ phase = "links" /\ phase' = "idle"
    /\ \/ shot = "draining" /\ Drained /\ shot' = IF links = {} THEN Verdict ELSE "waiting"
       \/ shot = "waiting" /\ links = {} /\ shot' = Verdict
       \/ shot \in {"draining", "waiting"} /\ shot' = "failed"            \* out of time
       \/ /\ ~(shot = "draining" /\ Drained) /\ ~(shot = "waiting" /\ links = {})
          /\ shot' = shot
    /\ UNCHANGED <<method, queue, stamps, packets, links, envelopes, failure, ends, counts>>

-----------------------------------------------------------------------------
(* Between two ticks: a proof, a stamp or its worker's end, an envelope or  *)
(* none, an announce.                                                       *)

ProofArrives(m) ==
    /\ phase = "idle" /\ method[m] = "Opportunistic" /\ m \in sent
    /\ proofs' = proofs \cup {m}
    /\ UNCHANGED <<phase, method, queue, stamps, flight, links, envelopes, failure, shot, ends,
                   counts>>

SearchEnds(result) ==
    /\ phase = "idle" /\ job # None /\ search = None /\ search' = result
    /\ UNCHANGED <<phase, method, queue, deferred, order, job, since, packets, links, envelopes,
                   failure, shot, ends, counts>>

WorkerEnds(m, result) ==
    /\ phase = "idle" /\ worker[m] # None /\ worker[m].result = "working"
    /\ worker' = [worker EXCEPT ![m].result = result]
    /\ UNCHANGED <<phase, method, queue, stamps, packets, links, envelope, key, cost, encryptions,
                   deposited, requoted, failure, shot, ends, counts>>

Announced ==
    /\ phase = "idle" /\ key + cost < MaxNews + 2
    /\ \/ key' = key + 1 /\ cost' = cost
       \/ cost' = cost + 1 /\ key' = key
    /\ UNCHANGED <<phase, method, queue, stamps, packets, links, worker, envelope, encryptions,
                   deposited, requoted, failure, shot, ends, counts>>

(* The one-shot command has ended.                                          *)
Over == shot \in {"success", "failed"} /\ UNCHANGED vars

Visit(m, att) ==
    \/ GivesUp(m, att) \/ NotDue(m, att) \/ Direct(m, att) \/ Packet(m, att)
    \/ LargePacket(m, att) \/ Propagated(m, att)

Tick ==
    \/ DrainProofs \/ ProcessStamps \/ EndOutbound \/ EndTick
    \/ \E m \in Messages, att \in Attempts : Visit(m, att)
    \/ \E c \in links : LinkComplete(c) \/ LinkRefused(c) \/ LinkFailed(c)

Next ==
    \/ Tick \/ Announced \/ Over
    \/ \E m \in Messages :
          \/ Submit(m) \/ Cancel(m) \/ RetryDue(m) \/ ProofArrives(m)
          \/ WorkerEnds(m, "ok") \/ WorkerEnds(m, "bad")
    \/ SearchEnds("found") \/ SearchEnds("dead")

Spec == Init /\ [][Next]_vars

-----------------------------------------------------------------------------
(* Properties.                                                              *)

TypeOK ==
    /\ phase \in {"idle", "retry", "outbound", "links"}
    /\ method \in [Messages -> Method]
    /\ pending \in Seq(Entry) /\ at \in 1 .. Len(pending) + 1 /\ left \in Nat
    /\ seen \in {"none", "active", "pending", "closed"}
    /\ deferred \subseteq Messages /\ order \in Seq(Messages)
    /\ since \in [Messages -> Nat]
    /\ job \in Messages \cup {None} /\ search \in {None, "found", "dead"}
    /\ flight \in [Messages -> Attempts \cup {None}] /\ proofs \subseteq Messages
    /\ links \subseteq Copy
    /\ worker \in [Messages -> Worker \cup {None}]
    /\ envelope \in [Messages -> Envelope \cup {None}]
    /\ key \in Nat /\ cost \in Nat /\ encryptions \in [Messages -> Nat]
    /\ deposited \in [Messages -> SUBSET [key: Nat, n: Nat]] /\ requoted \subseteq Messages
    /\ failure \in BOOLEAN
    /\ shot \in {"daemon", "ready", "draining", "waiting", "success", "failed"}
    /\ outcome \in [Messages -> {"new", "open", "delivered", "proved", "failed", "expired",
                                 "cancelled", "dropped"}]
    /\ stray \subseteq Messages
    /\ submits \in Nat /\ sent \subseteq Messages

(* A message that is not over is in one place: it waits for its stamp, is   *)
(* queued, awaits its proof, or belongs to the link manager; and one that   *)
(* is over is in none, but for a Direct message that ended with a copy on a *)
(* Link (defer_stamp, poll_active_deferred_stamp, process_outbound_with_    *)
(* direct and every hand-over of execute_encrypted_actions).                *)
Places(m) ==
    (IF m \in deferred THEN 1 ELSE 0) + Cardinality(Queued(m))
    + (IF flight[m] # None THEN 1 ELSE 0)
    + (IF method[m] # "Direct" THEN Cardinality(CopiesOf(m)) ELSE 0)

OneOwner ==
    \A m \in Messages \ stray :
        /\ Places(m) = IF outcome[m] = "open" THEN 1 ELSE 0
        /\ outcome[m] # "open" => CopiesOf(m) = {}

(* The stamp that is searched is the one of the message that has waited     *)
(* longest ("the oldest deferred message", next_deferred_stamp), also after *)
(* cancels and resubmissions left stale identifiers in the order.           *)
StampsInOrder == job \in deferred => \A m \in deferred : since[job] <= since[m]

(* While the recipient's key is the same, a message is deposited with the   *)
(* same ciphertext and so with one transient ID ("Ciphertext and transient  *)
(* ID stay fixed", propagation_send.rs), unless the cost changed while its  *)
(* worker had the ciphertext.                                               *)
SameCiphertext ==
    \A m \in Messages \ (requoted \cup stray) :
        \A e, f \in deposited[m] : e.key = f.key => e.n = f.n

(* Success means that the queues have emptied: "do not confuse queue        *)
(* acceptance with delivery ... both ownership sets must converge before    *)
(* the command can report success" (lxmd.rs:6362).                          *)
SuccessConverged == shot = "success" => Drained /\ links = {}
=============================================================================
