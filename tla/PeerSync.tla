------------------------------ MODULE PeerSync ------------------------------
(* How a relay offers its store to its peers: the scheduling of attempts by *)
(* lxmd, the one PropagationSyncTask with its two blocking workers, the     *)
(* peers of the router and their files, while the store grows, is culled    *)
(* and peers announce new terms, are dropped and rotated (propagation_sync, *)
(* propagation_node, peer, router, lxmd).                                   *)
EXTENDS Naturals, FiniteSets

CONSTANTS
    Nodes,              \* propagation nodes that may become peers
    Mail,               \* transient IDs
    Terms,              \* what a node may announce: [refuse, room], see below
    NoNode,             \* neither a node, nor terms, nor a job
    MaxGeneration,      \* bound: revisions of the store
    MaxRestarts         \* bound: crashes of the daemon

(* refuse: the IDs whose stamp or size the node does not take; room: how    *)
(* many fit in one sync (propagation_sync_limit).                           *)
ASSUME TermsAreTerms ==
    /\ Terms \subseteq [refuse: SUBSET Mail, room: Nat]
    /\ MaxGeneration \in Nat /\ MaxRestarts \in Nat

Trying == {"Establishing", "Offering", "AwaitingResponse", "Transferring"}
Finished == {"Complete", "Failed"}

(* A peer, the job of the offer and what its worker makes of it, a batch of *)
(* messages that is read and sent, and the task that owns them.             *)
Peer == [terms: Terms, handled: SUBSET Mail, processed: Nat, busy: BOOLEAN]
OfferOut == [take: SUBSET Mail, refuse: SUBSET Mail, all: BOOLEAN]
OfferJob == [gen: Nat, ids: SUBSET Mail, out: OfferOut \cup {NoNode}]
Batch == [want: SUBSET Mail, plan: SUBSET Mail, got: (SUBSET Mail) \cup {NoNode}]
Task ==
    [state: Trying \cup Finished \cup {"Idle"}, with: Nodes \cup {NoNode},
     terms: Terms \cup {NoNode}, seen: SUBSET Mail, bind: BOOLEAN, closed: BOOLEAN,
     job: OfferJob \cup {NoNode}, offered: SUBSET Mail, batch: Batch \cup {NoNode},
     sending: SUBSET Mail, updates: SUBSET Mail, upTo: Nat, exhausted: BOOLEAN]

ASSUME NoNodeAssumption ==
    NoNode \notin Nodes \cup Terms \cup Peer \cup OfferJob \cup Batch \cup Task

VARIABLES
    shelf,              \* IDs the relay holds and may offer
    generation,         \* offer_generation()
    shelvedAt,          \* the generation of the deposit of an ID that is held
    peers,              \* router.peers: a record, or NoNode
    peerFile,           \* <hash>.peer: what a restart loads, or NoNode
    pendingSyncs,       \* pending_peer_syncs
    task,               \* the PropagationSyncTask
    drained,            \* drain_events() has run and tick() has not
    credits,            \* deposits of peers that lxmd has yet to account
    restarts,
    confirmed,          \* history: what a node said it has, gave us, or proved
    unwanted            \* history: what a node's terms refused at some time

peerVars == <<shelf, generation, shelvedAt, peers, peerFile, pendingSyncs, task,
              drained, credits, restarts, confirmed, unwanted>>

storeVars == <<shelf, generation, shelvedAt>>
peerState == <<peers, peerFile>>
historyVars == <<confirmed, unwanted>>

NewPeer(terms) == [terms |-> terms, handled |-> {}, processed |-> 0, busy |-> FALSE]
Known == {n \in Nodes : peers[n] # NoNode}

IdleTask(n) ==
    [state |-> "Idle", with |-> n, terms |-> NoNode, seen |-> {}, bind |-> FALSE,
     closed |-> FALSE, job |-> NoNode, offered |-> {}, batch |-> NoNode, sending |-> {},
     updates |-> {}, upTo |-> 0, exhausted |-> FALSE]

(* save_peer(): the handled IDs and the terms go to the file; a write that  *)
(* fails is logged and leaves the old file.                                 *)
Saved(p) == [terms |-> p.terms, handled |-> p.handled]
SaveOf(n, after) ==
    \/ peerFile' = [peerFile EXCEPT ![n] = Saved(after[n])]
    \/ UNCHANGED peerFile

PeerInit ==
    /\ shelf = {} /\ generation = 0 /\ shelvedAt = [m \in Mail |-> 0]
    /\ peers = [n \in Nodes |-> NoNode] /\ peerFile = [n \in Nodes |-> NoNode]
    /\ pendingSyncs = {} /\ task = IdleTask(NoNode) /\ drained = FALSE /\ credits = {}
    /\ restarts = 0
    /\ confirmed = [n \in Nodes |-> {}] /\ unwanted = [n \in Nodes |-> {}]
-----------------------------------------------------------------------------
(* The store moves on under the task: commit_persisted_message() and the    *)
(* retirement of an object each make a new generation.                      *)
Shelve(m) ==
    /\ m \notin shelf /\ generation < MaxGeneration
    /\ shelf' = shelf \cup {m} /\ generation' = generation + 1
    /\ shelvedAt' = [shelvedAt EXCEPT ![m] = generation + 1]

ClientDeposits(m) ==
    /\ Shelve(m)
    /\ UNCHANGED <<peerState, pendingSyncs, task, drained, credits, restarts,
                   historyVars>>

PeerDeposits(n, m) ==
    /\ n \in Known /\ Shelve(m)
    /\ credits' = credits \cup {<<n, m>>}
    /\ confirmed' = [confirmed EXCEPT ![n] = @ \cup {m}]
    /\ UNCHANGED <<peerState, pendingSyncs, task, drained, restarts, unwanted>>

(* A deposit a peer made is one it need not be offered                      *)
(* (apply_propagation_store_commit).                                        *)
Credit(n, m) ==
    /\ ~drained /\ <<n, m>> \in credits
    /\ credits' = credits \ {<<n, m>>}
    /\ IF n \in Known
       THEN peers' = [peers EXCEPT ![n].handled = @ \cup {m}] /\ SaveOf(n, peers')
       ELSE UNCHANGED peerState
    /\ UNCHANGED <<storeVars, pendingSyncs, task, drained, restarts, historyVars>>

(* A cull or purge by a worker, between any two steps of the daemon.        *)
Unshelve(m) ==
    /\ m \in shelf /\ generation < MaxGeneration
    /\ shelf' = shelf \ {m} /\ generation' = generation + 1
    /\ shelvedAt' = [shelvedAt EXCEPT ![m] = 0]
    /\ UNCHANGED <<peerState, pendingSyncs, task, drained, credits, restarts,
                   historyVars>>
-----------------------------------------------------------------------------
(* cancel_peer_sync(): the attempt of this node, and what it still had to   *)
(* say of it, are forgotten; so is its name.                                *)
Cancels(n) == task.with = n
Cancelled(n) == IF Cancels(n) THEN IdleTask(NoNode) ELSE task

(* An announce a node is not known by: autopeer() adds it.                  *)
Peered(n, terms) ==
    /\ ~drained /\ n \notin Known /\ terms \in Terms
    /\ peers' = [peers EXCEPT ![n] = NewPeer(terms)]
    /\ unwanted' = [unwanted EXCEPT ![n] = @ \cup terms.refuse]
    /\ SaveOf(n, peers')
    /\ UNCHANGED <<storeVars, pendingSyncs, task, drained, credits, restarts, confirmed>>

(* A newer announce of a peer: with other terms what was processed under    *)
(* the old ones no longer counts, an attempt under them is cancelled, and   *)
(* the peer is due at once.                                                 *)
Refreshed(n, terms) ==
    /\ ~drained /\ n \in Known /\ terms \in Terms /\ terms # peers[n].terms
    /\ peers' = [peers EXCEPT ![n] =
                    [peers[n] EXCEPT !.terms = terms, !.processed = 0,
                                     !.busy = @ /\ ~Cancels(n)]]
    /\ pendingSyncs' = IF Cancels(n) THEN pendingSyncs \cup {n} ELSE pendingSyncs
    /\ task' = Cancelled(n)
    /\ unwanted' = [unwanted EXCEPT ![n] = @ \cup terms.refuse]
    /\ SaveOf(n, peers')
    /\ UNCHANGED <<storeVars, drained, credits, restarts, confirmed>>

(* A peer leaves: the operator unpeers it, or an announce says that it is   *)
(* no longer a node, too far away or too expensive.                         *)
Dropped(n) ==
    /\ ~drained /\ n \in Known
    /\ peers' = [peers EXCEPT ![n] = NoNode]
    /\ pendingSyncs' = pendingSyncs \ {n}
    /\ task' = Cancelled(n)
    /\ \/ peerFile' = [peerFile EXCEPT ![n] = NoNode]
       \/ UNCHANGED peerFile
    /\ UNCHANGED <<storeVars, drained, credits, restarts, historyVars>>

(* rotate_peers(): an idle peer that accepts little is left out; neither    *)
(* the task nor the file is told.                                           *)
Mut_Rotatable(p) == TRUE
Rotatable(p) == ~p.busy
RotatedOut(n) ==
    /\ ~drained /\ n \in Known /\ Rotatable(peers[n])
    /\ peers' = [peers EXCEPT ![n] = NoNode]
    /\ UNCHANGED <<storeVars, peerFile, pendingSyncs, task, drained, credits, restarts,
                   historyVars>>
-----------------------------------------------------------------------------
(* queue_due_peer_syncs(): idle peers that have not processed this          *)
(* generation; the backoff of each and the preference for those that answer *)
(* make it any part of them.  The operator may ask for any peer.            *)
NeedsGeneration(p) == ~p.busy /\ generation > p.processed
QueueDue ==
    /\ ~drained
    /\ \E set \in SUBSET {n \in Known : NeedsGeneration(peers[n])} :
         set \notin {{}} /\ pendingSyncs' = pendingSyncs \cup set
    /\ UNCHANGED <<storeVars, peerState, task, drained, credits, restarts, historyVars>>

ControlSync(n) ==
    /\ ~drained /\ n \in Known \ pendingSyncs
    /\ pendingSyncs' = pendingSyncs \cup {n}
    /\ UNCHANGED <<storeVars, peerState, task, drained, credits, restarts, historyVars>>

(* start_sync(), with the peer's policy of now.                             *)
Started(n) ==
    [IdleTask(n) EXCEPT !.state = "Establishing", !.terms = peers[n].terms,
                        !.seen = peers[n].handled]

(* drive_pending_peer_syncs(): with the task idle one peer whose identity   *)
(* and key are at hand is tried, under a snapshot of its policy; where the  *)
(* Link request cannot be staged the task fails at once, behind the back of *)
(* the peer.  A peer that is gone is crossed out.                           *)
StartAttempt(n) ==
    /\ ~drained /\ task.state = "Idle" /\ n \in pendingSyncs
    /\ IF n \in Known
       THEN \/ /\ task' = Started(n)
               /\ peers' = [peers EXCEPT ![n].busy = TRUE]
               /\ pendingSyncs' = pendingSyncs \ {n}
            \/ /\ task' = [IdleTask(n) EXCEPT !.state = "Failed"]
               /\ UNCHANGED <<peers, pendingSyncs>>
       ELSE pendingSyncs' = pendingSyncs \ {n} /\ UNCHANGED <<peers, task>>
    /\ UNCHANGED <<storeVars, peerFile, drained, credits, restarts, historyVars>>

(* drain_peering_key_results(): no key of the cost was found; the peer has  *)
(* to wait for its backoff.                                                 *)
KeyNotFound(n) ==
    /\ ~drained /\ n \in Known \cap pendingSyncs
    /\ pendingSyncs' = pendingSyncs \ {n}
    /\ UNCHANGED <<storeVars, peerState, task, drained, credits, restarts, historyVars>>
-----------------------------------------------------------------------------
(* The workers own what they were given: the offer is chosen from the       *)
(* snapshot, the policy's handled IDs and those of the file as it is then.  *)
OfferOutcomes(work) ==
    LET open == work.ids \ (task.seen \cup IF peerFile[task.with] = NoNode THEN {}
                                          ELSE peerFile[task.with].handled)
        fit == open \ task.terms.refuse
    IN  {[take |-> take, refuse |-> open \cap task.terms.refuse,
          all |-> take = fit \/ take = {}] :
            take \in {s \in SUBSET fit :
                        \/ Cardinality(s) = task.terms.room /\ s # fit
                        \/ s = fit /\ Cardinality(s) <= task.terms.room}}

OfferWorker ==
    /\ task.job # NoNode /\ task.job.out = NoNode
    /\ \E out \in OfferOutcomes(task.job) : task' = [task EXCEPT !.job.out = out]
    /\ UNCHANGED <<storeVars, peerState, pendingSyncs, drained, credits, restarts,
                   historyVars>>

(* read_planned_messages(): a file that is gone or damaged is skipped.      *)
BatchWorker ==
    /\ task.batch # NoNode /\ task.batch.got = NoNode
    /\ \E got \in SUBSET task.batch.plan : task' = [task EXCEPT !.batch.got = got]
    /\ UNCHANGED <<storeVars, peerState, pendingSyncs, drained, credits, restarts,
                   historyVars>>
-----------------------------------------------------------------------------
(* drain_events(): each event of the task's Link, in any order.             *)
Heard(t) ==
    /\ task' = t /\ drained' = TRUE
    /\ UNCHANGED <<storeVars, peerState, pendingSyncs, credits, restarts, unwanted>>

LinkProven ==
    /\ task.state = "Establishing" /\ ~task.bind
    /\ Heard([task EXCEPT !.bind = TRUE])
    /\ UNCHANGED confirmed

(* The endpoint is bound: identify and offer.  This answer is taken in      *)
(* whatever state the task is.                                              *)
EndpointBound ==
    /\ task.bind
    /\ Heard([task EXCEPT !.bind = FALSE, !.state = "Offering"])
    /\ UNCHANGED confirmed

(* The request, the endpoint or a send is rejected, the endpoint ends, or   *)
(* the Resource is cancelled.                                               *)
Broken ==
    /\ task.state \in Trying \cup {"Complete"}
    /\ Heard([task EXCEPT !.state = "Failed", !.bind = FALSE])
    /\ UNCHANGED confirmed

TransferCancelled ==
    /\ task.sending # {}
    /\ Heard([task EXCEPT !.state = "Failed", !.sending = {}])
    /\ UNCHANGED confirmed

(* handle_link_closed(): fails the attempt even when it was just complete.  *)
SyncLinkClosed ==
    /\ task.state # "Idle" /\ ~task.closed
    /\ Heard([task EXCEPT !.state = "Failed", !.closed = TRUE, !.sending = {},
                          !.batch = NoNode])
    /\ UNCHANGED confirmed

(* record_handled_updates() of what the node has already.                   *)
NotWanted(offered, wanted) == offered \ wanted

(* handle_offer_response(): all, none or some are wanted; what is not, the  *)
(* node has.  IDs that were never offered are ignored.                      *)
Response(wanted) ==
    /\ task.state = "AwaitingResponse" /\ ~task.closed
    /\ LET want == wanted \cap task.offered
           told == [task EXCEPT !.updates = @ \cup NotWanted(task.offered, want)]
       IN  Heard(IF want = {} THEN [told EXCEPT !.state = "Complete"]
                 ELSE [told EXCEPT !.state = "Transferring",
                                   !.batch = [want |-> want, plan |-> want \cap shelf,
                                              got |-> NoNode]])
    /\ confirmed' = [confirmed EXCEPT ![task.with] = @ \cup (task.offered \ wanted)]

ErrorResponse ==
    /\ task.state = "AwaitingResponse"
    /\ Heard([task EXCEPT !.state = "Failed"])
    /\ UNCHANGED confirmed

(* complete_active_transfer_segment() for the last segment: what was sent   *)
(* is proven, and no more than that.                                        *)
Proven == task.sending
SegmentProven ==
    /\ task.sending # {} /\ ~task.closed
    /\ Heard([task EXCEPT !.state = "Complete", !.sending = {},
                          !.updates = @ \cup Proven])
    /\ confirmed' = [confirmed EXCEPT ![task.with] = @ \cup task.sending]
-----------------------------------------------------------------------------
(* send_offer_request(): snapshot, wait for the worker, install or, when    *)
(* the store has moved on, start over.                                      *)
Stale(work) == work.gen # generation \/ ~(work.out.take \subseteq shelf)
OfferStep(t) ==
    IF t.job = NoNode
    THEN [t EXCEPT !.job = [gen |-> generation, ids |-> shelf, out |-> NoNode]]
    ELSE IF t.job.out = NoNode THEN t
    ELSE IF Stale(t.job) THEN [t EXCEPT !.job = NoNode]
    ELSE [t EXCEPT !.job = NoNode, !.upTo = t.job.gen, !.exhausted = t.job.out.all,
                   !.updates = @ \cup t.job.out.refuse, !.offered = t.job.out.take,
                   !.state = IF t.job.out.take = {} THEN "Complete" ELSE "AwaitingResponse"]

(* drive_transfers(): the batch goes out; files that vanished since the     *)
(* offer leave the generation unexhausted.                                  *)
Mut_Unread(batch) == FALSE
Unread(batch) == batch.got # batch.want
TransferStep(t) ==
    IF t.sending # {} THEN t
    ELSE IF t.batch = NoNode THEN [t EXCEPT !.state = "Failed"]
    ELSE IF t.batch.got = NoNode THEN t
    ELSE [t EXCEPT !.exhausted = @ /\ ~Unread(t.batch),
                   !.state = IF t.batch.got = {} THEN "Failed" ELSE @,
                   !.sending = t.batch.got, !.batch = NoNode]

(* The phases' timeout and the Link's watchdog may end the attempt first.   *)
AfterWatch ==
    IF task.state \notin Trying THEN {task}
    ELSE {[task EXCEPT !.state = "Failed"]} \cup IF task.closed THEN {} ELSE {task}

AfterTick(t) ==
    IF t.state = "Offering" THEN OfferStep(t)
    ELSE IF t.state = "Transferring" THEN TransferStep(t)
    ELSE IF t.state \in Finished THEN IdleTask(t.with)
    ELSE t

(* What lxmd takes from the task for its peer: the handled IDs at once, the *)
(* generation only from a complete attempt that left nothing for later.     *)
Collected(p, updates, result) ==
    [p EXCEPT !.handled = @ \cup updates,
              !.busy = @ /\ result = NoNode,
              !.processed = IF result # NoNode /\ result.state = "Complete"
                                               /\ result.exhausted /\ result.upTo > @
                            THEN result.upTo ELSE @]

(* drive_propagation_sync(): tick(), then the updates and the result.       *)
SyncTick ==
    /\ task.state # "Idle" /\ drained' = FALSE
    /\ \E t \in AfterWatch :
         LET next == AfterTick(t)
             result == IF t.state \in Finished THEN t ELSE NoNode
             updates == next.updates \cup IF result = NoNode THEN {} ELSE t.updates
             n == task.with
         IN  /\ task' = [next EXCEPT !.updates = {}]
             /\ IF n \in Known /\ (updates # {} \/ result # NoNode)
                THEN /\ peers' = [peers EXCEPT ![n] = Collected(peers[n], updates, result)]
                     /\ SaveOf(n, peers')
                ELSE UNCHANGED peerState
    /\ UNCHANGED <<storeVars, pendingSyncs, credits, restarts, historyVars>>

(* The daemon dies and starts again: peers are those of the files, with the *)
(* handled IDs that are still held (prune_handled_against_store), and the   *)
(* generations start over.                                                  *)
DaemonRestarts ==
    /\ restarts < MaxRestarts /\ restarts' = restarts + 1
    /\ generation' = IF shelf = {} THEN 0 ELSE 1
    /\ shelvedAt' = [m \in Mail |-> IF m \in shelf THEN 1 ELSE 0]
    /\ peers' = [n \in Nodes |->
                   IF peerFile[n] = NoNode THEN NoNode
                   ELSE [NewPeer(peerFile[n].terms) EXCEPT
                            !.handled = peerFile[n].handled \cap shelf]]
    /\ pendingSyncs' = {} /\ task' = IdleTask(NoNode) /\ drained' = FALSE /\ credits' = {}
    /\ UNCHANGED <<shelf, peerFile, historyVars>>

PeerNext ==
    \/ \E m \in Mail : ClientDeposits(m) \/ Unshelve(m)
    \/ \E n \in Nodes, m \in Mail : PeerDeposits(n, m) \/ Credit(n, m)
    \/ \E n \in Nodes, terms \in Terms : Peered(n, terms) \/ Refreshed(n, terms)
    \/ \E n \in Nodes : Dropped(n) \/ RotatedOut(n) \/ ControlSync(n)
                     \/ StartAttempt(n) \/ KeyNotFound(n)
    \/ QueueDue \/ OfferWorker \/ BatchWorker
    \/ LinkProven \/ EndpointBound \/ Broken \/ TransferCancelled \/ SyncLinkClosed
    \/ \E wanted \in SUBSET Mail : Response(wanted)
    \/ ErrorResponse \/ SegmentProven
    \/ SyncTick \/ DaemonRestarts

PeerSpec == PeerInit /\ [][PeerNext]_peerVars
-----------------------------------------------------------------------------
(* Type invariant.                                                          *)
PeerTypeOK ==
    /\ shelf \subseteq Mail /\ generation \in 0 .. MaxGeneration
    /\ shelvedAt \in [Mail -> 0 .. MaxGeneration]
    /\ \A n \in Known : peers[n] \in Peer /\ peers[n].processed <= MaxGeneration
    /\ \A n \in Nodes : peerFile[n] = NoNode
                        \/ peerFile[n] \in [terms: Terms, handled: SUBSET Mail]
    /\ pendingSyncs \subseteq Nodes
    /\ task \in Task /\ task.upTo <= MaxGeneration
    /\ drained \in BOOLEAN /\ restarts \in 0 .. MaxRestarts
    /\ credits \subseteq Nodes \X Mail

(* An ID is marked handled for a peer, in memory or in its file, only if    *)
(* the peer has it, by its own word or proof, or its terms refuse it; and a *)
(* generation counts as processed only when nothing in it is left to offer  *)
(* ("only when no cumulative-limit or vanished-file work remains for the    *)
(* generation", propagation_sync.rs:63), unless not one message fits in a   *)
(* sync of the peer.  Attempts that fail or are cancelled half way, files   *)
(* that vanish and workers that come late neither mark a message the peer   *)
(* still needs nor let it wait until the store happens to change.           *)
MarksTrue ==
    \A n \in Nodes :
        LET done == confirmed[n] \cup unwanted[n]
        IN  /\ peerFile[n] # NoNode => peerFile[n].handled \subseteq done
            /\ n \in Known => peers[n].handled \subseteq done
            /\ n \in Known /\ peers[n].terms.room > 0 =>
                 {m \in shelf : shelvedAt[m] <= peers[n].processed} \subseteq done

(* A peer is busy only while an attempt is its own, and an attempt that is  *)
(* under way is that of a busy peer: a peer that stayed busy would never be *)
(* offered anything again, and an attempt that outlived its peering would   *)
(* mark the peer that came back.                                            *)
AttemptOwned ==
    /\ \A n \in Known : peers[n].busy => task.state # "Idle" /\ task.with = n
    /\ task.state \in Trying => task.with \in Known /\ peers[task.with].busy
=============================================================================
