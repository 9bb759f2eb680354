# rsLXMF: a TLA+ verification development

TLA+ specifications of the message-delivery core of rsLXMF, TLC instances that
check them, and TLAPS proofs of their safety properties. Every definition is
written from the Rust source under `src/`; `PROJECT.json` maps it to the lines it
stands for. File names below without a directory are in
`src/crates/lxmf-core/src/`; `lxmd*.rs` and `daemon.rs` are in
`src/crates/lxmf-tools/src/` (`lxmd.rs` and `lxmd_pn.rs` in its `commands/`).

## 1. The system

rsLXMF is an implementation of LXMF, store-and-forward messaging over the
Reticulum network: a library (`lxmf-core`) and a daemon (`lxmd`) that sends,
receives, and, as a *propagation node*, holds messages for others. `lxmd` is a
loop over `tick()`. Around it run

- the link manager, whose callbacks (an offer, a Resource advertised,
  accounting) share `Arc<Mutex<PnInboundRuntime>>` with the loop;
- blocking workers: decode and commit of downloads, suppression-ledger save,
  inbound hooks, maintenance, validation of received batches, relay writes, the
  two workers of a peer sync, envelopes for a propagation node. Each result
  reaches the loop later, through a channel or a `JoinHandle`, and may then be
  about something that has changed;
- the runtime that owns the Links peers opened, reached through command and event
  channels (the *bridge* of lxmd);
- files, each replaced by *durable replacement* (`rns_identity::persistence`):
  temporary file, rename, directory barrier. The caller learns `Ok`, an error
  before the rename (nothing happened), or an error after it (the new content
  is visible, a power loss may or may not keep it).

### 1.1 Inventory

| component (code) | state | operations | hard behaviour | what makes it correct | here |
|---|---|---|---|---|---|
| durable admission store (`admission_store.rs`) | four kinds of files (tombstone, intent, commit, body); `committed`, `deleted` maps | `commit`, `mark_user_deleted`, `maintain`, `complete_hook`, `open`/recovery | a crash or failed barrier between any two writes; deletion against a second download | a receipt implies its archive; an archive is neither replaced nor lost; a confirmed deletion is final | **AdmissionStore**, refines **Archive** |
| hook outbox (`lxmd.rs` `drive_hook_outbox`) | the one hook task | take, run, complete | the command runs outside the mutex; completion fails or the process dies | every committed event runs, at least once, on an existing archive | **AdmissionStore** |
| download client (`propagation_client.rs`, `admission.rs`) | state machine, cursors haves/wants/received, tokens with generations, suppression ledger | start, list/get/purge replies, `poll_admission`, `tick`, cancel, link loss | late results of an old cycle, lost replies, timeouts, expiry during a request | purge only what is durable; each item has one holder; an answer is whole; every wait and every cycle ends; no Link is left behind | **DownloadClient**, **ClientExchange** (partly) |
| download pipeline (`lxmd.rs`) | queue, processing leases, decode and commit workers, inbound reservations, suppression task | take, decode, commit, poll, save | token revoked while its worker writes; two ciphertexts of one message | as above, and one commit at a time for a message | **DownloadClient**, **DownloadSystem** |
| /get service of a node (`propagation_node.rs`) | messages held per identity | list, get, purge | purge whose answer is lost or whose retirement is cut off | nothing is dropped without a purge; a purge is final | **DownloadSystem**, **RelayStore** (partly) |
| inbound sync admission (`propagation_admission.rs`, `lxmd_pn.rs`) | records, throttles, correlations, pending validations, validated and quarantined Links | preflight/commit of an offer, Resource started/complete/failed, validation result, Link closed | offer evaluated outside the lock; events taken late; results after the Link closed | limit respected, slots returned once, only authorized batches | **SyncAdmission** |
| delivery ratchets (`delivery_ratchet.rs`) | ring and control record, in memory and on disk, trust flags | `load_or_initialize`, `create_announce`, `save`, `save_durable` | one of two writes fails; crash between store and announce; clock goes back; damaged file | no announced key is lost, announces are ordered, a damaged file is preserved | **DeliveryRatchet** |
| ticket store (`ticket.rs`, `persist.rs`) | tickets, snapshot revision, floor of the coordinator | issue, deliver, expire, snapshot, intent and checkpoint writes | two snapshot tasks end in the other order; a crash before or after an intent | a ticket that left in a message is honoured | **TicketStore** (partly) |
| router: outbound (`router.rs`, `lxmd.rs`) | queue, deferred stamps, packets in flight, envelopes | submit, pass over the queue, stamp and Link results, proofs, cancel, one-shot command | late results of a message cancelled, retried or submitted again | each message has one owner and ends once | **RouterOutbound** (partly) |
| outbound propagation preparation (`propagation_send.rs`, `lxmd.rs`) | worker, kept envelope | prepare, bind to key and cost, reuse | key or cost changes while a worker runs | one ciphertext per message and key | **RouterOutbound** |
| router: inbound (`router.rs`) | `inbound_reservations` | reserve, commit, abort | two paths deliver one message | delivered once | **DownloadClient** (partly) |
| router: peers (`router.rs`, `peer.rs`) | peer table, backoff, rotation | autopeer, unpeer, rotate, choice of a peer | rotation while a sync runs | an attempt under way has its peer | **PeerSync** (partly) |
| outbound peer sync (`propagation_sync.rs`) | Idle/Establishing/Offering/AwaitingResponse/Transferring, handled marks, generations | start, Link, identify, offer, answer, batches, timeouts | Link lost at each stage; files vanish; workers late | handled only what the peer has or refused | **PeerSync** (partly) |
| link delivery (`link_delivery.rs`) | `pending` sessions (Link, state, payload, queue), `direct_links`; backchannel starts and deliveries; Resources coming back | `start_delivery`, `start_packed_delivery`, `start_backchannel_delivery`, `drain_events`, `tick`, cancel and fail by message | answers and proofs late, early, for an earlier message, or never; a Link that ends with a queue | each copy settled once, complete only if proved, in order, in the end; nothing sent unknown to all | **LinkDelivery** and **Backchannel**, both refine **Settlement**; **InboundResource** (partly) |
| inbound Resource tracker (`inbound_resource.rs`) | registry, handles, cancellation channel | start, progress, conclude, close, cancel | two streams out of step, one of which drops | it lists the transfers that run | **InboundTracker** |
| relay store (`propagation_node.rs`, `propagation_store_v2.rs`) | entries, reservations, retirements, objects on disk | reserve, persist, verify, commit, purge, cull, start | three steps under different locks; a crash between any two | deposits are durable, purges final, the node starts again | **RelayStore** (partly) |
| packet pool (`lxmd.rs`) | writes under way, waiters | submit, verify, take over | duplicate of a packet whose write then fails | no proof without a stored message | **RelayStore** |
| migration to format v2 (`propagation_store_v2/`) | old directory, archive, guard, journal, new store | open, migrate, renew, import | crash or failure at any write or rename | resumable; an old daemon never comes back to moved files | **StoreMigration** (partly) |
| stamps, discovery stamps (`stamper.rs`, `discovery_stamper.rs`) | a worker search | generate, cancel | – | its result is an input of **RouterOutbound** | not modelled |
| peering keys, offers (`propagation_offer.rs`, `sync.rs`) | none | parse, evaluate | – | its outcome is an input of **SyncAdmission** | not modelled |
| message format (`message.rs`, draft, field, resumable) | none to speak of | pack, unpack, verify | – | bytes and signatures; a message is a model value | not modelled |
| announce and control handlers (`handlers.rs`, `lxmd_control.rs`) | none | decode, dispatch | – | dispatch to the components above | not modelled |
| configuration and start (`lxmd_cli.rs`, `lxmd_runtime.rs`, `daemon.rs`) | process set-up | – | – | pure I/O | not modelled |

"Partly" means that some operation is left out; section 2 says which.

### 1.2 How the components meet

```
 submit --> router queue --copies--> link delivery --payloads--> peers, nodes
              |   ^                    |   ^    \--commands--> bridge --> Links of peers
   deferred   |   |  results, proofs   |   +--- receipts, proofs, waits ----+
   stamps <---+   +--------------------+ 
   tickets (intent before signing)     +--- Resources coming back --> application

 node /get service <--requests/replies-- download client --tokens--> lxmd queue
                                              ^                        | decode worker
                                    results   |                        | router reservation
                                  (channel)   +--- commit worker <-----+
                                                       | commit()
                    suppression file <-- save task     v
                                              admission store --hook events--> hook task

 remote peers --offers/Resources--> link manager --callbacks/events--> sync admission
       ^                                                  validation workers --^ |
       +---- offers, batches ---- peer sync <--- relay store <--- packet pool,  <+
                                                     ^            /get purges
                                       migration ----+
 announces <-- delivery ratchets (ring file, control file)
```

A download is *admitted* when the store's `commit` returned a durable receipt;
only then does the client purge it from the node. **DownloadSystem** takes the
store as one atomic step with its outcomes, and **AdmissionStore** shows that
the file operations such a step consists of may be taken for one. The router takes
the link manager as **Settlement** promises it (a copy is accepted and reported
once), and **LinkDelivery** and **Backchannel** implement that promise.
**PeerSync** takes the relay store as a set of IDs with generations;
**SyncAdmission** is the other side of such a sync.

## 2. The modules

| module | contents |
|---|---|
| `DurableFile` | a file under durable replacement: what it reads back (`vis`) and what a power loss may leave (`may`); outcomes ok / notCommitted / uncertain / torn |
| `Archive` | the promise of the admission contract, without files or crashes |
| `AdmissionStore` | the store, recovery, deletion, expiry and the hook worker |
| `DownloadClient` | the client and the parts of lxmd that carry its tokens |
| `ClientExchange` | the client's Link, requests and answers as packets and Resource segments |
| `DownloadSystem` | composes it with node, network, store, suppression file and crashes |
| `SyncAdmission` | the runtime with link manager, daemon and workers |
| `DeliveryRatchet` | ring, control record, announces |
| `TicketStore` | reply tickets, snapshots by revision, intents and checkpoints |
| `Settlement` | the promise of starting a delivery: an accepted copy is settled once, complete only if received |
| `LinkDelivery` | `LinkDeliveryManager` on the Links it opens, with the transport and the peer as its environment |
| `Backchannel` | `LinkDeliveryManager` on the Links peers opened, with the bridge and the runtime |
| `InboundResource` | Resources a peer sends back on a Direct Link |
| `InboundTracker` | the registry of Resources received on the Links of peers |
| `RouterOutbound` | the outbound side of `LxmRouter`, lxmd's tick and one-shot command |
| `RelayStore` | the relay store, its files, the packet pool, /get purges, start |
| `StoreMigration` | the move of an old store to format v2 and the import from its archive |
| `PeerSync` | the offers of a relay to its peers |
| `*_proofs` | theorems of the modules they are named for (section 4) |
| `MCAdmissionStore`, `MCDownloadSystem`, `MCLinkDelivery` | values of the constants for TLC |
| `MCStores`, `MCNode`, `MCRouterOutbound` | one run for several modules that share no state; the first state chooses the part that moves |

Definitions named `Mut_...` are plausible bugs. They appear in no
specification; `PROJECT.json` pairs each with the property that exposes it.

### AdmissionStore
One mutex serialises the operations, so `phase` names the operation that holds
it *and* the durable write it does next (`admission_store.rs:205-555`); "idle"
is the free mutex. Each `durable_write`, `durable_remove` and
`durable_reconcile` is a step of its own with an outcome from `Faults`, and a
crash or power loss (every file takes some content of `may`) is possible
between any two. Opening the directory is the recovery phase, in the code's
order: tombstones, commits, then intents. The hook worker (`hookTask`) takes an
event under the mutex and runs its command outside it.
`accepted`, `deleteAsked`, `deleteDone` and `hookRan` record what was told to
callers; no action reads them.
Left out: a second identity (a message ID fixes its destination, so scopes of
two identities never share a message); hashes (the hash of an image is the
image); temporary files that a crash leaves behind.

### DownloadClient and DownloadSystem
An action per method of `PropagationClient` and per step of lxmd's loop and
workers. What the code tags with a generation, request ID or revision is only
ever compared with the current one, so a token carries `live` and a task or
request `current`, cleared where the code advances the number. Transient IDs
are numbered in the node's list order; one identity and one node, so a scope is
an ID. The response Resource is one step; `MaxChunk` stands for what fits one
request. Deadlines fire whenever they are armed (`Tick`), which covers every
relation of the real durations. The node answers from `node`; the network may
lose a request or reply and delay it beyond its cycle.
Left out: changing the node during a cycle, `max_messages`; packet and Resource framing is
`ClientExchange`'s.

### ClientExchange
The client again, from below: what it sends and hears on the Link of one download, whatever the
requests say. One record is the `PropagationClient`; `sends` and `cleanups` are its channels with
results to come, `staged` and `room` its queue to the transport, `destinations` what the
transport has registered for it. A call of `tick` or `drain_events` may find any of its inputs, so
each kind of input is an action, and its handler runs whole; `Called` ends every action
with what `poll_endpoint_send_results` forgets. A deadline that runs may be over at any call. The
state names are the code's with the three `...Requested` as one. Two things the code does are in
the model as they are: a part that comes after a failed send makes the client `Receiving` again
(`propagation_client.rs:1419`), and the binding of an endpoint after a failure makes it
`LinkEstablished` (931); either way the cycle goes on or its deadline ends it. The node may
answer any request at any time but advertises a segment only when the proof of the one before
was sent. Left out: a closed channel to the transport (`lxmd` ends).

### SyncAdmission
Three actors over one lock: the link manager (`Identify`, `Preflight`,
`Commit`, `Discard`, `Advertise`, `Start`, `Complete`, `FailTransfer`, `Close`),
which also posts to `events`; the daemon (`HandleEvent`), which takes them in
order and arbitrarily late; the validation workers (`Conclude`). An offer is
evaluated outside the lock, so `Preflight` and `Commit` are two steps and
everything may happen between them. Sizes and deadlines are nondeterministic
choices (`fits`, `wanted`, `Expire`).

### DeliveryRatchet and TicketStore
Operations of the ratchet take `&mut self`, so each is one step with the outcomes
of its two writes as inputs: `ok`, `none` (the code does not come to this write), and
the faults `notCommitted`, `uncertain`, `torn` (written, the process dies in the
call), `killed` (it dies before). `Kill`, `PowerLost` and the damage of a file
while the daemon is down are separate steps, and the wall clock may show
anything at any time. Ratchets are numbered in the order they are generated.
`RatchetRing`, `RatchetControlState` and the durable file are
`rns_identity`'s, outside the repository, and modelled from their use.
Left out: the rewrite of an old ring format and the replay of a cached path
response, neither of which changes keys or order.

A message that asks for a reply ticket (`drafts`) is signed only after a snapshot with
the ticket, its *intent*, is durable (`router.rs`, `prepare_outbound`); other
snapshots are written by checkpoint tasks that may end in any order. The
coordinator (`persist.rs:159-232`) writes one at a time and refuses a revision
below its `floor`, so a write is one step with the outcomes of `DurableFile`.
Left out: tickets this node was given (they only decide whether a stamp is made,
a choice in **RouterOutbound**).

### LinkDelivery
`LinkDeliveryManager` is owned by one task, so each call is a step. A session is a
record with the state of its Link, the current copy, whether its payload is still
there (`image`), the queue behind it and the answers it is still owed (`request`,
`bind`, `handshake`, `plain`, `dispatch`). `Tick` is the whole of `tick()`: every
session is taken through timeout, state, queue and Link action, with a choice for
each of which clock has run out or what cannot be sent; `TransportClosed` is the
tick that finds the transport gone. What `drain_events` reads is one action for
each kind of answer or packet, so any interleaving of them with ticks, starts and
cancels is covered. A *copy* is a message handed to a start function; a retry is
another copy. `exact` is the mode with exact admission receipts.
`outcome` records what results told the embedder; cancelling a copy that was
already reported changes nothing in it, though the call returns true (finding 3).
The `Link` of `rns_protocol` is external: pending, active, stale or closed, revived
by authenticated traffic. The peer proves what it received in order, or refuses a
Resource before its first segment. That the application of an ended endpoint gets
`Failed` instead of `Complete` when the proof was read but not yet ticked
(`link_delivery.rs:1973`) is allowed, as the code has it.
Left out: progress events, hop counts, estimates of what is left, refusal of a start
that changes nothing. The node is assumed to have an identity.

### Backchannel
The manager puts a command into a channel and keeps a *start* until the receipt of the
runtime names the packet or Resource (its key); from then on it is a *delivery* that
waits for the proof. Receipt, proof, packet wait and conclusion come over channels of
their own, so `early` keeps what comes before the receipt, up to
`BACKCHANNEL_EARLY_PROOF_LIMIT`. A start whose message was settled stays as a
reservation while its receipt may still come, for then the send has to be called off.
`starts` says of each whether it awaits its receipt on a Link that lives (`live`) or has closed
(`closed`), or is such a reservation (`settled`). One tick visits every start, one visit a
step. A handle that comes when no start of its Link is pending is dropped without being used, and
the wait ends "in vain" (`link_delivery.rs:3958–3984`). This happens to a packet that still has to be
called off in two ways: its receipt raced the bridge's timeout, whose error removed the start
(`lxmd.rs:1128–1138`, `link_delivery.rs:3531–3549`), or `abandon_backchannel_packet` gave its
reservation to another packet of the Link (4627–4653). `bereft` (history) names those. In lxmd the
bridge hands over the abandonment before the error, and `tick()` takes the one right after the
other (3682–3687), so the first way needs an abandonment that was refused for want of room; other
embedders may order their calls as they like, and the module does too.
`cancel_delivery_by_message_hash` looks only at the first start of its message (4540): while that
one is a settled reservation it answers no and leaves a later start alone; the module has it as
the code does. `calledOff` holds the packets to be cancelled as soon as their handle comes
and is as bounded as the rest; `unlisted` (history) are those it had no room for (finding 4).
Left out: senders that are not cancellation-aware, and the branches that serve them
(lxmd installs only the aware one). lxmd never cancels or fails by message; those
calls, of the library's embedders, are modelled.

### InboundResource and InboundTracker
`InboundResource` follows what a peer sends back on a Direct Link this node
opened: advertisement, parts, proof, the segments of a split Resource, cancellation by
either side, watchdogs and the removal of the session, with advertisements and parts
delayed, duplicated and lost. `reserved`, `given` and `stranded` are what the
application knows: it is asked for every segment and told once that a Resource has
concluded. Sessions that the embedder removes (1506, 4383, 4511) drop their Resources
without that call; such reservations are `stranded`. A later segment whose advertisement
cannot be used (2579–2606) concludes the Resource, but its lifecycle stays until its deadline,
so that the application is told twice; the model has both.

`InboundTracker` has the registry (`active`), what a handle shows (`snapshot`), the two
streams lxmd reads and the bounded channel of cancellations. Starts, conclusions and closed
Links come on a stream that loses nothing, progress on one that drops what does not fit.
Left out: segment counts that a repeated start raises.

### RouterOutbound
`phase` is the place in lxmd's `tick()`, the pass over the queue visits one entry a step,
and what other tasks do reaches the router through channels that one step reads. A
message is deferred, queued, a packet in flight, or a copy with the link manager; a Direct
message stays queued while copies of it are on the Link. An entry is due or expired
whenever it is visited, which covers retry waits, path requests and the 20 s spacing.
`key` and `cost` are the recipient's latest ratchet and the node's stamp cost, which an
announce may change at any time; `envelope` and `worker` hold a prepared deposit. `shot`
is the one-shot command of lxmd, which alone submits a message there.
History: `outcome`, `since` (the submission that deferred a message), `stray`,
`deposited`, `requoted`. Left out: Paper messages; the branch that drops an
Opportunistic message whose packing fails for another reason than a missing key
(`lxmd.rs:5374–5382`), since `pack_opportunistic_encrypted` has no other error for a signed one;
and a `try_send` that fails where a message is queued again, which happens only to a Propagated
message without a propagation node, and lxmd sets its node once, at its start.

### RelayStore
The node is behind a lock and plans there; files are written outside of it, one publication
or retirement at a time (`STORE_MUTATION_LOCK`). An admission has an object with files of
its own (index, body, manifest) and a retirement a marker; the writes of one are one step,
with the write that fails or at which the process dies as a parameter. Packet deposits
that wait for the write of the same message verify it or take over when it fails. Purges
come from /get, culls from maintenance; a new start loads what is on disk, quarantines what
is damaged and finishes retirements. `DirectoryBarrier` says whether the barrier of a removal
covers the whole directory, as an `fsync` of the directory does; without it `Startable` is
violated. Left out: weights and priorities (any choice), byte limits (sizes are 1).

### StoreMigration
All commands and the host hold one lock, so only failures come between the steps: a write
that fails, perhaps with its effect, and a power loss, which keeps the changes of a directory up to
some point in their order. (On a file system that reorders them an interrupted migration may be
refused as ambiguous, with the originals preserved; the module does not cover that.)
`told` is what a command answered. A repeated import counts an image whose write was
uncertain as present without renewing its barriers, and an uncertain save of the last phase
may refuse hosting until the command is run again; both are in the model.
Left out: the checks that no other process writes, and containers of mobile platforms.

### PeerSync
lxmd's choice of a peer, the one `PropagationSyncTask` with its two blocking workers, the
peers of the router and their files, while the store grows, is culled and peers announce new
terms, are dropped and rotated. A rotated peer leaves its file, so that a restart brings it
back; a mailbox full at the start of an attempt clears `pending_transport` (1427), although the
comment at 470–472 calls it retryable. Left out: packet or Resource framing, limits in bytes
(`room` stands for them), transfer rates.

### The unions
`MCNode`, `MCStores` and `MCRouterOutbound` put modules that share no state into one run: the
first state chooses the part, `UNCHANGED` keeps the others at their initial states. They say
nothing about an interaction between the parts.

## 3. What is checked

| run | configuration | distinct states | properties |
|---|---|---|---|
| `stores` | admission: 2 scopes of 1 message, 2 images, clock 0..1, 2 faults of every kind, no hook; offers: 1 peer with 3 kinds of terms, 2 messages, 2 generations, 1 restart | 1.69 M | `ReceiptBacked`, `ReceiptSurvives`, `MarksTrue`, `AttemptOwned`, refinement `ImplementsArchive` |
| `admission_hooks` | 1 image, hook on, 2 crashes, fairness | 0.16 M | `HookHonoured`, liveness `HookRuns` |
| `admission_hook_lost` | as above, 1 failed write, no crash | – | `HookNotLost` **violated** (finding 1) |
| `download_cycle` | 2 IDs of one message, 1 per request, 2 workers, 1 upset, fairness | 68 k | `NothingLost`, `CursorAligned`, `OneHolder`, `WantsAfterPersistence`, liveness `CycleEnds` |
| `download_ledger_full` | ledger of 1, no upset | – | `WaitsForSomething` **violated** (finding 2) |
| `node_parts` | see Bounds | 0.62 M | `NodeTypesOK`, `SlotsOwned`; `AdvertisedKept`, `AnnouncesOrdered`, `RejectedPreserved`; `TicketsHonoured`; `DepositsDurable`, `PurgesFinal`, `Startable`; `Resumable`, `HostedSafely`, `ImportAccounted`; `AnswerWhole`, `ClockRuns`, `LinksReleased` |
| `link_queue` | 3 copies of 2 messages (a packet, 2 segments, a retry), 1 Direct Link, fairness | 75 k | `CopiesInOrder`, `FollowersKept`, refinement `ImplementsSettlement`, liveness `EventuallySettled` |
| `link_pair` | a Direct copy and a deposit of 2 segments, 2 Links | 0.24 M | `DirectLinksOwned` |
| `link_panic` | 1 copy, 1 Link | – | `PayloadOwned` **violated** (finding 3) |
| `outbound` | see Bounds | 0.95 M | `OneOwner`, `StampsInOrder`, `SameCiphertext`; `NoOrphan`, `ProofMeetsReceipt`, refinement `ImplementsBackSettlement`; `InboundAccounted`; `TrackerExact` |
| `backchannel_full` | 2 attempts, room for 1 | – | `RoomReserved` **violated** (finding 4) |
| `one_shot` | one message, the one-shot command | – | `SuccessConverged` **violated** (finding 5) |

What they say:

- **ReceiptBacked** A visible receipt in memory has its archive on disk past
  every barrier. **ReceiptSurvives**: a live receipt in memory is in every content of
  its commit file that a power loss can leave, and so is the archive it refers to.
  **ImplementsArchive**: with `archive` read off the bodies that no power loss can take,
  every step of the store is a step of `Archive` or a stutter; so a confirmed deletion
  is final, and only the user deletes.
- **HookHonoured** A visible receipt comes with its event in memory or its command has
  run, and a command is started only on an archive that exists, unless the user
  asked for its deletion. **HookNotLost** is weaker: the event may
  also be in an intent file that the next recovery publishes.
  **HookRuns**: a pending event is run in the end, or its message's deletion is asked for.
- **NothingLost** Every message a node held is still there or was decided durably
  here. **CursorAligned**: the IDs of an outstanding request are the front of the
  cursor its answer advances. **OneHolder**: each item waited for has exactly one
  holder of its authority, and a message is reserved exactly while one commit worker has it.
  **WantsAfterPersistence**: nothing is requested before all
  rejections are on disk. **WaitsForSomething**: after a failed save the client
  waits only for an item or a save that exists. **CycleEnds**: every cycle ends.
- **AnswerWhole** An answer is put together from the segments of one request, each once and in
  turn, whatever results of earlier sends come late. **ClockRuns**: whoever waits for an answer
  has a request with a deadline that runs. **LinksReleased**: a Link the transport still has
  is the current one or is being released, unless the release found no room or its answer was lost.
- **SlotsOwned** A record holds a slot exactly while a Resource or a validation owns
  it or an event about it is on its way, and a Link whose close was handled leaves nothing
  behind.
- **AdvertisedKept** An announced ratchet is in memory and in every file content a
  restart or power loss can leave, until `Retain` newer ones exist. The stated
  exception is a ring that was read back from a write whose barriers had failed:
  `load_or_initialize` uses it without passing them again. (In lxmd both files share
  a directory, so the barrier of the control record covers the ring in practice;
  the module does not assume it.) **AnnouncesOrdered**: announces leave in increasing wire
  order over restarts, losses and a clock that goes back. **RejectedPreserved**: a file
  that could not be verified is not overwritten.
- **TicketsHonoured** A ticket that left in a signed message is in the store and in every
  content its file may have after a crash, until its grace is over; a reply with it
  is accepted until it expires.
- **DepositsDurable** A deposit that was answered with success has its object on disk
  whatever crash follows, until it is retired. **PurgesFinal**: a purged message does not come
  back from the disk. **Startable**: what a crash or a failed write leaves can be loaded.
- **Resumable** A migration that was cut off is never refused as ambiguous.
  **HostedSafely**: a store is hosted only when the old path is guarded, the new store complete
  and the old files archived for good. **ImportAccounted**: an import that was reported is
  true of every approved message.
- **MarksTrue** A message is marked handled for a peer, and a generation processed, only
  when the peer has what they stand for or refuses it. **AttemptOwned**: a busy peer is
  that of the attempt under way, and the reverse.
- **OneOwner** A message that is not over waits for its stamp, is queued, in flight or with
  the link manager, in exactly one of them; one that is over is in none.
  **StampsInOrder**: the stamp that is searched is that of the message that waited longest.
  **SameCiphertext**: while the recipient's key is the same, all deposits of a message have one
  ciphertext, unless the cost changed while a worker had it.
- **CopiesInOrder** An open copy is in exactly one place and a settled one in none; a
  Direct Link sends its copies in the order they were started, and nothing of a queued one
  before its turn. **DirectLinksOwned**: `direct_links` names exactly the kept session of each
  destination. **FollowersKept**: cancelling a copy on a Link that is being opened or
  in use keeps those behind it. **ImplementsSettlement**: no copy is settled twice, and
  none is complete before the peer proved all of it, so a late proof never
  settles the next message. **EventuallySettled**: each is settled, whatever answer
  never comes.
- **NoOrphan** What the runtime still sends for an attempt that was settled is known by its
  exact name to someone who will call it off, and a packet can be called off: its handle is still
  to come or is held. Two exceptions are part of the formula: a packet that `calledOff` had no
  room for (`unlisted`), and one whose handle came and was dropped because its start was gone
  (`bereft`, §2): its key is listed, but the packet goes out all the same, although
  `api/README.md:51–58` asks to retain it for cleanup.
  **RoomReserved**: it always has room. **ProofMeetsReceipt**: an attempt whose proof was
  read before its Link closed, and is still remembered, is not reported failed.
  **ImplementsBackSettlement**: as `ImplementsSettlement`.
- **InboundAccounted** Memory the application reserved belongs to a Resource that lives,
  unless it is stranded; one that lives is watched by a clock; of others nothing is left; one is
  received at a time; what the application was given was proved to the peer.
- **TrackerExact** Once the lossless stream is read the registry lists the transfers that run
  and no other, and a handle shows no more than that.

### Bounds, and why they are enough
`MaxFaults`, `MaxUpsets`, `MaxTime` and `MaxMade` bound the faults, what
disturbs a cycle, the clock and the ratchets. Two faults let a crash strike while the
damage of another fault is being recovered, two scopes of one message are the
smallest case in which admission meets deletion or a duplicate, and two images
the smallest in which an archive could be replaced. Two IDs in chunks of one
give a cursor with a past and a future; two IDs of one message in one chunk let two
workers collide.

*node_parts.* Three Resources on two Links (one of a static peer) give one Link two
Resources and another Link a competitor for the single slot. A ring of two with five ratchets
overflows three times; clock 1..5, rotation interval 2, 2 faults. Two drafts of one recipient
share a ticket; expiry 2, renewal 1, grace 1, time up to 3, 3 revisions, one open checkpoint, 2
faults. The relay has a packet and a batch with a message in common, room for one message, one
purge, 3 objects and 1 fault. The migration has 3 old images, 2 of one message, 3 faults, 5
commands and room for 2 imports; the other parts start with one old directory. The client opens two
Links, one after the other, makes two requests, answered by one and by two segments, and stages
two messages: enough for a result or a release of the first to come during the second, and
for a full queue. The Resources of one Link are symmetric.

*stores.* Of its two messages the peer deposits only the first, and after a restart it stays
and keeps its terms (`Steady`).

*outbound.* Two messages of one method, or one for a node beside a Large one, whose stamps are
what they share (`Pairs`); 3 attempts; 3 submissions where both are Opportunistic, else 2
(`Fewer`); 2 copies; 1 announce, seen by the message beside the Large one. The backchannel has one Link of the peer, 2 attempts (the last
a packet), and room for 2 early proofs. Three Resources come back, of 3, 1 and 2 segments with 2
parts each, the last too large. The registry has one Resource ID on two Links, and one place in
each channel.

*links.* Three copies on one Link are a current one with a queue of two, one of them a retry of
the first message, whose proof or cancel may be taken for the other's; at most one is
cancelled (`BriefSpec`). Two Links are what a message is on when it is sent both ways.

`CHECK_DEADLOCK FALSE` is set where everything may come to an end: in `LinkQueue.cfg`,
`LinkPair.cfg` and `LinkPanic.cfg` once every copy is settled and its Link gone, in `Node.cfg`
because each Link and Resource is used once and bounds end the other parts, in
`Outbound.cfg` because each attempt and transfer ends, in `OneShot.cfg` because the
command exits. Elsewhere deadlock is checked.

### Fairness
`HookRuns`, `CycleEnds` and `EventuallySettled` need it.
- *Store:* weak fairness of the step of the operation that holds the mutex (a
  call runs to its end), of recovery (lxmd opens the store at start) and of the
  end of a dying process. Strong fairness of taking a pending event, of
  its command's success and of recording that: `drive_hook_outbox` retries for ever, and the
  property is about events whose command does not fail for ever. Without
  it the first event can starve the others (`lxmd.rs:4830` takes the first).
- *Download:* weak fairness of what lxmd's loop calls on each tick, of each worker, of
  the save task succeeding when tried, and of the node serving requests
  that arrive; a request or reply that was lost is ended by its deadline. Nothing is
  assumed of the user, of depositors, or of the start of a cycle. Upsets are
  bounded, so no cycle is disturbed for ever.
- *Links:* for each Link that stays open or is opened again and again, ticks that find
  its current clock run out, and ticks at which a stale or pending Link asks to be closed.
  The embedder must tick periodically anyway, each delivery resets its clock only when it
  starts or its packet is dispatched, and a stale Link either hears its peer or is closed
  by its own clock. No answer, packet or proof is assumed. `EventuallySettled` holds up to
  the panic of finding 3, which ends the task.

### Findings
1. **A hook event is lost without a crash** (`admission_store.rs:395`). The event is
   put in the intent only if the archive is new. If the body was written and the
   commit record then fails, the retry sees the body, is a `Duplicate`, and
   overwrites the intent without the event: the receipt is published, the event
   never is. Line 28 promises that "One atomic logical commit publishes both the
   receipt and pending hook event". With crashes only, the property holds
   (`admission_hooks`): recovery completes the intent as it was.
2. **A full ledger leaves a cycle with nothing to wait for**
   (`propagation_client.rs:1949`). A rejection that finds the node's ledger full sets
   `suppression_persist_failed` but not `suppression_dirty`; lxmd saves only a
   dirty ledger, so nothing clears the flag, and the client stays in
   `AwaitingAdmission` (documented at line 68 as waiting for decisions or a
   checkpoint) until a record expires.
3. **A tick takes a payload that is gone** (`link_delivery.rs:1898`). A delivery that
   ended leaves its Direct Link idle, without its payload. A rejected send on that
   Link (its `LinkIdentify`, a keepalive, a proof), the end of its endpoint (1973) or a
   closed transport (2901) sets the session to Failed without looking whether it is
   idle, as `handle_link_closed` and the cancel do. The next `tick` fails "its" delivery:
   `expect("active delivery owns one immutable payload")` (347) panics. In the trace the
   Link was bound, its one message cancelled, and then the send of LRRRTT is rejected.
   `fail_delivery_by_message_hash` meets the same `expect` when it names the last
   message of an idle Link.
4. **A cancelled packet is forgotten because the cache is full** (`link_delivery.rs:4655`).
   A key that `abandon_backchannel_packet` gets while its handle is held is listed without a look
   at the bound (4655–4663), and nothing had reserved its place. Later sends that were cancelled
   then find the table full: `cancel_backchannel_packet_key` returns false before it takes the
   handle, its callers (4574, 4620) ignore that, and the packet is sent although its
   message is settled. The comment at 1361 says "Reserve reconciliation space before a runtime
   command can exist."
5. **The one-shot command reports success for a message that was not sent**
   (`lxmd.rs:6384`). Once its message is on a Link the command waits only for
   `link_delivery.pending_count()`. A retryable failure of that Link puts the message back
   into the router's queue without setting `last_delivery_failure`, and a stamp search that
   ends without a stamp (`router.rs:792`) drops its message; either way the command
   finds nothing pending, prints "Message sent" and ends with status 0. The comment at
   6362 says that "both ownership sets must converge before the command can report success".

## 4. What is proved

Every theorem holds for all values of the constants that satisfy the named assumptions
beside their declarations: there is no bound on attempts, scopes, messages, Links, Resources, faults,
restarts or clocks. The assumptions say that numbers are numbers and that maps have their domains;
that a placeholder is none of the values it stands beside (`None`, `NoTicket`, `Nothing`,
`NoNode`, `Gone`: an `Option` is not one of its contents); that the old directory and the
registry's keys are finite. `DepositsStayDurable`, `PurgesStayFinal` and `StoreStartsAgain`
have the hypothesis `DirectoryBarrier`: the code flushes the directory after a removal
(`DirectoryBarrier = FALSE` lets TLC violate `Startable`). `HooksSurviveCrashes` has the hypothesis
`CrashesOnly`. It says that a durable step succeeds or is cut by the end of the process, since a write
that fails while the process lives on can lose an event (finding 1); and that messages are
committed rather than discarded by policy, since a policy discard of a ciphertext that was already
received replaces its receipt, and the pending event with it (`WriteCommit`, no fault needed).

Each proof establishes an inductive invariant, one step per action, and reads the property
off it. The invariants are stronger than the properties because a property speaks of one point
of an operation: that a receipt is backed when it is published follows only from what the
earlier steps of the same operation, or of a recovery, left on disk.

| theorem | property | inductive invariant |
|---|---|---|
| `TypeCorrect` (`AdmissionStore_proofs`) | `TypeOK` | with `LocalsOK`: what `job`, `todo`, `victim` hold in each phase |
| `ReceiptsAreBacked` | `ReceiptBacked` | `BInv`: `RecoveryOrder` (nothing has authority before the tombstones are read), `DeleteOrder` (the tombstone is in memory before any receipt is rewritten), `JobBacked` (a commit under way replaces no archive and reaches its last write with the archive settled) |
| `ReceiptsSurvive` | `ReceiptSurvives` | `SInv`: for each scope, where the operation is on its way (`Visits`) and what its file may then be (`Survives`) |
| `StoreImplementsArchive` | `ImplementsArchive` | `AInv`: tombstones of confirmed deletions, accepted archives kept; then one lemma for each kind of step, which is an abstract step or a stutter |
| `HooksSurviveCrashes` | `HookHonoured` | `HookInv`: whatever a crash leaves of an archive comes with an event on disk (`OnDisk`), the files of a scope agree (`FilesAgree`) and so does memory (`Known`), each archive that is not deleted has an event once recovery has passed it (`Event`), a commit under way is the first of its scope (`JobFresh`); with `TaskInv`: the worker's message has its archive |
| `SyncTypeCorrect` (`Sync_proofs`) | `SyncTypeOK` | itself |
| `LimitHolds` | `WithinLimit` | `PeersAgree` (a pending validation counts for the peer of the correlation it came from) |
| `AuthorizedHolds` | `Authorized` | `RecordsValidated` (only a validated Link has a record) |
| `SlotsAreOwned` | `SlotsOwned` | `SlotInv`: a record agrees with the Resources and events on their way (`Core`), events of a Resource are in order (`InOrder`), a closed Link is the subject of one event or forgotten (`ClosedRight`) |
| `RatchetTypeCorrect` (`Client_proofs`) | `RatchetTypeOK` | itself |
| `AdvertisedRatchetsKept` | `AdvertisedKept` | `KeptInv`: the `i`-th key of the ring, and of every content of its file, is at most `made + 1 - i`, so a key leaves only after `Retain` newer ones; each content holds, as far back as `Retain` reaches, what was announced and what an announce may still name |
| `AnnouncesInOrder` | `AnnouncesOrdered` | `OrderInv`: the control record, in memory and in every content a power loss can leave, is not behind the last announce |
| `RejectedFilesPreserved` | `RejectedPreserved` | `RejectInv`: a damaged file is what it was damaged to, and what was read from it is not trusted |
| `TicketTypes` | `TicketTypeOK` | itself |
| `SentTicketsHonoured` | `TicketsHonoured` | `TicketInv`: what is sent is in the store, the file, and every checkpoint that the floor would still let pass (`FloorHolds`, `IntentHolds`, `TicketHolds`) |
| `DepositsStayDurable`, `PurgesStayFinal`, `StoreStartsAgain` (`RelayStores_proofs`) | `DepositsDurable`, `PurgesFinal`, `Startable` | `RelayInv`: which files an object has at each point of its write and retirement (`FilesRight`), what the node and a planner know of it (`StoreRight`, `DownRight`, `PlanRight`), what was answered (`HistoryRight`, `DepositRight`) |
| `MigrationTypes`, `MigrationResumes`, `StoresHostedSafely`, `ImportsAccounted` | `MigrationTypeOK`, `Resumable`, `HostedSafely`, `ImportAccounted` | `MigrationInv`: the journal of every content a power loss can leave says where the old directory is (`Explained`); where each command stands (`CommandRight`); what an import may count (`ImportRight`) |
| `PeerSyncTypes`, `MarksStayTrue`, `AttemptsStayOwned` (`Sync_proofs`) | `PeerTypeOK`, `MarksTrue`, `AttemptOwned` | `PeerInv`: marks against the shelf (`Shelved`, `Marked`, `Processed`), what a worker's result may still claim (`JobRight`, `ResultRight`), the attempt's owner (`Owned`) |
| `InboundTypes`, `NothingOutlives` (`Inbound_proofs`) | `InboundTypeOK`, `InboundAccounted` | `InboundInv`: one segment under way, kept payloads proved, one live Resource; what is held and given |
| `TrackerTypes`, `RegistryExact` | `TrackerTypeOK`, `TrackerExact` | `TrackerInv`: reading the rest of the lossless stream from the registry gives the transfers that run (`Replays`); each conclusion and close on it is true (`ConclusionTrue`, `CloseTrue`) |
| `DownloadTypes`, `MailIsKept`, `CursorsStayAligned`, `ItemsHaveOneHolder`, `RejectionsPersistFirst` (`DownloadSystem_proofs`) | `TypeOK`, `NothingLost`, `CursorAligned`, `OneHolder`, `WantsAfterPersistence` | `Inv`: the client's lists and its request (`ClientRight`), purges on their way name only what is settled (`NetRight`), tokens are exclusive and reservations theirs (`PipelineRight`), the ledger agrees with its file unless dirty (`LedgerRight`) |
| `SendTypes`, `MessagesHaveOneOwner` (`Outbound_proofs`) | `TypeOK`, `OneOwner` | `SendInv`: an entry the pass has still to visit is in the queue (`Visiting`), every message has one owner (`Owned`), those left as strays excepted |
| `StampsStayInOrder` | `StampsInOrder` | `StampInv`: the identifiers of waiting messages are in the order of their submissions, stale ones between them |
| `DepositsRepeatTheCiphertext` | `SameCiphertext` | `CipherInv`: the ciphertext last deposited for the current key is in the envelope or with the worker while the message is not over |
| `LinkTypes`, `LinksOwned`, `CopiesKeepTheirOrder`, `CancelKeepsFollowers`, `PromiseKept` (`LinkDelivery_proofs`) | `TypeOK`, `DirectLinksOwned`, `CopiesInOrder`, `FollowersKept`, `ImplementsSettlement` | `IInv`: each session by itself (`SessionsSound`: what its state says of payload, queue, Link and counter; the queue in order; the segments before the one under way proved), sessions and open copies (`HeldOpen`, `OpenHeld`, `HeldOnce`), what was started (`StartedInOrder`, `CurrentStarted`), what was sent (`SentStarted`, `QueuedUnsent`), what was reported (`CompleteProved`) |
| `BackTypes`, `NoSendIsOrphaned`, `ProofsMeetTheirReceipts`, `BackchannelsSettle` (`Outbound_proofs`) | `BackTypeOK`, `NoOrphan`, `ProofMeetsReceipt`, `ImplementsBackSettlement` | `BackInv`, of each attempt by itself: what a start or delivery says of it (`Pending`), that what was read is what the runtime did (`Heard`), who can still call a packet off once its handle is read (`Recallable`), who knows its name (`Known`), that its start awaits its handle while it may still have to be called off (`Sheltered`), and which handles were dropped (`Unheard`) |
| `AnswersAreWhole`, `ClocksRun` (`Client_proofs`) | `AnswerWhole`, `ClockRuns` | `ExchangeInv`: the answer so far is the segments before the next one (`InTurn`), a proof on its way is of the segment that waits for it or of a request that is over (`Proving`), a wait has a clock or a packet on its way (`Timing`), which states have a request (`Phases`) |

Proofs by induction over a sequence (what the registry replays, where an identifier is in a queue)
use recursive functions and a counting lemma, since the library's induction theorems take an operator.

A call of `LinkDeliveryManager` is one step that runs several handlers in turn over a session, each
on what the last one left (`Good`): one lemma for each handler says what it keeps and reports, and
the lemma of a call chains them. `CopiesInOrder` counts places, so its proof has `OpenHeld` and
`HeldOnce` give the one place. `ImplementsSettlement` needs the whole invariant: that a late proof
completes no other copy follows from `SessionsSound` (a proof is awaited for the current copy only)
and from `QueuedUnsent` (nothing of a copy behind it was sent).

**Model-checked only.** `HookRuns`, `CycleEnds` and `EventuallySettled`: liveness under
fairness and `ENABLED` are out of the prover's reach. `LinksReleased`
of `ClientExchange`: it filters the queue to the transport with the recursive `SelectSeq`, about which no
theorem of the library speaks; and the module's type invariant, of which `Shaped` holds what the proofs
need. `RelayTypeOK`, of which
`RelayInv` holds all but the count of reserved bytes and of faults. `NodeTypesOK` joins it to the
proved type invariants of the other parts. The type invariants of the other modules, `WithinLimit` and
`Authorized` are proved and no longer run.

## 5. Not modelled

Byte formats, cryptography and proof of work (no state); configuration,
command line and process set-up (pure I/O); logging and metrics. A panic of a
worker is not among its outcomes. `PROJECT.json` gives the status and reason of every
component, and lists the hazards of the code with the properties that cover them; one with no
property says why.

## 6. Plan

1. Daemon shutdown: the packet pool's result channel (`lxmd.rs:6531`), detached ratchet
   writes (1543–1573, 1802–1897), validation workers that are not drained.
2. The announces of the daemon with the ratchet they stage (`lxmd.rs:125-130`, 3615–3619).
3. Incoming offers (`propagation_offer.rs`, `sync.rs`, `propagation_node.rs:1210-1350`), composed with
   `SyncAdmission`.
4. Known identities and the inbound side of the router (delivered cache, delivery callback).
