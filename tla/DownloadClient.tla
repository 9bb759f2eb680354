---------------------------- MODULE DownloadClient ----------------------------
(***************************************************************************)
(* The propagation download client                                         *)
(* (crates/lxmf-core/src/propagation_client.rs) with the admission tokens  *)
(* and the suppression ledger of admission.rs: one cycle lists what a node *)
(* holds, purges what is already durable here, fetches the rest in chunks, *)
(* waits until the adapter has admitted each item, and purges those.  With *)
(* it the parts of lxmd that carry its tokens: the download queue, the     *)
(* decode and commit workers, and the task that persists the ledger        *)
(* (crates/lxmf-tools/src/commands/lxmd.rs).                               *)
(*                                                                         *)
(* One identity and one node, so a scope is a transient ID; IDs are        *)
(* numbered in the order the node lists them.  The response Resource is    *)
(* one step.  Generations, revisions and request IDs are only ever         *)
(* compared for equality with the current one: what carries one records    *)
(* whether it is still the current one (`live`, `current`).                *)
(***************************************************************************)
EXTENDS Naturals, Sequences, FiniteSets

CONSTANTS
    NTid,           \* how many transient IDs there are
    None,
    MaxChunk,       \* IDs that fit one request (MAX_EFFICIENT_SIZE)
    LedgerLimit,    \* SuppressionLedger::PER_NODE
    Retain,         \* retain_synced_on_node
    MaxWorkers,     \* MAX_PROCESSORS
    MessageOf       \* the message a ciphertext decrypts to

Tid == 1 .. NTid

ASSUME ConstantAssumption ==
    /\ NTid \in Nat
    /\ MaxChunk \in Nat \ {0} /\ MaxWorkers \in Nat \ {0} /\ LedgerLimit \in Nat
    /\ Retain \in BOOLEAN /\ DOMAIN MessageOf = Tid

VARIABLES
    client,         \* PropagationClient
    results,        \* admission_tx .. admission_rx: resolved tokens
    requests,       \* requests on their way to the node
    reply,          \* the response to the client's current request
    expired,        \* IDs whose recorded have is past its expiry
    queue,          \* lxmd's pending_downloads
    workers,        \* what holds each ProcessingLease
    reserved,       \* messages in the router's inbound_reservations
    save            \* lxmd's suppression_task

net == <<requests, reply>>
pipeline == <<queue, workers, reserved>>
clientVars == <<client, results, net, expired, pipeline, save>>

Active == {"LinkEstablishing", "LinkEstablished", "ListRequested", "GetRequested",
           "PurgeRequested", "AwaitingAdmission"}
Terminal == {"Complete", "Partial", "Failed"}
Kind == {"List", "Get", "Haves", "Purge"}
StateOf(kind) == IF kind = "List" THEN "ListRequested"
                 ELSE IF kind = "Get" THEN "GetRequested" ELSE "PurgeRequested"

(* A suppression record is active until its next retry, due until it        *)
(* expires, and stale once it expired or an epoch it depends on changed.    *)
Age == {"active", "due", "stale"}
Ledger == [Tid -> Age \cup {None}]
Chunks == {seq \in Seq(Tid) : Len(seq) <= MaxChunk}
Request == [kind: Kind, ids: Chunks]

(* What carries an admission token, at its stations in lxmd, and the task   *)
(* that writes the ledger.                                                  *)
Stage == {"decoding", "decoded", "validating", "writing", "done"}
Token == [tid: Tid, live: BOOLEAN]
Worker == [tid: Tid, live: BOOLEAN, stage: Stage, accepted: BOOLEAN]
Resolved == [tid: Tid, live: BOOLEAN, accepted: BOOLEAN]
Reply == [ok: BOOLEAN, ids: Seq(Tid)]
Save == [ledger: Ledger, stage: {"writing", "saved", "failed"}, current: BOOLEAN]

ASSUME NoneAssumption ==
    /\ None \notin Tid /\ None \notin Age \cup {"visible", "invisible"}
    /\ None \notin Request /\ None \notin Worker /\ None \notin Reply /\ None \notin Save

Client == [state: Active \cup Terminal \cup {"Idle"},
           link: BOOLEAN,                 \* a Link is owned
           request: Request \cup {None},
           local: SUBSET Tid,             \* local_messages: purge authority
           haves: Seq(Tid), wants: Seq(Tid), received: Seq(Tid),
           unread: SUBSET Tid,            \* received_messages
           pending: SUBSET Tid,           \* pending_admissions
           failures: BOOLEAN,             \* admission_failures > 0
           ledger: Ledger, dirty: BOOLEAN, persistFailed: BOOLEAN,
           revoked: BOOLEAN, revised: BOOLEAN]  \* what this step bumped

NewClient(ledger) ==
    [state |-> "Idle", link |-> FALSE, request |-> None, local |-> {},
     haves |-> <<>>, wants |-> <<>>, received |-> <<>>, unread |-> {}, pending |-> {},
     failures |-> FALSE, ledger |-> ledger, dirty |-> FALSE, persistFailed |-> FALSE,
     revoked |-> FALSE, revised |-> FALSE]

Ids(seq) == {seq[i] : i \in DOMAIN seq}

(* The elements of a sequence that are in S, in their order.                *)
Kept(seq, S) ==
    LET kept[i \in 0 .. Len(seq)] ==
            IF i = 0 THEN <<>>
            ELSE IF seq[i] \in S THEN Append(kept[i - 1], seq[i]) ELSE kept[i - 1]
    IN  kept[Len(seq)]

InOrder(S) == Kept([i \in Tid |-> i], S)
Smaller(a, b) == IF a < b THEN a ELSE b

Chunk(seq) == SubSeq(seq, 1, Smaller(MaxChunk, Len(seq)))
Without(seq, n) == SubSeq(seq, n + 1, Len(seq))
-----------------------------------------------------------------------------
(* The client's own functions.                                              *)

Revised(c) == [c EXCEPT !.dirty = TRUE, !.revised = TRUE]

PruneSuppression(c) ==
    IF \E t \in Tid : c.ledger[t] = "stale"
    THEN Revised([c EXCEPT !.ledger =
                    [t \in Tid |-> IF @[t] = "stale" THEN None ELSE @[t]]])
    ELSE c

(* Mutant: tokens lose their authority, the client still waits for them.    *)
Mut_Revoke(c) == [c EXCEPT !.unread = {}, !.revoked = TRUE]

Revoke(c) == [c EXCEPT !.pending = {}, !.unread = {}, !.revoked = TRUE]
Fail(c) == [Revoke(c) EXCEPT !.state = "Failed"]
Cleanup(c) == [Revoke(c) EXCEPT !.request = None, !.link = FALSE]

(* Mutant: expired haves leave the cursors under an outstanding request.    *)
Mut_PruneHaves(c) ==
    LET kept == c.local \ expired IN
    [c EXCEPT !.local = kept,
              !.haves = Kept(@, kept), !.received = Kept(@, kept)]

(* A request's IDs are a prefix of a cursor, so the cursors are pruned only *)
(* while no request is outstanding.                                         *)
PruneHaves(c) ==
    LET kept == c.local \ expired IN
    IF c.request = None
    THEN [c EXCEPT !.local = kept, !.haves = Kept(@, kept), !.received = Kept(@, kept)]
    ELSE [c EXCEPT !.local = kept]

Send(c, kind, ids) ==
    [c EXCEPT !.request = [kind |-> kind, ids |-> ids], !.state = StateOf(kind)]

(* Purges before wants, and wants only while every rejection is persisted.  *)
SendNextChunk(c) ==
    IF c.request # None \/ c.pending # {} \/ c.state = "Failed" THEN c
    ELSE LET p == PruneHaves(c) IN
         IF p.received # <<>> THEN Send(p, "Purge", Chunk(p.received))
         ELSE IF p.haves # <<>> THEN Send(p, "Haves", Chunk(p.haves))
         ELSE IF p.dirty \/ p.persistFailed THEN [p EXCEPT !.state = "AwaitingAdmission"]
         ELSE IF p.wants # <<>> THEN Send(p, "Get", Chunk(p.wants))
         ELSE [p EXCEPT !.state = IF p.failures THEN "Partial" ELSE "Complete"]

Recorded(ledger) == {t \in Tid : ledger[t] # None}
Saturated(ledger) == Cardinality(Recorded(ledger)) >= LedgerLimit

Wanted(c, t) ==
    /\ t \notin c.local
    /\ ~c.persistFailed /\ ~Saturated(c.ledger)
    /\ c.ledger[t] # "active"

(* send_get_request(): the selection of a cycle, from the listed IDs.       *)
Select(c, listed) ==
    LET p == PruneHaves(c) IN
    SendNextChunk([p EXCEPT
        !.haves = IF Retain THEN <<>> ELSE Kept(listed, p.local),
        !.wants = Kept(listed, {t \in Tid : Wanted(p, t)})])

(* SuppressionLedger::record_failure(), and what the client does with it.   *)
RecordFailure(c, t) ==
    LET pruned == [u \in Tid |-> IF c.ledger[u] = "stale" THEN None ELSE c.ledger[u]] IN
    IF pruned[t] = None /\ Saturated(pruned)
    THEN [c EXCEPT !.ledger = pruned, !.persistFailed = TRUE]
    ELSE Revised([c EXCEPT !.ledger = [pruned EXCEPT ![t] = "active"]])

(* Mutant: a rejected item is purged like an accepted one.                  *)
Mut_Admit(c, r) == [c EXCEPT !.pending = @ \ {r.tid}, !.local = @ \cup {r.tid},
                             !.received = Append(@, r.tid)]

(* One result of poll_admissions().                                         *)
Admit(c, r) ==
    LET resolved == [c EXCEPT !.pending = @ \ {r.tid}] IN
    IF r.accepted
    THEN LET held == [resolved EXCEPT !.local = @ \cup {r.tid},
                                      !.received = Append(@, r.tid)]
         IN  IF held.ledger[r.tid] = None THEN held
             ELSE Revised([held EXCEPT !.ledger[r.tid] = None])
    ELSE RecordFailure([resolved EXCEPT !.failures = TRUE], r.tid)
-----------------------------------------------------------------------------
(* The client takes over a new record c, with the channel and the pipeline  *)
(* as the caller leaves them.  A bumped generation leaves every token given *)
(* out before without authority; a bumped revision outdates the checkpoint  *)
(* being written; a new or finished request leaves the earlier one without  *)
(* a reader for its response.                                               *)
Void(token) == [token EXCEPT !.live = FALSE]
VoidWorker(w) == IF w = None THEN None ELSE Void(w)

Become(c, rs, q, ws) ==
    /\ client' = [c EXCEPT !.revoked = FALSE, !.revised = FALSE]
    /\ IF c.revoked
       THEN /\ results' = [i \in DOMAIN rs |-> Void(rs[i])]
            /\ queue' = [i \in DOMAIN q |-> Void(q[i])]
            /\ workers' = [w \in DOMAIN ws |-> VoidWorker(ws[w])]
       ELSE results' = rs /\ queue' = q /\ workers' = ws
    /\ IF c.request = client.request
       THEN UNCHANGED net
       ELSE /\ reply' = None
            /\ requests' = {[m EXCEPT !.current = FALSE] : m \in requests} \cup
                  (IF c.request = None THEN {}
                   ELSE {[kind |-> c.request.kind, ids |-> c.request.ids, current |-> TRUE]})

Outdated(c, task) == IF task # None /\ c.revised THEN [task EXCEPT !.current = FALSE] ELSE task

(* A step of the client alone.                                              *)
Step(c) ==
    /\ Become(c, results, queue, workers)
    /\ save' = Outdated(c, save)
    /\ UNCHANGED <<expired, reserved>>

StartDownload ==
    LET p == PruneSuppression(client) IN
    /\ p.unread = {} /\ ~p.persistFailed /\ ~p.dirty
    /\ p.state \in Terminal \cup {"Idle"}
    /\ Step([Cleanup(p) EXCEPT !.state = "LinkEstablishing", !.link = TRUE,
                               !.received = <<>>, !.haves = <<>>, !.wants = <<>>,
                               !.failures = FALSE])

LinkUp ==
    /\ client.state = "LinkEstablishing"
    /\ Step([client EXCEPT !.state = "LinkEstablished"])

(* The Link is closed, its endpoint unbound, or a send on it rejected.      *)
LinkLost ==
    /\ client.link /\ client.state # "Failed"
    /\ Step(Fail(client))

(* handle_response_owned() with the response to the current request.        *)
Answered(kinds) == reply # None /\ client.state # "Failed" /\ client.request.kind \in kinds

ListReply ==
    LET done == [client EXCEPT !.request = None] IN
    /\ Answered({"List"})
    /\ Step(IF ~reply.ok THEN Fail(client)
            ELSE IF reply.ids = <<>> THEN [done EXCEPT !.state = "Complete"]
            ELSE Select(done, reply.ids))

GetReply ==
    LET asked == client.request.ids
        ids == Ids(reply.ids)
        taken == [Revoke(client) EXCEPT !.request = None,
                                        !.wants = Without(@, Len(asked)),
                                        !.pending = ids, !.unread = ids]
    IN  /\ Answered({"Get"})
        /\ Step(IF ~reply.ok \/ ~(ids \subseteq Ids(asked)) THEN Fail(client)
                ELSE IF ids = {} THEN SendNextChunk(taken)
                ELSE [taken EXCEPT !.state = "AwaitingAdmission"])

PurgeReply ==
    LET n == Len(client.request.ids)
        done == [client EXCEPT !.request = None]
    IN  /\ Answered({"Haves", "Purge"})
        /\ Step(IF ~reply.ok THEN Fail(client)
                ELSE SendNextChunk(IF client.request.kind = "Haves"
                                   THEN [done EXCEPT !.haves = Without(@, n)]
                                   ELSE [done EXCEPT !.received = Without(@, n)]))

(* tick(), first the loop over the resolved tokens, one turn each.          *)
PollAdmission ==
    LET r == Head(results)
        c == IF r.live /\ r.tid \in client.pending THEN Admit(client, r) ELSE client
    IN  /\ results # <<>> /\ client.state # "Failed"
        /\ Become(c, Tail(results), queue, workers)
        /\ save' = Outdated(c, save)
        /\ UNCHANGED <<expired, reserved>>

(* poll_admissions() after its loop: 600 s in all, 120 s without progress.  *)
Admissions(c, timedOut) ==
    IF c.state # "AwaitingAdmission" THEN c
    ELSE IF c.pending = {} THEN SendNextChunk(c)
    ELSE IF timedOut THEN SendNextChunk([Revoke(c) EXCEPT !.failures = TRUE])
    ELSE c

(* Mutant: a request is waited for without a limit.                         *)
Mut_Timeouts(c) == IF c.state = "LinkEstablishing" THEN Fail(Cleanup(c)) ELSE c

Timeouts(c) ==
    IF c.state = "LinkEstablishing" THEN Fail(Cleanup(c))
    ELSE IF client.request # None THEN Cleanup(Fail(c))
    ELSE c

(* ... then deadlines, at most one of which passes in a tick, and what the  *)
(* state calls for.                                                         *)
Tick(deadline) ==
    LET p == PruneSuppression(client)
        q == Admissions(p, deadline = "admission")
        r == IF deadline = "answer" THEN Timeouts(q) ELSE q
        c == IF p.state = "Failed" THEN Cleanup(p)
             ELSE IF r.state \in Terminal THEN Cleanup(r)
             ELSE IF r.state = "LinkEstablished" THEN Send(r, "List", <<>>)
             ELSE r
    IN  /\ results = <<>> \/ p.state = "Failed"
        /\ [c EXCEPT !.revoked = FALSE, !.revised = FALSE] # client
        /\ Step(c)

CancelDownload == client.state # "Idle" /\ Step([Cleanup(client) EXCEPT !.state = "Idle"])

AcknowledgeTransfer ==
    client.state \in Terminal /\ Step([Cleanup(client) EXCEPT !.state = "Idle"])

ReplaceDurableHaves(durable) == Step(PruneHaves([client EXCEPT !.local = durable]))
-----------------------------------------------------------------------------
(* lxmd: the download queue and its workers.                                *)

Free(ws) == Kept([i \in 1 .. MaxWorkers |-> i], {w \in 1 .. MaxWorkers : ws[w] = None})

(* drive_download_queue(): revoked items are dropped, the others started    *)
(* while leases last.  A pair of the new queue and workers.                 *)
Driven(q, ws) ==
    LET current == Kept(q, {item \in Token : item.live})
        free == Free(ws)
        n == Smaller(Len(free), Len(current))
    IN  <<Without(current, n),
          [w \in 1 .. MaxWorkers |->
             IF \E i \in 1 .. n : free[i] = w
             THEN LET i == CHOOSE i \in 1 .. n : free[i] = w
                  IN  [tid |-> current[i].tid, live |-> TRUE, stage |-> "decoding",
                       accepted |-> FALSE]
             ELSE ws[w]]>>

(* take_downloaded_messages(), one item of its loop.                        *)
TakeDownload(t) ==
    LET next == Driven(Append(queue, [tid |-> t, live |-> TRUE]), workers)
        c == [client EXCEPT !.unread = @ \ {t}]
    IN  /\ t \in client.unread
        /\ Become(c, results, next[1], next[2])
        /\ UNCHANGED <<expired, reserved, save>>

At(w, stage) == workers[w] # None /\ workers[w].stage = stage

(* A worker thread ends a stage.  Decoding a revoked item fails.            *)
Work(w, from, to, good) ==
    /\ At(w, from)
    /\ workers' = [workers EXCEPT ![w].stage = to, ![w].accepted = good]
    /\ UNCHANGED <<client, results, net, expired, queue, reserved, save>>

Decode(w, good) ==
    Work(w, "decoding", "decoded", good) /\ (good => workers[w].live)

(* The commit worker looks at the token once, before policy and storage.    *)
CheckToken(w) ==
    /\ At(w, "validating")
    /\ Work(w, "validating", IF workers[w].live THEN "writing" ELSE "done", FALSE)

(* DownloadAdmissionToken::resolve(), or its drop.                          *)
Resolve(rs, job, good) ==
    IF job.live THEN Append(rs, [tid |-> job.tid, live |-> TRUE, accepted |-> good]) ELSE rs

(* The lease of worker w is given back and the queue driven.                *)
Release(w, good) ==
    LET next == Driven(queue, [workers EXCEPT ![w] = None]) IN
    /\ queue' = next[1] /\ workers' = next[2]
    /\ results' = Resolve(results, workers[w], good)

Reservable(m) == m \notin reserved

(* poll_download_decodes(), one item.                                       *)
PollDecode(w) ==
    LET m == MessageOf[workers[w].tid] IN
    /\ At(w, "decoded")
    /\ IF workers[w].accepted /\ workers[w].live /\ Reservable(m)
       THEN /\ workers' = [workers EXCEPT ![w].stage = "validating", ![w].accepted = FALSE]
            /\ reserved' = reserved \cup {m}
            /\ UNCHANGED <<queue, results>>
       ELSE Release(w, FALSE) /\ UNCHANGED reserved
    /\ UNCHANGED <<client, net, expired, save>>

(* poll_download_commits(), one item: commit_inbound() or abort_inbound()   *)
(* ends the reservation.                                                    *)
PollCommit(w) ==
    /\ At(w, "done")
    /\ reserved' = reserved \ {MessageOf[workers[w].tid]}
    /\ Release(w, workers[w].accepted)
    /\ UNCHANGED <<client, net, expired, save>>
-----------------------------------------------------------------------------
(* lxmd: persistence of the suppression ledger.                             *)

(* Mutant: any finished checkpoint is taken for the current ledger.         *)
Mut_Acknowledged(c, task) == [c EXCEPT !.dirty = FALSE, !.persistFailed = FALSE]

(* acknowledge_suppression_persistence().                                   *)
Acknowledged(c, task) ==
    IF task.current /\ ~c.revised
    THEN [c EXCEPT !.dirty = FALSE, !.persistFailed = FALSE] ELSE c

(* drive_suppression_persistence(): a finished task is consumed, and a new  *)
(* one started unless its retry time is still to come.                      *)
DriveSuppression(retry) ==
    LET p == PruneSuppression(client)
        c == IF save = None THEN p
             ELSE IF save.stage = "saved" THEN Acknowledged(p, save)
             ELSE [p EXCEPT !.persistFailed = TRUE]
    IN  /\ save # None => save.stage # "writing"
        /\ save # None \/ (p.dirty /\ retry)
        /\ Become(c, results, queue, workers)
        /\ save' = IF c.dirty /\ retry /\ (save # None => save.stage = "saved")
                   THEN [ledger |-> c.ledger, stage |-> "writing", current |-> TRUE]
                   ELSE None
        /\ UNCHANGED <<expired, reserved>>

(* Time passes for a record, or an epoch it depends on changes.             *)
Aged(ledger, t, age) == IF ledger[t] = None THEN ledger ELSE [ledger EXCEPT ![t] = age]
=============================================================================
