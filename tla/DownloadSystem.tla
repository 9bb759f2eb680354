---------------------------- MODULE DownloadSystem ----------------------------
(***************************************************************************)
(* DownloadClient with what it talks to: the propagation node's /get       *)
(* handler and store (propagation_node.rs), the durable admission store    *)
(* reduced to what its module shows of it, the suppression file, a network *)
(* that loses and delays, and crashes of the client.                      *)
(***************************************************************************)
EXTENDS DownloadClient

CONSTANTS MaxUpsets   \* bound on what disturbs a cycle: see Upset

ASSUME UpsetAssumption == MaxUpsets \in Nat

VARIABLES
    node,       \* IDs the node holds for this client
    deposited,  \* IDs it ever held
    receipt,    \* the store's receipt: "visible", "invisible" or None
    settled,    \* IDs for which a receipt was ever committed
    disk,       \* the persisted suppression ledger
    upsets

durable == <<receipt, settled>>
vars == <<clientVars, node, deposited, durable, disk, upsets>>

Init ==
    /\ client = NewClient([t \in Tid |-> None])
    /\ results = <<>> /\ requests = {} /\ reply = None /\ expired = {}
    /\ queue = <<>> /\ workers = [w \in 1 .. MaxWorkers |-> None] /\ reserved = {}
    /\ save = None
    /\ node = {} /\ deposited = {}
    /\ receipt = [t \in Tid |-> None] /\ settled = {}
    /\ disk = [t \in Tid |-> None]
    /\ upsets = 0

(* durable_haves(): the live receipts.                                      *)
DurableHaves == {t \in Tid : receipt[t] # None /\ t \notin expired}

(* The request was lost, or its answer: only a deadline can end the wait.   *)
Unanswerable == client.request # None /\ reply = None /\ ~\E m \in requests : m.current

ClientAlone ==
    /\ \/ StartDownload \/ LinkUp
       \/ ListReply \/ GetReply \/ PurgeReply
       \/ PollAdmission
       \/ Tick("none")
       \/ Unanswerable /\ Tick("answer")
       \/ AcknowledgeTransfer
       \/ ReplaceDurableHaves(DurableHaves)
    /\ UNCHANGED <<node, deposited, durable, disk>>

ClientUpset ==
    /\ LinkLost \/ CancelDownload \/ (\E d \in {"admission", "answer"} : Tick(d))
    /\ UNCHANGED <<node, deposited, durable, disk>>

Runner ==
    /\ \/ \E t \in Tid : TakeDownload(t)
       \/ \E w \in 1 .. MaxWorkers :
            \/ \E good \in BOOLEAN : Decode(w, good)
            \/ CheckToken(w) \/ PollDecode(w) \/ PollCommit(w)
       \/ \E retry \in BOOLEAN : DriveSuppression(retry)
    /\ UNCHANGED <<node, deposited, durable, disk>>

(* The commit worker stores the item, as an archived message or as a        *)
(* discarded one, whether or not its token was revoked after the check; or  *)
(* policy or the store refuse it.                                           *)
CommitWrite(w, r) ==
    LET t == workers[w].tid IN
    /\ At(w, "writing")
    /\ workers' = [workers EXCEPT ![w].stage = "done", ![w].accepted = r # None]
    /\ receipt' = IF r = None \/ receipt[t] = "visible" THEN receipt
                  ELSE [receipt EXCEPT ![t] = r]
    /\ settled' = IF r = None THEN settled ELSE settled \cup {t}
    /\ expired' = IF receipt'[t] = receipt[t] /\ r = None THEN expired ELSE expired \ {t}
    /\ UNCHANGED <<client, results, net, queue, reserved, save, node, deposited, disk>>

(* An invisible receipt passes its lifetime, and maintain() prunes it.      *)
ReceiptExpires(t) ==
    /\ receipt[t] = "invisible" /\ t \notin expired
    /\ expired' = expired \cup {t}
    /\ UNCHANGED <<client, results, net, pipeline, save, node, deposited, durable, disk>>

(* mark_user_deleted(): the receipt now records the deletion.               *)
UserDeletes(t) ==
    /\ receipt[t] = "visible"
    /\ receipt' = [receipt EXCEPT ![t] = "invisible"]
    /\ UNCHANGED <<client, results, net, expired, pipeline, save, node, deposited, settled,
                   disk>>

ReceiptPruned(t) ==
    /\ t \in expired
    /\ receipt' = [receipt EXCEPT ![t] = None]
    /\ UNCHANGED <<client, results, net, expired, pipeline, save, node, deposited, settled,
                   disk>>

(* A suppression record reaches its next retry or its expiry, or an epoch   *)
(* it depends on changes; every copy of it alike.                           *)
RecordAges(t, age) ==
    /\ client.ledger[t] # None /\ client.ledger[t] # age
    /\ age = "due" => client.ledger[t] = "active"
    /\ client' = [client EXCEPT !.ledger = Aged(@, t, age)]
    /\ disk' = Aged(disk, t, age)
    /\ save' = IF save = None THEN None ELSE [save EXCEPT !.ledger = Aged(@, t, age)]
    /\ UNCHANGED <<results, net, expired, pipeline, node, deposited, durable>>

(* save_suppression() in its task: the file is replaced or it is not.       *)
SaveSuppression(good) ==
    /\ save # None /\ save.stage = "writing"
    /\ disk' = IF good THEN save.ledger ELSE disk
    /\ save' = [save EXCEPT !.stage = IF good THEN "saved" ELSE "failed"]
    /\ UNCHANGED <<client, results, net, expired, pipeline, node, deposited, durable>>
-----------------------------------------------------------------------------
(* The node: another participant deposits a message; handle_get_request()   *)
(* and its GetServePlan answer a request.                                   *)
Deposit(t) ==
    /\ t \notin node
    /\ node' = node \cup {t} /\ deposited' = deposited \cup {t}
    /\ UNCHANGED <<clientVars, durable, disk>>

Respond(m, ok, ids) ==
    /\ requests' = requests \ {m}
    /\ reply' = IF m.current THEN [ok |-> ok, ids |-> ids] ELSE reply

ServeList(m) ==
    /\ m.kind = "List"
    /\ Respond(m, TRUE, InOrder(node))
    /\ UNCHANGED node

(* Wants over the limits or unreadable are left out of the answer.          *)
ServeGet(m) ==
    /\ m.kind = "Get"
    /\ \E served \in SUBSET (Ids(m.ids) \cap node) : Respond(m, TRUE, InOrder(served))
    /\ UNCHANGED node

(* Retirements go one by one; the first that fails answers with nil.        *)
ServePurge(m) ==
    /\ m.kind \in {"Haves", "Purge"}
    /\ \E n \in 0 .. Len(m.ids) :
         /\ node' = node \ Ids(SubSeq(m.ids, 1, n))
         /\ Respond(m, n = Len(m.ids), <<>>)

Serve ==
    /\ \E m \in requests : ServeList(m) \/ ServeGet(m) \/ ServePurge(m)
    /\ UNCHANGED <<client, results, expired, pipeline, save, deposited, durable, disk>>

(* A request the node refuses, one that is lost on the way, a lost answer.  *)
Refuse(m) == m.current /\ Respond(m, FALSE, <<>>)
Lose(m) == requests' = requests \ {m} /\ UNCHANGED reply
LoseReply == reply # None /\ reply' = None /\ UNCHANGED requests

NodeUpset ==
    /\ LoseReply \/ \E m \in requests : Refuse(m) \/ Lose(m)
    /\ UNCHANGED <<client, results, expired, pipeline, save, node, deposited, durable, disk>>

(* The daemon dies and starts again from the store and the ledger file.     *)
Crash ==
    /\ client' = NewClient(disk)
    /\ results' = <<>> /\ queue' = <<>> /\ reserved' = {} /\ save' = None
    /\ workers' = [w \in 1 .. MaxWorkers |-> None]
    /\ reply' = None
    /\ requests' = {[m EXCEPT !.current = FALSE] : m \in requests}
    /\ UNCHANGED <<expired, node, deposited, durable, disk>>

Store == \E w \in 1 .. MaxWorkers, r \in {"visible", "invisible", None} : CommitWrite(w, r)

(* Faults, deadlines that race an answer, decisions of the user, and time   *)
(* running out for a receipt or a record.                                   *)
Upset ==
    /\ upsets < MaxUpsets
    /\ upsets' = upsets + 1
    /\ \/ ClientUpset \/ NodeUpset \/ Crash \/ SaveSuppression(FALSE)
       \/ \E t \in Tid : ReceiptExpires(t) \/ UserDeletes(t)
       \/ \E t \in Tid, age \in {"due", "stale"} : RecordAges(t, age)

Next ==
    \/ /\ \/ ClientAlone \/ Runner \/ Store \/ Serve \/ SaveSuppression(TRUE)
          \/ \E t \in Tid : Deposit(t) \/ ReceiptPruned(t)
       /\ UNCHANGED upsets
    \/ Upset

Spec == Init /\ [][Next]_vars

(* The daemon's loop and its threads keep running: a link comes up or is    *)
(* given up, what arrived is handled, tick() is called, downloads and       *)
(* results are polled, and the node answers what it received.  Nothing is   *)
(* assumed of the user, of depositors, of StartDownload or of upsets.       *)
Handled == ListReply \/ GetReply \/ PurgeReply
Fairness ==
    /\ WF_vars(LinkUp /\ UNCHANGED <<node, deposited, durable, disk, upsets>>)
    /\ WF_vars(Handled /\ UNCHANGED <<node, deposited, durable, disk, upsets>>)
    /\ WF_vars((Tick("none") \/ PollAdmission)
                /\ UNCHANGED <<node, deposited, durable, disk, upsets>>)
    /\ WF_vars(Unanswerable /\ Tick("answer")
                /\ UNCHANGED <<node, deposited, durable, disk, upsets>>)
    /\ WF_vars((\E t \in Tid : TakeDownload(t))
                /\ UNCHANGED <<node, deposited, durable, disk, upsets>>)
    /\ \A w \in 1 .. MaxWorkers :
          WF_vars((\/ \E good \in BOOLEAN : Decode(w, good)
                   \/ CheckToken(w) \/ PollDecode(w) \/ PollCommit(w))
                  /\ UNCHANGED <<node, deposited, durable, disk, upsets>>)
    /\ WF_vars(Store /\ UNCHANGED upsets)
    /\ WF_vars(DriveSuppression(TRUE) /\ UNCHANGED <<node, deposited, durable, disk, upsets>>)
    /\ WF_vars(SaveSuppression(TRUE) /\ UNCHANGED upsets)
    /\ WF_vars(Serve /\ UNCHANGED upsets)

FairSpec == Spec /\ Fairness
-----------------------------------------------------------------------------
(* Type invariant.                                                          *)
TypeOK ==
    /\ client \in Client /\ ~client.revoked /\ ~client.revised
    /\ results \in Seq(Resolved)
    /\ requests \subseteq [kind: Kind, ids: Chunks, current: BOOLEAN]
    /\ reply \in Reply \cup {None}
    /\ expired \subseteq Tid
    /\ queue \in Seq(Token)
    /\ workers \in [1 .. MaxWorkers -> Worker \cup {None}]
    /\ reserved \subseteq {MessageOf[t] : t \in Tid}
    /\ save \in Save \cup {None}
    /\ node \subseteq Tid /\ deposited \subseteq Tid /\ settled \subseteq Tid
    /\ receipt \in [Tid -> {"visible", "invisible", None}]
    /\ disk \in Ledger
    /\ upsets \in 0 .. MaxUpsets

(* "Waiting for local admission decisions or a durable suppression          *)
(* checkpoint" (propagation_client.rs:68): after a failure the client waits *)
(* only while an item is undecided or lxmd still has a ledger to persist.   *)
WaitsForSomething ==
    client.state = "AwaitingAdmission" /\ client.persistFailed =>
        client.pending # {} \/ client.dirty

(* Every message a node held is still there, or was durably decided here    *)
(* before the client had it purged, through lost and late purges, stale     *)
(* commits and crashes: "Remove downloaded messages from a propagation node *)
(* only after the receiving application confirms durable acceptance"        *)
(* (CHANGELOG.md:19).                                                       *)
NothingLost == deposited \subseteq node \cup settled

(* The IDs of an outstanding request are the front of the cursor that its   *)
(* answer will advance, whatever expires or is replaced meanwhile.          *)
CursorAligned ==
    client.request # None /\ client.request.kind # "List" =>
        LET cursor == IF client.request.kind = "Get" THEN client.wants
                      ELSE IF client.request.kind = "Haves" THEN client.haves
                      ELSE client.received
            ids == client.request.ids
        IN  \A i \in DOMAIN ids : i \in DOMAIN cursor /\ cursor[i] = ids[i]

Holders(t) ==
    Cardinality({i \in DOMAIN queue : queue[i].tid = t /\ queue[i].live})
    + Cardinality({w \in DOMAIN workers :
                     workers[w] # None /\ workers[w].tid = t /\ workers[w].live})
    + Cardinality({i \in DOMAIN results : results[i].tid = t /\ results[i].live})
    + (IF t \in client.unread THEN 1 ELSE 0)

Committing(m) == {w \in DOMAIN workers : /\ workers[w] # None
                                         /\ workers[w].stage \in {"validating", "writing", "done"}
                                         /\ MessageOf[workers[w].tid] = m}

(* An item the client waits for has exactly one holder of its authority:    *)
(* unread, queued, with a worker, or resolved and not yet polled; and a     *)
(* message is reserved exactly while one commit worker has it.              *)
OneHolder ==
    /\ \A t \in Tid : Holders(t) = (IF t \in client.pending THEN 1 ELSE 0)
    /\ \A m \in {MessageOf[t] : t \in Tid} :
          Cardinality(Committing(m)) = (IF m \in reserved THEN 1 ELSE 0)

(* No wants are requested before every rejection so far has reached the     *)
(* disk: a crash afterwards does not make the client fetch them again.      *)
Asks(kind) == client'.request # None /\ client'.request # client.request
              /\ client'.request.kind = kind
WantsAfterPersistence ==
    [][Asks("Get") => \A t \in Recorded(client.ledger) : disk[t] = client.ledger[t]]_vars

(* A cycle always ends, whatever was lost or failed on the way: no request, *)
(* admission or checkpoint is waited for without a limit.                   *)
CycleEnds == client.state \in Active ~> client.state \notin Active
=============================================================================
