------------------------------ MODULE RelayStore ------------------------------
(***************************************************************************)
(* The relay store of a propagation node: admission, retirement and start  *)
(* (crates/lxmf-core/src/propagation_node.rs) over its files               *)
(* (propagation_store_v2.rs), with the workers of lxmd that deposit        *)
(* (execute_pn_packet_job, spawn_propagation_store_writes), answer /get    *)
(* and do maintenance.                                                     *)
(*                                                                         *)
(* The node is behind a lock and plans there; files are written outside of *)
(* it, one publication or retirement at a time (STORE_MUTATION_LOCK).  An  *)
(* admission has files of its own, named by a random number: an object.    *)
(* Its writes are one step, with the write that fails or at which the      *)
(* process dies as a parameter.  Sizes are all 1.                          *)
(***************************************************************************)
EXTENDS Naturals, Sequences, FiniteSets

CONSTANTS
    Tids,               \* transient IDs
    Deposits,           \* packets and batches that arrive
    Batches,            \* the batches: Resources of peers, written without a proof
    EntriesOf,          \* what each carries: images of messages, by stamp
    Gets,               \* /get requests
    Nothing,
    Quota,              \* max_storage
    DirectoryBarrier,   \* whether the barrier of a removal covers the whole directory
    MaxObjects,         \* bound: admissions whose writes began
    MaxRelayFaults      \* bound: failed writes, deaths and power losses

Image == [tid: Tids, stamp: {1, 2}]
Object == 1 .. MaxObjects

ASSUME RelayAssumption ==
    /\ EntriesOf \in [Deposits -> Seq(Image)] /\ Batches \subseteq Deposits
    /\ Quota \in Nat /\ MaxObjects \in Nat /\ MaxRelayFaults \in Nat
    /\ DirectoryBarrier \in BOOLEAN
    /\ Nothing \notin Object \cup Tids \cup (Deposits \X Nat) \cup {"there"}
    /\ "maintenance" \notin Gets

VARIABLES
    index, body, manifest, marker,      \* the files of objects/
    tidOf,              \* the message an object is for
    node, unreconciled, \* "up", "down" or "starting", with deletions still to finish
    store,             \* store and object_paths
    retired,            \* RetiredEntries::ids
    reserved,           \* pending_admissions and pending_write_ids: whose write it is
    reservedBytes,      \* pending_write_bytes
    deposit,            \* the workers that store
    plan,               \* the workers that retire and read
    relayFaults

VARIABLES               \* history
    acked,              \* admissions acknowledged, but for those that were retired
    purged              \* admissions whose purge was acknowledged

relayFiles == <<index, body, manifest, marker, tidOf>>
start == <<node, unreconciled>>
relayMemory == <<store, retired, reserved, reservedBytes>>
relayHistory == <<acked, purged>>
relayVars == <<relayFiles, start, relayMemory, deposit, plan, relayFaults, relayHistory>>

Disk == INSTANCE DurableFile WITH None <- Nothing
NoFile == Disk!Settled(Nothing)

Arrived(d) == [state |-> "arrived", at |-> 1, object |-> Nothing, waits |-> {},
               result |-> [i \in DOMAIN EntriesOf[d] |-> "none"]]
NoPlan == [state |-> "none", retire |-> {}, doing |-> Nothing, covers |-> {}]
Planners == Gets \cup {"maintenance"}

RelayInit ==
    /\ index = [t \in Tids |-> NoFile]
    /\ body = [o \in Object |-> NoFile] /\ manifest = [o \in Object |-> NoFile]
    /\ marker = [o \in Object |-> NoFile] /\ tidOf = [o \in Object |-> Nothing]
    /\ node = "up" /\ unreconciled = {}
    /\ store = [t \in Tids |-> Nothing] /\ retired = {}
    /\ reserved = [t \in Tids |-> Nothing] /\ reservedBytes = 0
    /\ deposit = [d \in Deposits |-> Arrived(d)]
    /\ plan = [p \in Planners |-> NoPlan]
    /\ relayFaults = 0
    /\ acked = {} /\ purged = {}

-----------------------------------------------------------------------------
(* A sequence of writes stops at one that fails, or goes to its end.        *)

Stops(n) ==
    {[at |-> n + 1, how |-> "ok"]}
    \cup IF relayFaults = MaxRelayFaults THEN {}
         ELSE [at: 1..n, how: {"notCommitted", "uncertain", "killed", "torn"}]
Step(stop, i) == IF i < stop.at THEN "ok" ELSE IF i = stop.at THEN stop.how ELSE "none"
Fatal(stop) == stop.how \in {"killed", "torn"}
Faulty(stop) == relayFaults' = IF stop.how = "ok" THEN relayFaults ELSE relayFaults + 1

(* The process dies, and with it every worker.                              *)
LostDeposit(d) ==
    IF deposit[d] = Arrived(d) THEN Arrived(d) ELSE [Arrived(d) EXCEPT !.state = "ended"]

NodeDies ==
    /\ node' = "down" /\ unreconciled' = {}
    /\ store' = [t \in Tids |-> Nothing] /\ retired' = {}
    /\ reserved' = [t \in Tids |-> Nothing] /\ reservedBytes' = 0
    /\ deposit' = [d \in Deposits |-> LostDeposit(d)]
    /\ plan' = [p \in Planners |-> IF p \in Gets /\ plan[p].state # "none"
                                   THEN [NoPlan EXCEPT !.state = "ended"] ELSE NoPlan]

-----------------------------------------------------------------------------
(* propagation_store_v2.                                                    *)

Present(o) == manifest[o].vis # Nothing /\ body[o].vis # Nothing
Indexed(o) == index[tidOf[o]].vis = o

(* read_validated_file                                                      *)
Readable(o) == marker[o].vis = Nothing /\ Present(o) /\ Indexed(o)

Wrote(files, o, content, outcome) == [files EXCEPT ![o] = Disk!Written(@, content, outcome)]
Renewed(files, o, outcome) == [files EXCEPT ![o] = Disk!Reconciled(@, outcome)]

(* The three barriers of an admission that is there.                        *)
RenewBarriers(o, stop) ==
    /\ body' = Renewed(body, o, Step(stop, 1))
    /\ manifest' = Renewed(manifest, o, Step(stop, 2))
    /\ index' = Renewed(index, tidOf[o], Step(stop, 3))
    /\ UNCHANGED <<marker, tidOf>>

(* publish_object: object, provenance, then the index of its message.       *)
Drawn == {o \in Object : tidOf[o] # Nothing}

PublishNew(o, t, stop) ==
    /\ o = Cardinality(Drawn) + 1 /\ o \in Object
    /\ tidOf' = [tidOf EXCEPT ![o] = t]
    /\ body' = Wrote(body, o, "there", Step(stop, 1))
    /\ manifest' = Wrote(manifest, o, "there", Step(stop, 2))
    /\ index' = Wrote(index, t, o, Step(stop, 3))
    /\ UNCHANGED marker

(* retire_object: the intent first, and its removal last.  What fails after *)
(* the intent is left for the next start.                                   *)
RetireFails(o) == marker[o].vis = Nothing /\ manifest[o].vis = Nothing
Mut_Removed(file, stop, i) == Disk!Written(file, Nothing, Step(stop, 7 - i))   \* in reverse
Removed(file, stop, i) == Disk!Written(file, Nothing, Step(stop, i))
BarrierCovers(file, stop) ==
    IF DirectoryBarrier /\ stop.at > 3 THEN Disk!Settled(file.vis) ELSE file

RetireObject(o, stop) ==
    /\ ~RetireFails(o)
    /\ marker' = [marker EXCEPT ![o] =
                    Removed(Disk!Written(@, "there", Step(stop, 1)), stop, 5)]
    /\ index' = [index EXCEPT ![tidOf[o]] =
                    BarrierCovers(IF @.vis = o /\ manifest[o].vis # Nothing
                                  THEN Removed(@, stop, 2) ELSE @, stop)]
    /\ body' = [body EXCEPT ![o] = Removed(@, stop, 3)]
    /\ manifest' = [manifest EXCEPT ![o] = Removed(@, stop, 4)]
    /\ acked' = IF stop.at = 1 /\ stop.how \in {"notCommitted", "killed"} THEN acked
                ELSE acked \ {o}
    /\ UNCHANGED tidOf
Mut_IntentKept(stop) == TRUE           \* the purge is taken for done
IntentKept(stop) == stop.at > 1

-----------------------------------------------------------------------------
(* plan_opaque_admission.  A reservation lives while its outcome is         *)
(* pending.                                                                 *)

Up == node = "up" /\ UNCHANGED start
OutcomeOf(r) == deposit[r[1]].result[r[2]]
Live(r) == r # Nothing /\ OutcomeOf(r) = "pending"
Entry(d) == EntriesOf[d][deposit[d].at]

Contains(t) == store[t] # Nothing /\ store[t] \notin retired
Reaped == [t \in Tids |-> IF store[t] \in retired THEN Nothing ELSE store[t]]
Held(s) == Cardinality({t \in Tids : s[t] # Nothing})

(* reap_retired, and reservations whose owner is gone.                      *)
Tidy(reservations) ==
    /\ store' = Reaped /\ retired' = {}
    /\ reserved' = reservations /\ reservedBytes' = Held(reservations)
LiveReservations == [t \in Tids |-> IF Live(reserved[t]) THEN reserved[t] ELSE Nothing]

Becomes(d, state) == deposit' = [deposit EXCEPT ![d].state = state]
RoomLeft(n) == Held(Reaped) + Held(LiveReservations) + n <= Quota

(* A worker plans its next entry.  It may be refused for its stamp, its     *)
(* size, an ignored destination, or as another image of a pending message.  *)
Refused(d) == Tidy(LiveReservations) /\ Becomes(d, "refused")

Duplicate(d) ==
    /\ Contains(Entry(d).tid)
    /\ Tidy(LiveReservations)
    /\ deposit' = [deposit EXCEPT ![d].state = "checking", ![d].object = store[Entry(d).tid]]

Joins(d) ==
    LET r == LiveReservations[Entry(d).tid]
    IN  /\ ~Contains(Entry(d).tid) /\ r # Nothing
        /\ EntriesOf[r[1]][r[2]] = Entry(d)
        /\ Tidy(LiveReservations)
        /\ deposit' = [deposit EXCEPT ![d].waits = @ \cup {r}, ![d].at = @ + 1]

Reserves(d) ==
    /\ ~Contains(Entry(d).tid) /\ LiveReservations[Entry(d).tid] = Nothing /\ RoomLeft(0)
    /\ Tidy([LiveReservations EXCEPT ![Entry(d).tid] = <<d, deposit[d].at>>])
    /\ deposit' = [deposit EXCEPT ![d].state = "writing", ![d].result[deposit[d].at] = "pending"]

PlanEntry(d) ==
    /\ Up /\ d \notin Batches
    /\ deposit[d].state = "arrived" /\ deposit[d].at \in DOMAIN EntriesOf[d]
    /\ Refused(d) \/ Duplicate(d) \/ Joins(d) \/ Reserves(d)
    /\ UNCHANGED <<relayFiles, plan, relayFaults, relayHistory>>

(* handle_propagation_validation_result: the entries of a batch that are    *)
(* new, all reserved under one lock.                                        *)
NextWrite(result, i) == {j \in DOMAIN result : j >= i /\ result[j] = "pending"}
Least(s) == CHOOSE i \in s : \A j \in s : i <= j

ReserveBatch(d) ==
    /\ Up /\ d \in Batches /\ deposit[d].state = "arrived"
    /\ \E taken \in (SUBSET DOMAIN EntriesOf[d]) \ {{}} :
         LET tid(i) == EntriesOf[d][i].tid
             Owners(t) == {i \in taken : tid(i) = t}
         IN  /\ \A i \in taken : /\ ~Contains(tid(i)) /\ LiveReservations[tid(i)] = Nothing
                                 /\ Owners(tid(i)) = {i}
             /\ RoomLeft(Cardinality(taken) - 1)
             /\ Tidy([t \in Tids |-> IF Owners(t) = {} THEN LiveReservations[t]
                                     ELSE <<d, Least(Owners(t))>>])
             /\ deposit' = [deposit EXCEPT ![d].state = "writing", ![d].at = Least(taken),
                                           ![d].result = [i \in DOMAIN EntriesOf[d] |->
                                               IF i \in taken THEN "pending" ELSE "none"]]
    /\ UNCHANGED <<relayFiles, plan, relayFaults, relayHistory>>

(* After one entry: the next, or, for a packet, the end if it failed.       *)
Proceeds(d, result) ==
    LET more == NextWrite(result, deposit[d].at + 1)
    IN  deposit' = [deposit EXCEPT
            ![d].result = result, ![d].object = Nothing,
            ![d].at = IF d \notin Batches THEN @ + 1 ELSE IF more = {} THEN @ ELSE Least(more),
            ![d].state = IF d \notin Batches
                         THEN IF result[deposit[d].at] = "committed" THEN "arrived" ELSE "refused"
                         ELSE IF more = {} THEN "stored" ELSE "writing"]

(* persist: an error drops the reservation.                                 *)
Persisted(d, o, stop) ==
    IF Fatal(stop) THEN NodeDies
    ELSE /\ deposit' = IF stop.how = "ok"
                       THEN [deposit EXCEPT ![d].state = "written", ![d].object = o]
                       ELSE [deposit EXCEPT ![d].state = "aborting",
                                            ![d].result[deposit[d].at] = "failed"]
         /\ UNCHANGED <<start, relayMemory, plan>>

PersistWrite(d) ==
    LET e == index[Entry(d).tid].vis
    IN  /\ node = "up" /\ deposit[d].state = "writing"
        /\ \/ /\ e = Nothing
              /\ \E stop \in Stops(3), o \in Object :
                   PublishNew(o, Entry(d).tid, stop) /\ Persisted(d, o, stop) /\ Faulty(stop)
           \/ /\ e # Nothing /\ Readable(e)
              /\ \E stop \in Stops(3) : RenewBarriers(e, stop) /\ Persisted(d, e, stop) /\ Faulty(stop)
           \/ /\ e # Nothing /\ ~Readable(e)
              /\ deposit' = [deposit EXCEPT ![d].state = "aborting",
                                            ![d].result[deposit[d].at] = "failed"]
              /\ UNCHANGED <<relayFiles, start, relayMemory, plan, relayFaults>>
        /\ UNCHANGED relayHistory

(* abort_store_write, commit_store_write                                    *)
Aborted(t) ==
    IF reserved[t] = Nothing \/ Live(reserved[t]) THEN UNCHANGED <<reserved, reservedBytes>>
    ELSE reserved' = [reserved EXCEPT ![t] = Nothing] /\ reservedBytes' = reservedBytes - 1

AbortWrite(d) ==
    /\ Up /\ deposit[d].state = "aborting"
    /\ Aborted(Entry(d).tid)
    /\ Proceeds(d, deposit[d].result)
    /\ UNCHANGED <<relayFiles, store, retired, plan, relayFaults, relayHistory>>

CommitWrite(d) ==
    LET t == Entry(d).tid
        inserted == store[t] = Nothing
    IN  /\ Up /\ deposit[d].state = "written" /\ reserved[t] = <<d, deposit[d].at>>
        /\ reserved' = [reserved EXCEPT ![t] = Nothing] /\ reservedBytes' = reservedBytes - 1
        /\ store' = IF inserted THEN [store EXCEPT ![t] = deposit[d].object] ELSE store
        /\ Proceeds(d, [deposit[d].result EXCEPT ![deposit[d].at] =
                           IF inserted THEN "committed" ELSE "failed"])
        /\ acked' = IF inserted THEN acked \cup {deposit[d].object} ELSE acked
        /\ UNCHANGED <<relayFiles, retired, plan, relayFaults, purged>>

(* PropagationDuplicateCheck::verify                                        *)
Mut_Check(d) ==                        \* without another look at the files
    LET o == deposit[d].object
    IN  /\ node = "up" /\ deposit[d].state = "checking"
        /\ deposit' = [deposit EXCEPT ![d].state = "arrived", ![d].at = @ + 1]
        /\ acked' = acked \cup {o}
        /\ UNCHANGED <<relayFiles, start, relayMemory, plan, relayFaults, purged>>

Check(d) ==
    LET o == deposit[d].object
    IN  /\ node = "up" /\ deposit[d].state = "checking"
        /\ \/ /\ Readable(o)
              /\ \E stop \in Stops(3) :
                   /\ RenewBarriers(o, stop) /\ Faulty(stop)
                   /\ IF Fatal(stop) THEN NodeDies
                      ELSE /\ deposit' = IF stop.how = "ok"
                                         THEN [deposit EXCEPT ![d].state = "arrived",
                                                              ![d].at = @ + 1]
                                         ELSE [deposit EXCEPT ![d].state = "refused"]
                           /\ UNCHANGED <<start, relayMemory, plan>>
                   /\ acked' = IF stop.how = "ok" THEN acked \cup {o} ELSE acked
           \/ /\ ~Readable(o) /\ Becomes(d, "refused")
              /\ UNCHANGED <<relayFiles, start, relayMemory, plan, relayFaults, acked>>
        /\ UNCHANGED purged

(* The end of a packet, for which the pool may have to wait for others.     *)
PacketEnds(d) ==
    /\ node = "up" /\ d \notin Batches
    /\ deposit[d].state = "arrived" /\ deposit[d].at \notin DOMAIN EntriesOf[d]
    /\ \A r \in deposit[d].waits : OutcomeOf(r) # "pending"
    /\ Becomes(d, IF \A r \in deposit[d].waits : OutcomeOf(r) = "committed" THEN "stored"
                  ELSE "refused")
    /\ UNCHANGED <<relayFiles, start, relayMemory, plan, relayFaults, relayHistory>>

-----------------------------------------------------------------------------
(* handle_get_request of a client that has haves, and plan_maintenance.     *)

PlanGet(g) ==
    /\ Up /\ plan[g].state = "none"
    /\ \E haves \in (SUBSET Tids) \ {{}} :
         plan' = [plan EXCEPT ![g] =
             [NoPlan EXCEPT !.state = "retiring",
                            !.retire = {store[t] : t \in {u \in haves : Contains(u)}},
                            !.covers = {store[t] : t \in haves} \ {Nothing}]]
    /\ UNCHANGED <<relayFiles, relayMemory, deposit, relayFaults, relayHistory>>

PlanMaintenance ==
    /\ Up /\ plan["maintenance"].state = "none"
    /\ Tidy(reserved)
    /\ \E culled \in (SUBSET {t \in Tids : Reaped[t] # Nothing}) \ {{}} :
         /\ Held(Reaped) - Cardinality(culled) <= Quota
         /\ plan' = [plan EXCEPT !["maintenance"] =
                       [NoPlan EXCEPT !.state = "retiring",
                                      !.retire = {store[t] : t \in culled}]]
    /\ UNCHANGED <<relayFiles, deposit, relayFaults, relayHistory>>

(* PropagationRetirementPlan::persist: one object after the other, and none *)
(* after one that fails.                                                    *)
Ended(p) == IF p = "maintenance" THEN NoPlan ELSE [NoPlan EXCEPT !.state = "ended"]

PickObject(p, o) ==
    /\ node = "up" /\ plan[p].state = "retiring" /\ o \in plan[p].retire
    /\ plan' = [plan EXCEPT ![p].retire = @ \ {o},
                            ![p].state = IF o \in retired THEN @ ELSE "writing",
                            ![p].doing = IF o \in retired THEN Nothing ELSE o]
    /\ UNCHANGED <<relayFiles, start, relayMemory, deposit, relayFaults, relayHistory>>

RetireFile(p) ==
    LET o == plan[p].doing
    IN  /\ node = "up" /\ plan[p].state = "writing"
        /\ \/ /\ RetireFails(o)
              /\ plan' = [plan EXCEPT ![p] = Ended(p)]
              /\ UNCHANGED <<relayFiles, start, relayMemory, deposit, relayFaults, acked>>
           \/ \E stop \in Stops(5) :
                /\ RetireObject(o, stop) /\ Faulty(stop)
                /\ IF Fatal(stop) THEN NodeDies
                   ELSE /\ plan' = [plan EXCEPT ![p] = IF IntentKept(stop)
                                                       THEN [@ EXCEPT !.state = "committing"]
                                                       ELSE Ended(p)]
                        /\ UNCHANGED <<start, relayMemory, deposit>>
        /\ UNCHANGED purged

RetireCommit(p) ==
    /\ node = "up" /\ plan[p].state = "committing"
    /\ retired' = retired \cup {plan[p].doing}
    /\ plan' = [plan EXCEPT ![p].state = "retiring", ![p].doing = Nothing]
    /\ UNCHANGED <<relayFiles, start, store, reserved, reservedBytes, deposit, relayFaults,
                   relayHistory>>

(* The answer to a client, or the end of maintenance.                       *)
PlanEnds(p) ==
    /\ node = "up" /\ plan[p].state = "retiring" /\ plan[p].retire = {}
    /\ purged' = purged \cup plan[p].covers
    /\ plan' = [plan EXCEPT ![p] = IF p = "maintenance" THEN NoPlan
                                   ELSE [NoPlan EXCEPT !.state = "ended"]]
    /\ UNCHANGED <<relayFiles, start, relayMemory, deposit, relayFaults, acked>>

-----------------------------------------------------------------------------
(* with_storage after the process died: open_locked_store, reconcile_       *)
(* deletions and load_from_disk.                                            *)

Killed ==
    /\ node # "down" /\ relayFaults < MaxRelayFaults /\ relayFaults' = relayFaults + 1
    /\ NodeDies /\ UNCHANGED <<relayFiles, relayHistory>>

Uncertain(files) == {x \in DOMAIN files : Cardinality(files[x].may) > 1}
Kept(files, lost) ==
    [x \in DOMAIN files |-> IF x \in lost
                            THEN Disk!Settled(CHOOSE v \in files[x].may : v # files[x].vis)
                            ELSE Disk!Settled(files[x].vis)]

PowerFails ==
    /\ relayFaults < MaxRelayFaults /\ relayFaults' = relayFaults + 1
    /\ \E lost \in SUBSET Uncertain(body) : body' = Kept(body, lost)
    /\ \E lost \in SUBSET Uncertain(manifest) : manifest' = Kept(manifest, lost)
    /\ \E lost \in SUBSET Uncertain(marker) : marker' = Kept(marker, lost)
    /\ \E left \in [Tids -> Object \cup {Nothing}] :
         /\ \A t \in Tids : left[t] \in index[t].may
         /\ index' = [t \in Tids |-> Disk!Settled(left[t])]
    /\ NodeDies /\ UNCHANGED <<tidOf, relayHistory>>

OpenStore ==
    /\ node = "down" /\ node' = "starting"
    /\ unreconciled' = {o \in Object : marker[o].vis # Nothing}
    /\ UNCHANGED <<relayFiles, relayMemory, deposit, plan, relayFaults, relayHistory>>

ReconcileDeletion(o) ==
    /\ node = "starting" /\ o \in unreconciled
    /\ \E stop \in Stops(5) :
         /\ RetireObject(o, stop) /\ Faulty(stop)
         /\ IF Fatal(stop) \/ ~IntentKept(stop) THEN node' = "down" /\ unreconciled' = {}
            ELSE node' = node /\ unreconciled' = unreconciled \ {o}
    /\ UNCHANGED <<relayMemory, deposit, plan, purged>>

Loadable(o) == manifest[o].vis # Nothing /\ (marker[o].vis = Nothing => body[o].vis # Nothing)

Load ==
    /\ node = "starting" /\ unreconciled = {} /\ node' = "up"
    /\ \A t \in Tids : index[t].vis # Nothing => Loadable(index[t].vis)
    /\ store' = [t \in Tids |-> LET o == index[t].vis
                                 IN  IF o # Nothing /\ marker[o].vis = Nothing THEN o ELSE Nothing]
    /\ UNCHANGED <<relayFiles, unreconciled, retired, reserved, reservedBytes, deposit, plan,
                   relayFaults, acked, purged>>

RelayNext ==
    \/ \E d \in Deposits :
         \/ PlanEntry(d) \/ ReserveBatch(d) \/ PersistWrite(d) \/ AbortWrite(d) \/ CommitWrite(d)
         \/ Check(d) \/ PacketEnds(d)
    \/ \E g \in Gets : PlanGet(g)
    \/ PlanMaintenance
    \/ \E p \in Planners : RetireFile(p) \/ RetireCommit(p) \/ PlanEnds(p)
    \/ \E p \in Planners, o \in Object : PickObject(p, o)
    \/ Killed \/ PowerFails \/ OpenStore \/ Load
    \/ \E o \in Object : ReconcileDeletion(o)

RelaySpec == RelayInit /\ [][RelayNext]_relayVars

-----------------------------------------------------------------------------
(* Properties.                                                              *)

Files(content) == [vis: content \cup {Nothing}, may: SUBSET (content \cup {Nothing})]
Reservation == Deposits \X Nat

RelayTypeOK ==
    /\ index \in [Tids -> Files(Object)]
    /\ body \in [Object -> Files({"there"})] /\ manifest \in [Object -> Files({"there"})]
    /\ marker \in [Object -> Files({"there"})] /\ tidOf \in [Object -> Tids \cup {Nothing}]
    /\ node \in {"up", "down", "starting"} /\ unreconciled \subseteq Object
    /\ store \in [Tids -> Object \cup {Nothing}] /\ retired \subseteq Object
    /\ reserved \in [Tids -> Reservation \cup {Nothing}] /\ reservedBytes \in Nat
    /\ \A d \in Deposits :
         /\ deposit[d].state \in {"arrived", "writing", "written", "aborting", "checking",
                                  "stored", "refused", "ended"}
         /\ deposit[d].at \in Nat /\ deposit[d].object \in Object \cup {Nothing}
         /\ deposit[d].waits \subseteq Reservation
         /\ deposit[d].result \in [DOMAIN EntriesOf[d] -> {"none", "pending", "committed", "failed"}]
    /\ \A p \in Planners :
         /\ plan[p].state \in {"none", "retiring", "writing", "committing", "ended"}
         /\ plan[p].retire \subseteq Object /\ plan[p].doing \in Object \cup {Nothing}
         /\ plan[p].covers \subseteq Object
    /\ relayFaults \in 0 .. MaxRelayFaults
    /\ acked \subseteq Object /\ purged \subseteq Object

(* What was proved to a sender, as a new admission or as a duplicate, is in *)
(* the files whatever power loss takes, until its retirement began: deposits*)
(* race with culls and purges, and retries with writes that failed half-way *)
(* (plan_opaque_admission, publish_object, verify_committed_object).        *)
Keeps(file, v) == file.vis = v /\ file.may = {v}

DepositsDurable ==
    \A o \in acked :
        /\ Keeps(index[tidOf[o]], o) /\ Keeps(marker[o], Nothing)
        /\ Keeps(body[o], "there") /\ Keeps(manifest[o], "there")

(* What a client was told is purged is not read again, now or after a       *)
(* restart: its admission is out of the index for good or its deletion      *)
(* intent is in the files ("cannot authorize a successful remote purge      *)
(* response", PropagationRetirementPlan).                                   *)
PurgesFinal ==
    \A o \in purged :
        \/ Keeps(marker[o], "there")
        \/ index[tidOf[o]].vis # o /\ o \notin index[tidOf[o]].may

(* The node starts again from whatever is left: no index names an admission *)
(* without its files (load_from_disk refuses the whole store otherwise).    *)
Startable ==
    \A t \in Tids : \A o \in (index[t].may \cup {index[t].vis}) \ {Nothing} :
        Keeps(manifest[o], "there") /\ (Keeps(body[o], "there") \/ Keeps(marker[o], "there"))
=============================================================================
