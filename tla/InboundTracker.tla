---------------------------- MODULE InboundTracker ----------------------------
(***************************************************************************)
(* InboundResourceTracker (crates/lxmf-core/src/inbound_resource.rs): the  *)
(* router's registry of Resources being received on Links that peers       *)
(* opened, as lxmd feeds it.  The runtime that owns the transfers is       *)
(* external.  It reports starts, conclusions and closed Links on one       *)
(* stream that loses nothing, and progress on another, bounded one that    *)
(* drops what does not fit; lxmd reads the two apart from each other.      *)
(*                                                                         *)
(* Requests to cancel go the other way, through a bounded channel and a    *)
(* task that forwards them.                                                *)
(***************************************************************************)
EXTENDS Naturals, Sequences, FiniteSets

CONSTANTS
    Owners,             \* InboundResourceKey: <<link, resource>>
    Bytes,              \* data_size of every Resource
    MaxProgress,        \* capacity of the progress stream
    MaxCancels,         \* capacity of the cancellation channel
    MaxForwarded        \* ... and of the runtime's command channel

LinkOfKey(k) == k[1]
IdOf(k) == k[2]
OwnerLinks == {LinkOfKey(k) : k \in Owners}
Ids == {IdOf(k) : k \in Owners}

ASSUME TrackerAssumption ==
    /\ IsFiniteSet(Owners) /\ Bytes \in Nat /\ MaxProgress \in Nat
    /\ MaxCancels \in Nat /\ MaxForwarded \in Nat

VARIABLES
    transfer,           \* each Resource at its owner
    bytes,              \* ... bytes so far
    accounting,         \* delivery_accounting_rx: lossless
    progress,           \* delivery_resource_event_rx
    active,             \* InboundResourceTracker::active
    snapshot,           \* what a handle for each key shows
    cancels,            \* the cancellation channel
    commands            \* CancelLinkResource on its way to the runtime

transferOwner == <<transfer, bytes>>
streams == <<accounting, progress>>
tracker == <<active, snapshot>>
trackerVars == <<transferOwner, streams, tracker, cancels, commands>>

Conclusions == {"Complete", "Cancelled", "Rejected", "Failed"}
Unseen == [status |-> "unseen", transferred |-> 0]

(* LinkDeliveryAccountingEvent, and the progress of one Resource.           *)
AccountingEvent ==
    [kind: {"Started"}, key: Owners]
    \cup [kind: {"Concluded"}, key: Owners, conclusion: Conclusions]
    \cup [kind: {"LinkClosed"}, link: OwnerLinks]
ProgressEvent == [key: Owners, transferred: 0..Bytes]

TrackerTypeOK ==
    /\ transfer \in [Owners -> {"new", "running"} \cup Conclusions]
    /\ bytes \in [Owners -> 0..Bytes]
    /\ active \subseteq Owners
    /\ snapshot \in [Owners -> [status: {"unseen", "Receiving"} \cup Conclusions,
                                transferred: 0..Bytes]]
    /\ accounting \in Seq(AccountingEvent) /\ progress \in Seq(ProgressEvent)
    /\ cancels \in Seq(Owners) /\ commands \in Seq(Owners)
    /\ Len(progress) <= MaxProgress /\ Len(cancels) <= MaxCancels
    /\ Len(commands) <= MaxForwarded

TrackerInit ==
    /\ transfer = [k \in Owners |-> "new"]
    /\ bytes = [k \in Owners |-> 0]
    /\ accounting = <<>> /\ progress = <<>>
    /\ active = {}
    /\ snapshot = [k \in Owners |-> Unseen]
    /\ cancels = <<>> /\ commands = <<>>

-----------------------------------------------------------------------------
(* The runtime (external).                                                  *)

Begins(k) ==
    /\ transfer[k] = "new"
    /\ transfer' = [transfer EXCEPT ![k] = "running"]
    /\ accounting' = Append(accounting, [kind |-> "Started", key |-> k])
    /\ UNCHANGED <<bytes, progress, tracker, cancels, commands>>

Advances(k) ==
    /\ transfer[k] = "running" /\ bytes[k] < Bytes
    /\ bytes' = [bytes EXCEPT ![k] = @ + 1]
    /\ progress' = IF Len(progress) < MaxProgress
                   THEN Append(progress, [key |-> k, transferred |-> bytes[k] + 1])
                   ELSE progress
    /\ UNCHANGED <<transfer, accounting, tracker, cancels, commands>>

EndsAs(k, conclusion) ==
    /\ transfer' = [transfer EXCEPT ![k] = conclusion]
    /\ accounting' = Append(accounting,
                            [kind |-> "Concluded", key |-> k, conclusion |-> conclusion])

Finishes(k, conclusion) ==
    /\ transfer[k] = "running"
    /\ conclusion = "Complete" => bytes[k] = Bytes
    /\ EndsAs(k, conclusion)
    /\ UNCHANGED <<bytes, progress, tracker, cancels, commands>>

LinkEnds(l) ==
    /\ \E k \in Owners : LinkOfKey(k) = l /\ transfer[k] = "running"
    /\ transfer' = [k \in Owners |->
         IF LinkOfKey(k) = l /\ transfer[k] \in {"new", "running"} THEN "Failed" ELSE transfer[k]]
    /\ accounting' = Append(accounting, [kind |-> "LinkClosed", link |-> l])
    /\ UNCHANGED <<bytes, progress, tracker, cancels, commands>>

CommandArrives ==
    /\ commands # <<>>
    /\ commands' = Tail(commands)
    /\ LET k == Head(commands)
       IN  IF transfer[k] = "running" THEN EndsAs(k, "Cancelled")
           ELSE UNCHANGED <<transfer, accounting>>
    /\ UNCHANGED <<bytes, progress, tracker, cancels>>

-----------------------------------------------------------------------------
(* InboundResourceTracker::handle_event.                                    *)

Started(k) ==
    /\ active' = active \cup {k}
    /\ snapshot' = IF k \in active THEN snapshot
                   ELSE [snapshot EXCEPT ![k] = [status |-> "Receiving", transferred |-> 0]]

(* Those of keys that are active are closed.                                *)
ConcludedAll(keys, conclusion) ==
    /\ active' = active \ keys
    /\ snapshot' = [k \in Owners |->
         IF k \notin keys \cap active THEN snapshot[k]
         ELSE [status |-> conclusion,
               transferred |-> IF conclusion = "Complete" THEN Bytes
                               ELSE snapshot[k].transferred]]

(* Mutant: progress announces a Resource too.                               *)
Mut_ProgressSeen(k, n) ==
    /\ active' = active \cup {k}
    /\ snapshot' = [snapshot EXCEPT ![k] = [status |-> "Receiving", transferred |-> n]]

ProgressSeen(k, n) ==
    /\ snapshot' = IF k \in active THEN [snapshot EXCEPT ![k].transferred = n] ELSE snapshot
    /\ UNCHANGED active

(* handle_delivery_accounting_event                                         *)
ReadAccounting ==
    /\ accounting # <<>>
    /\ accounting' = Tail(accounting)
    /\ LET e == Head(accounting)
       IN  CASE e.kind = "Started" -> Started(e.key)
             [] e.kind = "Concluded" -> ConcludedAll({e.key}, e.conclusion)
             [] e.kind = "LinkClosed" ->
                  ConcludedAll({k \in Owners : LinkOfKey(k) = e.link}, "Failed")
    /\ UNCHANGED <<transferOwner, progress, cancels, commands>>

ReadProgress ==
    /\ progress # <<>>
    /\ progress' = Tail(progress)
    /\ ProgressSeen(Head(progress).key, Head(progress).transferred)
    /\ UNCHANGED <<transferOwner, accounting, cancels, commands>>

-----------------------------------------------------------------------------
(* Cancelling.                                                              *)

(* InboundResourceHandle::cancel: closed, or no room.                       *)
Asks(keys) ==
    /\ LET room == MaxCancels - Len(cancels)
       IN  cancels' = cancels \o SubSeq(keys, 1, IF Len(keys) < room THEN Len(keys) ELSE room)
    /\ UNCHANGED <<transferOwner, streams, tracker, commands>>

(* cancel_inbound: refused where the Resource is active on two Links.       *)
CancelById(i) == \E k \in active : {o \in active : IdOf(o) = i} = {k} /\ Asks(<<k>>)

CancelExact(k) == k \in active /\ Asks(<<k>>)

(* cancel_all_inbound: by their hashes, that is in any order.               *)
Orders(keys) ==
    {s \in [1 .. Cardinality(keys) -> keys] : \A i, j \in DOMAIN s : s[i] = s[j] => i = j}
CancelAll == active # {} /\ \E keys \in Orders(active) : Asks(keys)

(* forward_inbound_resource_cancellations                                   *)
ForwardCancels ==
    /\ cancels # <<>> /\ Len(commands) < MaxForwarded
    /\ cancels' = Tail(cancels)
    /\ commands' = Append(commands, Head(cancels))
    /\ UNCHANGED <<transferOwner, streams, tracker>>

TrackerNext ==
    \/ \E k \in Owners :
         \/ Begins(k) \/ Advances(k) \/ CancelExact(k)
         \/ \E conclusion \in Conclusions \ {"Cancelled"} : Finishes(k, conclusion)
    \/ \E l \in OwnerLinks : LinkEnds(l)
    \/ CommandArrives \/ ReadAccounting \/ ReadProgress
    \/ \E i \in Ids : CancelById(i)
    \/ CancelAll \/ ForwardCancels

TrackerSpec == TrackerInit /\ [][TrackerNext]_trackerVars

-----------------------------------------------------------------------------
(* Once the accounting stream is read, the registry lists the transfers     *)
(* that run and no other, whatever of the progress stream was dropped or is *)
(* still to be read; and what a handle shows as closed ended at the owner   *)
(* just so.                                                                 *)
TrackerExact ==
    /\ accounting = <<>> => active = {k \in Owners : transfer[k] = "running"}
    /\ \A k \in Owners :
         /\ snapshot[k].status \in Conclusions => snapshot[k].status = transfer[k]
         /\ k \in active => snapshot[k].status = "Receiving"
         /\ snapshot[k].transferred <= bytes[k]
=============================================================================
