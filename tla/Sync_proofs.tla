----------------------------- MODULE Sync_proofs -----------------------------
(***************************************************************************)
(* Proofs about peer sync: SyncAdmission, the side that is offered         *)
(* messages, for any Links, Resources, peers, static peers and limits, and *)
(* PeerSync, the side that offers them (what is marked handled for a peer, *)
(* the peer has or does not take, and a busy peer is the one of the        *)
(* attempt under way).                                                     *)
(***************************************************************************)
EXTENDS SyncAdmission, PeerSync, FiniteSetTheorems, TLAPS

(* The admission of inbound syncs.                                          *)

(* Nothing an event leaves in the queue was not posted.                     *)
LEMMA TailType ==
    ASSUME SyncTypeOK, events # <<>>
    PROVE  Head(events) \in Event /\ Tail(events) \in Seq(Event)
  BY DEF SyncTypeOK

LEMMA ReleaseType ==
    ASSUME SyncTypeOK, NEW r \in Resources, NEW owner, Release(r, owner)
    PROVE  record' \in [Links -> {"Accepted", "Transferring", "Validating", Absent}]
  BY ConfigAssumption DEF SyncTypeOK, Release

LEMMA DropType ==
    ASSUME SyncTypeOK, NEW r \in Resources, Drop(r)
    PROVE  correlation' \in [Resources -> Correlation \cup {Absent}]
  BY DEF SyncTypeOK, Drop

LEMMA StartedType ==
    ASSUME SyncTypeOK, NEW r \in Resources, ResourceStarted(r)
    PROVE  /\ record' \in [Links -> {"Accepted", "Transferring", "Validating", Absent}]
           /\ correlation' \in [Resources -> Correlation \cup {Absent}]
  <1>1. CASE UNCHANGED <<record, correlation>>
    BY <1>1 DEF SyncTypeOK
  <1>2. CASE Drop(r) /\ Release(r, "Offered")
    BY <1>2, ReleaseType, DropType
  <1>3. CASE /\ correlation[r] # Absent
             /\ correlation' = [correlation EXCEPT ![r].started = TRUE]
             /\ record' = IF correlation[r].owner = "Offered"
                          THEN [record EXCEPT ![LinkOf[r]] = "Transferring"] ELSE record
    BY ZenonT(60), <1>3, ConfigAssumption DEF SyncTypeOK, Correlation
  <1>4. QED
    BY <1>1, <1>2, <1>3 DEF ResourceStarted

LEMMA CompletedType ==
    ASSUME SyncTypeOK, NEW r \in Resources, ResourceCompleted(r)
    PROVE  /\ record' \in [Links -> {"Accepted", "Transferring", "Validating", Absent}]
           /\ correlation' \in [Resources -> Correlation \cup {Absent}]
           /\ pending' \in [Resources -> Pending \cup {Absent}]
           /\ jobs' \subseteq Resources
  <1>1. CASE UNCHANGED <<record, correlation, pending, jobs>>
    BY <1>1 DEF SyncTypeOK
  <1>2. CASE /\ Drop(r) /\ Release(r, correlation[r].owner)
             /\ UNCHANGED <<pending, jobs>>
    BY <1>2, ReleaseType, DropType DEF SyncTypeOK
  <1>3. CASE /\ correlation[r] # Absent
             /\ record' = IF correlation[r].owner = "Offered"
                          THEN [record EXCEPT ![LinkOf[r]] = "Validating"] ELSE record
             /\ pending' = [pending EXCEPT ![r] = [owner |-> correlation[r].owner,
                                                   peer |-> correlation[r].peer,
                                                   closed |-> FALSE]]
             /\ correlation' = [correlation EXCEPT ![r].dispatched = TRUE]
             /\ jobs' = jobs \cup {r}
    BY ZenonT(60), <1>3, ConfigAssumption DEF SyncTypeOK, Correlation, Pending
  <1>4. QED
    BY <1>1, <1>2, <1>3 DEF ResourceCompleted

LEMMA ConcludedType ==
    ASSUME SyncTypeOK, NEW r \in Resources, NEW complete \in BOOLEAN,
           ResourceConcluded(r, complete)
    PROVE  /\ record' \in [Links -> {"Accepted", "Transferring", "Validating", Absent}]
           /\ correlation' \in [Resources -> Correlation \cup {Absent}]
           /\ pending' \in [Resources -> Pending \cup {Absent}]
  <1>1. CASE correlation[r] = Absent
    BY <1>1 DEF SyncTypeOK, ResourceConcluded
  <1>2. CASE correlation[r] # Absent
    <2>1. record' \in [Links -> {"Accepted", "Transferring", "Validating", Absent}]
      BY <1>2, ReleaseType DEF ResourceConcluded, SyncTypeOK
    <2>2. correlation' \in [Resources -> Correlation \cup {Absent}]
      BY <1>2, DropType DEF ResourceConcluded
    <2>3. pending' \in [Resources -> Pending \cup {Absent}]
      BY <1>2 DEF ResourceConcluded, SyncTypeOK
    <2>4. QED
      BY <2>1, <2>2, <2>3
  <1>3. QED
    BY <1>1, <1>2

LEMMA ClosedType ==
    ASSUME SyncTypeOK, NEW l \in Links, LinkClosed(l)
    PROVE  /\ record' \in [Links -> {"Accepted", "Transferring", "Validating", Absent}]
           /\ correlation' \in [Resources -> Correlation \cup {Absent}]
           /\ pending' \in [Resources -> Pending \cup {Absent}]
           /\ validated' \subseteq Links /\ quarantined' \subseteq Links
           /\ candidate' \in BOOLEAN /\ (candidate' => candidate)
  <1>1. \A r \in Resources : pending[r] # Absent => [pending[r] EXCEPT !.closed = TRUE] \in Pending
    BY DEF SyncTypeOK, Pending
  <1>2. QED
    BY <1>1 DEF SyncTypeOK, LinkClosed, ClosedRecord

LEMMA EventType ==
    ASSUME SyncTypeOK, HandleEvent
    PROVE  SyncTypeOK'
  <1> DEFINE e == Head(events)
  <1>1. e \in Event /\ events' \in Seq(Event)
    BY TailType DEF HandleEvent
  <1>2. UNCHANGED <<throttled, offer, link, transfer>>
    BY DEF HandleEvent, manager
  <1>3. CASE e.kind = "Started" /\ ResourceStarted(e.resource)
    <2>1. e.resource \in Resources
      BY <1>1, <1>3 DEF Event
    <2>2. QED
      BY <1>1, <1>2, <1>3, <2>1, StartedType DEF SyncTypeOK, ResourceStarted, onLink
  <1>4. CASE e.kind = "Completion" /\ ResourceCompleted(e.resource)
    <2>1. e.resource \in Resources
      BY <1>1, <1>4 DEF Event
    <2>2. UNCHANGED <<candidate, validated, quarantined>>
      BY <1>4 DEF ResourceCompleted, onLink
    <2>3. QED
      BY <1>1, <1>2, <1>4, <2>1, <2>2, CompletedType DEF SyncTypeOK
  <1>5. CASE e.kind \in {"Complete", "Failed"} /\ ResourceConcluded(e.resource, e.kind = "Complete")
    <2>1. e.resource \in Resources
      BY <1>1, <1>5 DEF Event
    <2>2. UNCHANGED <<candidate, validated, quarantined, jobs>>
      BY <1>5 DEF ResourceConcluded, onLink
    <2>3. QED
      BY <1>1, <1>2, <1>5, <2>1, <2>2, ConcludedType DEF SyncTypeOK
  <1>6. CASE e.kind = "LinkClosed" /\ LinkClosed(e.link)
    <2>1. e.link \in Links
      BY <1>1, <1>6 DEF Event
    <2>2. jobs' = jobs
      BY <1>6 DEF LinkClosed
    <2>3. QED
      BY <1>1, <1>2, <1>6, <2>1, <2>2, ClosedType DEF SyncTypeOK
  <1>7. QED
    BY <1>3, <1>4, <1>5, <1>6 DEF HandleEvent

LEMMA OwnerType ==
    ASSUME SyncTypeOK, NEW l \in Links
    PROVE  OwnerOn(l) \in Owner
  BY DEF OwnerOn, Owner

LEMMA PostType ==
    ASSUME SyncTypeOK, NEW r \in Resources, NEW kinds, NEW status, Post(r, kinds, status),
           kinds \in {<<"Started">>, <<"Completion", "Complete">>, <<"Failed">>},
           status \in {"started", "over"}
    PROVE  SyncTypeOK'
  <1>1. \A i \in DOMAIN kinds : kinds[i] \in {"Started", "Completion", "Complete", "Failed"}
    OBVIOUS
  <1>2. [i \in DOMAIN kinds |-> [kind |-> kinds[i], resource |-> r]] \in Seq(Event)
    <2>1. \A i \in DOMAIN kinds : [kind |-> kinds[i], resource |-> r] \in Event
      BY <1>1 DEF Event
    <2>2. CASE kinds = <<"Completion", "Complete">>
      BY <2>1, <2>2
    <2>3. CASE kinds \in {<<"Started">>, <<"Failed">>}
      BY <2>1, <2>3
    <2>4. QED
      BY <2>2, <2>3
  <1>3. events' \in Seq(Event)
    BY <1>2 DEF Post, SyncTypeOK
  <1>4. QED
    BY <1>3 DEF Post, SyncTypeOK, runtime, admission

(* No step leaves the types.                                                *)
LEMMA TypeStep ==
    ASSUME SyncTypeOK, [SyncNext]_syncVars
    PROVE  SyncTypeOK'
  <1> USE ConfigAssumption
  <1>1. ASSUME NEW l \in Links, Identify(l)
        PROVE  SyncTypeOK'
    BY <1>1 DEF Identify, SyncTypeOK, runtime, admission
  <1>2. ASSUME NEW l \in Links, Preflight(l)
        PROVE  SyncTypeOK'
    BY <1>2 DEF Preflight, SyncTypeOK, manager
  <1>3. ASSUME NEW l \in Links, Close(l)
        PROVE  SyncTypeOK'
    <2>1. [kind |-> "LinkClosed", link |-> l] \in Event
      BY DEF Event
    <2>2. events' \in Seq(Event)
      BY <1>3, <2>1 DEF Close, SyncTypeOK
    <2>3. QED
      BY <1>3, <2>2 DEF Close, SyncTypeOK, runtime, admission
  <1>4. CASE Discard
    BY <1>4 DEF Discard, SyncTypeOK, manager
  <1>5. ASSUME NEW wanted \in BOOLEAN, Commit(wanted)
        PROVE  SyncTypeOK'
    <2>1. /\ record' \in [Links -> {"Accepted", "Transferring", "Validating", Absent}]
          /\ validated' \subseteq Links
      BY <1>5 DEF Commit, SyncTypeOK
    <2>2. QED
      BY <1>5, <2>1 DEF Commit, SyncTypeOK, manager
  <1>6. ASSUME NEW r \in Resources, NEW fits \in BOOLEAN, Advertise(r, fits)
        PROVE  SyncTypeOK'
    <2> DEFINE l == LinkOf[r]
               owner == OwnerOn(l)
               peer == IF owner = "Client" /\ link[l] # "identified" THEN Absent ELSE PeerOf[l]
    <2>1. owner \in Owner /\ peer \in Peers \cup {Absent}
      BY OwnerType
    <2>2. [owner |-> owner, peer |-> peer, started |-> FALSE, dispatched |-> FALSE]
            \in Correlation
      BY <2>1 DEF Correlation
    <2>3. correlation' \in [Resources -> Correlation \cup {Absent}]
      BY <1>6, <2>2 DEF Advertise, SyncTypeOK
    <2>4. /\ record' \in [Links -> {"Accepted", "Transferring", "Validating", Absent}]
          /\ transfer' \in [Resources -> {"new", "accepted", "started", "over"}]
      BY <1>6 DEF Advertise, SyncTypeOK
    <2>5. QED
      BY <1>6, <2>3, <2>4 DEF Advertise, SyncTypeOK
  <1>7. ASSUME NEW r \in Resources, Start(r) \/ Complete(r) \/ FailTransfer(r)
        PROVE  SyncTypeOK'
    BY <1>7, PostType DEF Start, Complete, FailTransfer
  <1>8. CASE HandleEvent
    BY <1>8, EventType
  <1>9. ASSUME NEW r \in Resources, NEW outcome \in Outcome, Conclude(r, outcome)
        PROVE  SyncTypeOK'
    <2>1. CASE pending[r] = Absent
      BY <1>9, <2>1 DEF Conclude, SyncTypeOK, manager
    <2>2. CASE pending[r] # Absent
      <3>1. record' \in [Links -> {"Accepted", "Transferring", "Validating", Absent}]
        BY <1>9, <2>2, ReleaseType DEF Conclude
      <3>2. pending[r] \in Pending
        BY <2>2 DEF SyncTypeOK
      <3>3. throttled' \subseteq Peers
        BY <1>9, <2>2, <3>2 DEF Conclude, Throttled, SyncTypeOK, Pending
      <3>4. pending' \in [Resources -> Pending \cup {Absent}]
        BY <1>9, <2>2 DEF Conclude, SyncTypeOK
      <3>5. quarantined' \subseteq Links
        BY <1>9, <2>2 DEF Conclude, SyncTypeOK
      <3>6. /\ jobs' \subseteq Resources
            /\ UNCHANGED <<offer, candidate, validated, correlation, link, transfer, events>>
        BY <1>9 DEF Conclude, SyncTypeOK, manager
      <3>7. QED
        BY <3>1, <3>3, <3>4, <3>5, <3>6 DEF SyncTypeOK
    <2>3. QED
      BY <2>1, <2>2
  <1>10. ASSUME NEW p \in Peers, Expire(p)
         PROVE  SyncTypeOK'
    BY <1>10 DEF Expire, SyncTypeOK, manager
  <1>11. CASE UNCHANGED syncVars
    BY <1>11 DEF syncVars, runtime, admission, manager, SyncTypeOK
  <1>12. QED
    BY <1>1, <1>2, <1>3, <1>4, <1>5, <1>6, <1>7, <1>8, <1>9, <1>10, <1>11 DEF SyncNext

(* Type correctness of the admission runtime and of what drives it.         *)
THEOREM SyncTypeCorrect == SyncSpec => []SyncTypeOK
  <1>1. SyncInit => SyncTypeOK
    <2>1. ASSUME SyncInit
          PROVE  events \in Seq(Event)
      BY <2>1 DEF SyncInit
    <2>2. QED
      BY <2>1 DEF SyncInit, SyncTypeOK
  <1>2. QED
    BY <1>1, TypeStep, PTL DEF SyncSpec
-----------------------------------------------------------------------------
(* The limit.  The count changes hands when a received batch goes from its  *)
(* transfer to its validation; it is the same transfer of the same peer     *)
(* that is counted, because ...                                             *)
PeersAgree ==
    \A r \in Resources :
        /\ transfer[r] = "new" => correlation[r] = Absent /\ pending[r] = Absent
        /\ correlation[r] # Absent /\ pending[r] # Absent => correlation[r].peer = pending[r].peer

LimitInv == SyncTypeOK /\ PeersAgree /\ WithinLimit

LEMMA CarriedFinite == IsFiniteSet(Carried)
  BY ConfigAssumption, FS_Subset, Carried \subseteq Resources DEF Carried

LEMMA FewerCarried ==
    ASSUME WithinLimit, Carried' \subseteq Carried
    PROVE  WithinLimit'
  <1>1. IsFiniteSet(Carried') /\ Cardinality(Carried') <= Cardinality(Carried)
    BY CarriedFinite, FS_Subset
  <1>2. Cardinality(Carried) \in Nat /\ Cardinality(Carried') \in Nat
    BY <1>1, CarriedFinite, FS_CardinalityType
  <1>3. QED
    BY <1>1, <1>2, ConfigAssumption DEF WithinLimit

LEMMA OneMoreCarried ==
    ASSUME NEW r \in Resources, Cardinality(Limited) < MaxInbound,
           Carried' \subseteq Carried \cup {r}
    PROVE  WithinLimit'
  <1>1. Limited = Carried
    BY DEF Limited, Carried
  <1>2. /\ IsFiniteSet(Carried \cup {r})
        /\ \/ Cardinality(Carried \cup {r}) = Cardinality(Carried)
           \/ Cardinality(Carried \cup {r}) = Cardinality(Carried) + 1
    BY CarriedFinite, FS_AddElement
  <1>3. IsFiniteSet(Carried') /\ Cardinality(Carried') <= Cardinality(Carried \cup {r})
    BY <1>2, FS_Subset
  <1>4. Cardinality(Carried) \in Nat /\ Cardinality(Carried') \in Nat
    BY <1>3, CarriedFinite, FS_CardinalityType
  <1>5. QED
    BY <1>1, <1>2, <1>3, <1>4, ConfigAssumption DEF WithinLimit

(* Steps that leave the counted entries alone, or only remove some.         *)
LEMMA LimitKept ==
    ASSUME LimitInv, SyncTypeOK',
           UNCHANGED <<correlation, pending>>,
           \A r \in Resources : transfer'[r] = "new" => transfer[r] = "new"
    PROVE  LimitInv'
  <1>1. PeersAgree'
    BY DEF LimitInv, PeersAgree
  <1>2. Carried' \subseteq Carried
    BY DEF Carried
  <1>3. QED
    BY <1>1, <1>2, FewerCarried DEF LimitInv

(* Steps that forget a correlation that has no validation.                  *)
LEMMA DropKept ==
    ASSUME LimitInv, SyncTypeOK', NEW r \in Resources, Drop(r), UNCHANGED <<pending, transfer>>
    PROVE  LimitInv'
  <1>1. correlation' = [correlation EXCEPT ![r] = Absent] /\ SyncTypeOK /\ PeersAgree
    BY DEF Drop, LimitInv
  <1>2. PeersAgree'
    BY <1>1 DEF PeersAgree, SyncTypeOK
  <1>3. Carried' \subseteq Carried
    BY <1>1 DEF PeersAgree, SyncTypeOK, Carried
  <1>4. QED
    BY <1>2, <1>3, FewerCarried DEF LimitInv

(* The correlation of r goes on, perhaps with a validation of the same peer.*)
Carries(r) ==
    /\ correlation[r] # Absent /\ correlation'[r] # Absent
    /\ correlation'[r].peer = correlation[r].peer
    /\ pending'[r] # pending[r] => pending'[r].peer = correlation[r].peer
    /\ \A q \in Resources \ {r} : correlation'[q] = correlation[q] /\ pending'[q] = pending[q]

LEMMA CarriesKept ==
    ASSUME LimitInv, SyncTypeOK', UNCHANGED transfer, NEW r \in Resources, Carries(r)
    PROVE  LimitInv'
  <1>1. PeersAgree'
    BY DEF PeersAgree, LimitInv, Carries
  <1>2. Carried' \subseteq Carried
    BY DEF PeersAgree, LimitInv, Carries, Carried
  <1>3. QED
    BY <1>1, <1>2, FewerCarried DEF LimitInv

LEMMA StartedCarries ==
    ASSUME SyncTypeOK, NEW r \in Resources, correlation[r] # Absent, UNCHANGED pending,
           correlation' = [correlation EXCEPT ![r].started = TRUE]
    PROVE  Carries(r)
  <1> DEFINE c == [correlation[r] EXCEPT !.started = TRUE]
  <1>1. correlation[r] \in Correlation
    BY DEF SyncTypeOK
  <1>2. c \in Correlation /\ c.peer = correlation[r].peer
    BY <1>1 DEF Correlation
  <1>3. correlation'[r] = c /\ \A q \in Resources \ {r} : correlation'[q] = correlation[q]
    BY DEF SyncTypeOK
  <1>4. QED
    BY <1>2, <1>3, AbsentAssumption DEF Carries

LEMMA CompletedCarries ==
    ASSUME SyncTypeOK, NEW r \in Resources, correlation[r] # Absent,
           pending' = [pending EXCEPT ![r] = [owner |-> correlation[r].owner,
                                              peer |-> correlation[r].peer,
                                              closed |-> FALSE]],
           correlation' = [correlation EXCEPT ![r].dispatched = TRUE]
    PROVE  Carries(r)
  <1> DEFINE c == [correlation[r] EXCEPT !.dispatched = TRUE]
  <1>1. correlation[r] \in Correlation
    BY DEF SyncTypeOK
  <1>2. c \in Correlation /\ c.peer = correlation[r].peer
    BY <1>1 DEF Correlation
  <1>3. correlation'[r] = c /\ \A q \in Resources \ {r} : correlation'[q] = correlation[q]
    BY DEF SyncTypeOK
  <1>4. /\ pending'[r].peer = correlation[r].peer
        /\ \A q \in Resources \ {r} : pending'[q] = pending[q]
    BY DEF SyncTypeOK
  <1>5. QED
    BY <1>2, <1>3, <1>4, AbsentAssumption DEF Carries

(* The daemon's events.                                                     *)
LEMMA LimitEvent ==
    ASSUME LimitInv, HandleEvent
    PROVE  LimitInv'
  <1> DEFINE e == Head(events)
  <1> USE ConfigAssumption, AbsentAssumption
  <1>1. SyncTypeOK' /\ e \in Event
    BY EventType, TailType DEF LimitInv, HandleEvent
  <1>2. transfer' = transfer /\ SyncTypeOK /\ PeersAgree /\ WithinLimit
    BY DEF HandleEvent, manager, LimitInv
  <1>3. CASE e.kind = "Started" /\ ResourceStarted(e.resource)
    <2>1. e.resource \in Resources /\ pending' = pending
      BY <1>1, <1>3 DEF Event, ResourceStarted
    <2>2. CASE Carries(e.resource)
      BY <1>1, <1>2, <2>1, <2>2, CarriesKept DEF LimitInv
    <2>3. CASE UNCHANGED correlation
      BY <1>1, <1>2, <2>1, <2>3, LimitKept
    <2>4. CASE Drop(e.resource)
      BY <1>1, <1>2, <2>1, <2>4, DropKept
    <2>5. Carries(e.resource) \/ UNCHANGED correlation \/ Drop(e.resource)
      BY <1>3, <1>2, <2>1, StartedCarries DEF ResourceStarted, SyncTypeOK
    <2>6. QED
      BY <2>2, <2>3, <2>4, <2>5
  <1>4. CASE e.kind = "Completion" /\ ResourceCompleted(e.resource)
    <2>1. e.resource \in Resources
      BY <1>1, <1>4 DEF Event
    <2>2. CASE Carries(e.resource)
      BY <1>1, <1>2, <2>1, <2>2, CarriesKept DEF LimitInv
    <2>3. CASE UNCHANGED <<correlation, pending>>
      BY <1>1, <1>2, <2>1, <2>3, LimitKept
    <2>4. CASE Drop(e.resource) /\ UNCHANGED pending
      BY <1>1, <1>2, <2>1, <2>4, DropKept
    <2>5. \/ Carries(e.resource) \/ UNCHANGED <<correlation, pending>>
          \/ Drop(e.resource) /\ UNCHANGED pending
      BY <1>4, <1>2, <2>1, CompletedCarries DEF ResourceCompleted, SyncTypeOK
    <2>6. QED
      BY <2>2, <2>3, <2>4, <2>5
  <1>5. CASE e.kind \in {"Complete", "Failed"} /\ ResourceConcluded(e.resource, e.kind = "Complete")
    <2>1. e.resource \in Resources
      BY <1>1, <1>5 DEF Event
    <2>2. PeersAgree'
      BY <1>2, <1>5, <2>1 DEF ResourceConcluded, Drop, PeersAgree, SyncTypeOK
    <2>3. Carried' \subseteq Carried
      BY <1>2, <1>5, <2>1 DEF ResourceConcluded, Drop, PeersAgree, SyncTypeOK, Carried
    <2>4. QED
      BY <1>1, <1>2, <2>2, <2>3, FewerCarried DEF LimitInv
  <1>6. CASE e.kind = "LinkClosed" /\ LinkClosed(e.link)
    <2>1. \A r \in Resources : pending[r] # Absent =>
             /\ [pending[r] EXCEPT !.closed = TRUE].peer = pending[r].peer
             /\ [pending[r] EXCEPT !.closed = TRUE] # Absent
      BY <1>2 DEF SyncTypeOK, Pending
    <2>2. \A r \in Resources :
             /\ correlation'[r] \in {Absent, correlation[r]}
             /\ pending[r] = Absent <=> pending'[r] = Absent
             /\ pending[r] # Absent => pending'[r].peer = pending[r].peer
      BY <1>2, <1>6, <2>1 DEF LinkClosed, SyncTypeOK
    <2>3. PeersAgree'
      BY <1>2, <2>2 DEF PeersAgree
    <2>4. Carried' \subseteq Carried
      BY <1>2, <2>2 DEF PeersAgree, Carried
    <2>5. QED
      BY <1>1, <1>2, <2>3, <2>4, FewerCarried DEF LimitInv
  <1>7. QED
    BY <1>3, <1>4, <1>5, <1>6 DEF HandleEvent

LEMMA LimitAdvertise ==
    ASSUME LimitInv, SyncTypeOK', NEW r \in Resources, NEW fits \in BOOLEAN, Advertise(r, fits)
    PROVE  LimitInv'
  <1> USE ConfigAssumption, AbsentAssumption
  <1> DEFINE l == LinkOf[r]
             owner == OwnerOn(l)
             peer == IF owner = "Client" /\ link[l] # "identified" THEN Absent ELSE PeerOf[l]
             room == Bypasses(peer) \/ Cardinality(Limited) < MaxInbound
             new == [owner |-> owner, peer |-> peer, started |-> FALSE, dispatched |-> FALSE]
  <1>1. /\ SyncTypeOK /\ PeersAgree /\ WithinLimit /\ pending' = pending
        /\ transfer[r] = "new" /\ transfer'[r] # "new"
        /\ \A q \in Resources \ {r} : transfer'[q] = transfer[q]
    BY DEF LimitInv, Advertise, SyncTypeOK
  <1>2. CASE UNCHANGED correlation
    BY <1>1, <1>2, LimitKept
  <1>3. CASE room /\ correlation' = [correlation EXCEPT ![r] = new]
    <2>1. correlation'[r] = new /\ \A q \in Resources \ {r} : correlation'[q] = correlation[q]
      BY <1>1, <1>3 DEF SyncTypeOK
    <2>2. new # Absent
      <3>1. peer \in Peers \cup {Absent}
        OBVIOUS
      <3>2. new \in Correlation
        BY <1>1, <3>1, OwnerType DEF Correlation
      <3>3. QED
        BY <3>2
    <2>3. PeersAgree'
      BY <1>1, <2>1 DEF PeersAgree
    <2>4. CASE Bypasses(peer)
      <3>1. new.peer = peer
        OBVIOUS
      <3> HIDE DEF new, peer
      <3>2. Carried' \subseteq Carried
        BY <1>1, <2>1, <2>2, <2>4, <3>1 DEF Carried
      <3>3. QED
        BY <1>1, <2>3, <3>2, FewerCarried DEF LimitInv
    <2>5. CASE Cardinality(Limited) < MaxInbound
      <3>1. Carried' \subseteq Carried \cup {r}
        BY <1>1, <2>1 DEF Carried
      <3>2. QED
        BY <2>3, <2>5, <3>1, OneMoreCarried DEF LimitInv
    <2>6. QED
      BY <1>3, <2>4, <2>5
  <1>4. QED
    BY <1>2, <1>3 DEF Advertise

LEMMA LimitStep ==
    ASSUME LimitInv, [SyncNext]_syncVars
    PROVE  LimitInv'
  <1>1. SyncTypeOK'
    BY TypeStep DEF LimitInv
  <1>2. ASSUME NEW r \in Resources, NEW fits \in BOOLEAN, Advertise(r, fits)
        PROVE  LimitInv'
    BY <1>1, <1>2, LimitAdvertise
  <1>3. CASE HandleEvent
    BY <1>3, LimitEvent
  <1>4. ASSUME NEW r \in Resources, NEW outcome \in Outcome, Conclude(r, outcome)
        PROVE  LimitInv'
    <2>1. SyncTypeOK /\ UNCHANGED <<correlation, transfer>>
      BY <1>4 DEF Conclude, manager, LimitInv
    <2>2. \A q \in Resources : pending'[q] \in {Absent, pending[q]}
      BY <1>4, <2>1 DEF Conclude, SyncTypeOK
    <2>3. PeersAgree'
      BY <2>1, <2>2 DEF LimitInv, PeersAgree
    <2>4. Carried' \subseteq Carried
      BY <2>1, <2>2 DEF Carried
    <2>5. QED
      BY <1>1, <2>3, <2>4, FewerCarried DEF LimitInv
  <1>5. ASSUME NEW l \in Links, Identify(l) \/ Preflight(l)
        PROVE  LimitInv'
    BY <1>1, <1>5, LimitKept DEF Identify, Preflight, runtime, manager
  <1>6. ASSUME NEW l \in Links, Close(l)
        PROVE  LimitInv'
    <2>1. UNCHANGED <<correlation, pending>>
      BY <1>6 DEF Close, runtime
    <2>2. \A r \in Resources : transfer'[r] = "new" => transfer[r] = "new"
      BY <1>6 DEF Close
    <2>3. QED
      BY <1>1, <2>1, <2>2, LimitKept
  <1>7. CASE Discard \/ \E wanted \in BOOLEAN : Commit(wanted)
    BY <1>1, <1>7, LimitKept DEF Discard, Commit, manager
  <1>8. ASSUME NEW r \in Resources, Start(r) \/ Complete(r) \/ FailTransfer(r)
        PROVE  LimitInv'
    <2>1. UNCHANGED <<correlation, pending>>
      BY <1>8 DEF Start, Complete, FailTransfer, Post, runtime
    <2>2. \A q \in Resources : transfer'[q] = "new" => transfer[q] = "new"
      BY <1>8 DEF Start, Complete, FailTransfer, Post, LimitInv, SyncTypeOK
    <2>3. QED
      BY <1>1, <2>1, <2>2, LimitKept
  <1>9. ASSUME NEW p \in Peers, Expire(p)
        PROVE  LimitInv'
    BY <1>1, <1>9, LimitKept DEF Expire, manager
  <1>10. CASE UNCHANGED syncVars
    BY <1>1, <1>10, LimitKept DEF syncVars, runtime, manager
  <1>11. QED
    BY <1>2, <1>3, <1>4, <1>5, <1>6, <1>7, <1>8, <1>9, <1>10 DEF SyncNext

(* However late the daemon takes the link manager's events, the transfers   *)
(* and validations the runtime carries never exceed max_inbound_syncs.      *)
THEOREM LimitHolds == SyncSpec => []WithinLimit
  <1>1. SyncInit => LimitInv
    <2>1. ASSUME SyncInit
          PROVE  SyncTypeOK
      <3>1. events \in Seq(Event)
        BY <2>1 DEF SyncInit
      <3>2. QED
        BY <2>1, <3>1 DEF SyncInit, SyncTypeOK
    <2>2. ASSUME SyncInit
          PROVE  PeersAgree /\ Carried = {}
      BY <2>2 DEF SyncInit, PeersAgree, Carried
    <2>3. QED
      BY <2>1, <2>2, FS_EmptySet, ConfigAssumption DEF LimitInv, WithinLimit
  <1>2. LimitInv => WithinLimit
    BY DEF LimitInv
  <1>3. QED
    BY <1>1, <1>2, LimitStep, PTL DEF SyncSpec
-----------------------------------------------------------------------------
(* Authority.  A Link that holds a record has accepted an offer.            *)
RecordsValidated == \A l \in Links : record[l] # Absent => l \in validated

AuthInv == SyncTypeOK /\ RecordsValidated /\ Authorized

(* Steps that neither validate nor forget a Link: what they add to the      *)
(* records and to the correlations continues an entry that was there.       *)
LEMMA AuthKept ==
    ASSUME AuthInv, SyncTypeOK', validated \subseteq validated',
           \A l \in Links : record'[l] # Absent => record[l] # Absent \/ l \in validated',
           \A r \in Resources :
              correlation'[r] # Absent /\ correlation'[r].owner # "Client" =>
                 \/ correlation[r] # Absent /\ correlation[r].owner # "Client"
                 \/ LinkOf[r] \in validated'
    PROVE  AuthInv'
  BY ConfigAssumption DEF AuthInv, RecordsValidated, Authorized

LEMMA AuthEvent ==
    ASSUME AuthInv, HandleEvent
    PROVE  AuthInv'
  <1> DEFINE e == Head(events)
  <1> USE ConfigAssumption
  <1>1. SyncTypeOK' /\ SyncTypeOK /\ e \in Event
    BY EventType, TailType DEF AuthInv, HandleEvent
  <1>2. CASE e.kind = "Started" /\ ResourceStarted(e.resource)
    <2>1. e.resource \in Resources /\ validated' = validated
      BY <1>1, <1>2 DEF Event, ResourceStarted, onLink
    <2>2. CASE UNCHANGED <<record, correlation>>
      BY <1>1, <2>1, <2>2, AuthKept
    <2>3. CASE Drop(e.resource) /\ Release(e.resource, "Offered")
      BY <1>1, <2>1, <2>3, AuthKept DEF Drop, Release, SyncTypeOK
    <2>4. CASE /\ correlation[e.resource] # Absent
               /\ correlation' = [correlation EXCEPT ![e.resource].started = TRUE]
               /\ record' = IF correlation[e.resource].owner = "Offered"
                            THEN [record EXCEPT ![LinkOf[e.resource]] = "Transferring"]
                            ELSE record
      <3>1. correlation'[e.resource].owner = correlation[e.resource].owner
        BY <1>1, <2>1, <2>4 DEF SyncTypeOK, Correlation
      <3>2. correlation[e.resource].owner = "Offered" => LinkOf[e.resource] \in validated
        BY <2>1, <2>4 DEF AuthInv, Authorized
      <3>3. QED
        BY <1>1, <2>1, <2>4, <3>1, <3>2, AuthKept DEF SyncTypeOK
    <2>5. QED
      BY <1>2, <2>2, <2>3, <2>4 DEF ResourceStarted
  <1>3. CASE e.kind = "Completion" /\ ResourceCompleted(e.resource)
    <2>1. e.resource \in Resources /\ validated' = validated
      BY <1>1, <1>3 DEF Event, ResourceCompleted, onLink
    <2>2. CASE UNCHANGED <<record, correlation>>
      BY <1>1, <2>1, <2>2, AuthKept
    <2>3. CASE Drop(e.resource) /\ Release(e.resource, correlation[e.resource].owner)
      BY <1>1, <2>1, <2>3, AuthKept DEF Drop, Release, SyncTypeOK
    <2>4. CASE /\ correlation[e.resource] # Absent
               /\ correlation' = [correlation EXCEPT ![e.resource].dispatched = TRUE]
               /\ record' = IF correlation[e.resource].owner = "Offered"
                            THEN [record EXCEPT ![LinkOf[e.resource]] = "Validating"]
                            ELSE record
      <3>1. correlation'[e.resource].owner = correlation[e.resource].owner
        BY <1>1, <2>1, <2>4 DEF SyncTypeOK, Correlation
      <3>2. correlation[e.resource].owner = "Offered" => LinkOf[e.resource] \in validated
        BY <2>1, <2>4 DEF AuthInv, Authorized
      <3>3. QED
        BY <1>1, <2>1, <2>4, <3>1, <3>2, AuthKept DEF SyncTypeOK
    <2>5. QED
      BY <1>3, <2>2, <2>3, <2>4 DEF ResourceCompleted
  <1>4. CASE e.kind \in {"Complete", "Failed"} /\ ResourceConcluded(e.resource, e.kind = "Complete")
    <2>1. e.resource \in Resources /\ validated' = validated
      BY <1>1, <1>4 DEF Event, ResourceConcluded, onLink
    <2>2. QED
      BY <1>1, <1>4, <2>1, AuthKept DEF ResourceConcluded, Drop, Release, SyncTypeOK
  <1>5. CASE e.kind = "LinkClosed" /\ LinkClosed(e.link)
    BY <1>1, <1>5 DEF LinkClosed, ClosedRecord, SyncTypeOK, AuthInv, RecordsValidated, Authorized
  <1>6. QED
    BY <1>2, <1>3, <1>4, <1>5 DEF HandleEvent

LEMMA AuthAdvertise ==
    ASSUME AuthInv, SyncTypeOK', NEW r \in Resources, NEW fits \in BOOLEAN, Advertise(r, fits)
    PROVE  AuthInv'
  <1> USE ConfigAssumption
  <1>1. SyncTypeOK /\ validated' = validated /\ LinkOf[r] \in Links
    BY DEF Advertise, AuthInv
  <1>2. OwnerOn(LinkOf[r]) # "Client" => LinkOf[r] \in validated
    BY <1>1, AbsentAssumption DEF OwnerOn, AuthInv, RecordsValidated
  <1>3. \A l \in Links : record'[l] # Absent => record[l] # Absent
    BY <1>1 DEF Advertise, SyncTypeOK
  <1>4. \A q \in Resources :
           correlation'[q] # Absent /\ correlation'[q].owner # "Client" =>
              \/ correlation[q] # Absent /\ correlation[q].owner # "Client"
              \/ LinkOf[q] \in validated
    BY <1>1, <1>2 DEF Advertise, SyncTypeOK
  <1>5. QED
    BY <1>1, <1>3, <1>4, AuthKept

LEMMA AuthStep ==
    ASSUME AuthInv, [SyncNext]_syncVars
    PROVE  AuthInv'
  <1>1. SyncTypeOK' /\ SyncTypeOK
    BY TypeStep DEF AuthInv
  <1>2. ASSUME NEW r \in Resources, NEW fits \in BOOLEAN, Advertise(r, fits)
        PROVE  AuthInv'
    BY <1>1, <1>2, AuthAdvertise
  <1>3. CASE HandleEvent
    BY <1>3, AuthEvent
  <1>4. ASSUME NEW r \in Resources, NEW outcome \in Outcome, Conclude(r, outcome)
        PROVE  AuthInv'
    BY <1>1, <1>4, AuthKept, ConfigAssumption DEF Conclude, Release, SyncTypeOK
  <1>5. ASSUME NEW wanted \in BOOLEAN, Commit(wanted)
        PROVE  AuthInv'
    BY <1>1, <1>5, AuthKept DEF Commit, SyncTypeOK
  <1>6. ASSUME NEW l \in Links, Identify(l) \/ Preflight(l) \/ Close(l)
        PROVE  AuthInv'
    BY <1>1, <1>6, AuthKept DEF Identify, Preflight, Close, runtime, admission
  <1>7. ASSUME NEW r \in Resources, Start(r) \/ Complete(r) \/ FailTransfer(r)
        PROVE  AuthInv'
    <2>1. UNCHANGED <<record, validated, correlation>>
      BY <1>7 DEF Start, Complete, FailTransfer, Post, runtime, admission
    <2>2. QED
      BY <1>1, <2>1, AuthKept
  <1>8. ASSUME NEW p \in Peers, Expire(p)
        PROVE  AuthInv'
    BY <1>1, <1>8, AuthKept DEF Expire
  <1>9. CASE Discard
    BY <1>1, <1>9, AuthKept DEF Discard
  <1>10. CASE UNCHANGED syncVars
    BY <1>1, <1>10, AuthKept DEF syncVars, runtime, admission
  <1>11. QED
    BY <1>2, <1>3, <1>4, <1>5, <1>6, <1>7, <1>8, <1>9, <1>10 DEF SyncNext

(* A transfer is taken for a peer's batch only on a Link whose peer proved  *)
(* its peering key; naming itself is not enough.                            *)
THEOREM AuthorizedHolds == SyncSpec => []Authorized
  <1>1. SyncInit => AuthInv
    <2>1. ASSUME SyncInit
          PROVE  SyncTypeOK
      <3>1. events \in Seq(Event)
        BY <2>1 DEF SyncInit
      <3>2. QED
        BY <2>1, <3>1 DEF SyncInit, SyncTypeOK
    <2>2. ASSUME SyncInit
          PROVE  RecordsValidated /\ Authorized
      BY <2>2 DEF SyncInit, RecordsValidated, Authorized
    <2>3. QED
      BY <2>1, <2>2 DEF AuthInv
  <1>2. AuthInv => Authorized
    BY DEF AuthInv
  <1>3. QED
    BY <1>1, <1>2, AuthStep, PTL DEF SyncSpec
-----------------------------------------------------------------------------
(* Slots.  An offered Resource is under way, then validated.                *)
Uploads(r) == correlation[r] # Absent /\ correlation[r].owner = "Offered" /\ ~correlation[r].dispatched
Validates(r) == pending[r] # Absent /\ pending[r].owner = "Offered" /\ ~pending[r].closed
Live(r) == Uploads(r) \/ Validates(r)

(* At most one Resource of a Link has its record, which says how far that   *)
(* Resource is.                                                             *)
RecordRight(l) ==
    /\ \A r \in Resources : LinkOf[r] = l =>
          /\ Uploads(r) => record[l] = IF correlation[r].started THEN "Transferring" ELSE "Accepted"
          /\ Validates(r) => record[l] = "Validating"
    /\ \A r, q \in Resources : LinkOf[r] = l /\ LinkOf[q] = l /\ Live(r) /\ Live(q) => r = q
    /\ record[l] = "Transferring" =>
          \E r \in Resources : LinkOf[r] = l /\ Uploads(r) /\ correlation[r].started
    /\ record[l] = "Validating" => \E r \in Resources : LinkOf[r] = l /\ Validates(r)

(* A payload is validated once its Resource was started and dispatched.     *)
Together(r) ==
    correlation[r] # Absent => /\ ~correlation[r].dispatched => pending[r] = Absent
                               /\ correlation[r].dispatched => correlation[r].started

(* The link manager posts the end of a Resource last, and only one.         *)
Undispatched(r) == correlation[r] # Absent => ~correlation[r].dispatched
InQueue(kinds, r) == \E i \in DOMAIN events : events[i].kind \in kinds /\ events[i].resource = r
Ends == {"Completion", "Complete", "Failed"}
InOrder(r) ==
    /\ transfer[r] = "new" => correlation[r] = Absent /\ pending[r] = Absent
    /\ transfer[r] # "over" => ~InQueue(Ends, r) /\ Undispatched(r)
    /\ InQueue({"Failed"}, r) => ~InQueue({"Completion"}, r) /\ Undispatched(r)

(* What a Link leaves when the daemon has seen it close, and when it has.   *)
Forgotten(l) ==
    /\ l \notin validated \cup quarantined /\ record[l] = Absent
    /\ \A r \in Resources :
          LinkOf[r] = l => correlation[r] = Absent /\ (pending[r] # Absent => pending[r].closed)
    /\ offer = l => ~candidate
CloseQueued(l) == \E i \in DOMAIN events : events[i].kind = "LinkClosed" /\ events[i].link = l
ClosedRight(l) ==
    /\ CloseQueued(l) => link[l] = "down"
    /\ link[l] = "down" /\ ~CloseQueued(l) => Forgotten(l)
    /\ \A r \in Resources : LinkOf[r] = l /\ pending[r] # Absent /\ pending[r].closed =>
                              link[l] = "down" /\ Forgotten(l)

Core == (\A l \in Links : RecordRight(l)) /\ (\A r \in Resources : Together(r))
SlotInv ==
    /\ SyncTypeOK /\ Core
    /\ \A r \in Resources : InOrder(r)
    /\ \A l \in Links : ClosedRight(l)

-----------------------------------------------------------------------------
(* Steps on records, correlations and validations.                          *)

LEMMA CoreSame ==
    ASSUME Core, UNCHANGED <<record, correlation, pending>>
    PROVE  Core'
  BY DEF Core, RecordRight, Together, Live, Uploads, Validates

(* A step on one Resource and the record of its Link.                       *)
LEMMA CoreOne ==
    ASSUME Core, NEW r \in Resources, NEW l \in Links, l = LinkOf[r],
           \A q \in Resources \ {r} : correlation'[q] = correlation[q] /\ pending'[q] = pending[q],
           \A k \in Links \ {l} : record'[k] = record[k],
           RecordRight(l)', Together(r)'
    PROVE  Core'
  <1>1. ASSUME NEW q \in Resources PROVE Together(q)'
    BY DEF Core, Together
  <1>2. ASSUME NEW k \in Links PROVE RecordRight(k)'
    <2>1. CASE k = l
      BY <2>1
    <2>2. CASE k # l
      <3>1. RecordRight(k) /\ record'[k] = record[k]
        BY <2>2 DEF Core
      <3>2. \A q \in Resources : LinkOf[q] = k => /\ Uploads(q)' = Uploads(q)
                                                  /\ Validates(q)' = Validates(q)
                                                  /\ correlation'[q] = correlation[q]
        BY <2>2 DEF Uploads, Validates
      <3>3. \A q \in Resources : LinkOf[q] = k => Live(q)' = Live(q)
        BY <3>2 DEF Live
      <3> QED
        BY <3>1, <3>2, <3>3 DEF RecordRight
    <2> QED
      BY <2>1, <2>2
  <1> QED
    BY <1>1, <1>2 DEF Core

(* A Link without a live Resource, and with no record that speaks of one.   *)
LEMMA NoneLive ==
    ASSUME NEW l, \A r \in Resources : LinkOf[r] = l => ~Live(r)',
           record'[l] \notin {"Transferring", "Validating"}
    PROVE  RecordRight(l)'
  BY DEF RecordRight, Live

(* The one live Resource of a Link, and its record.                         *)
LEMMA OneLive ==
    ASSUME NEW l, NEW r \in Resources, LinkOf[r] = l,
           \A q \in Resources \ {r} : LinkOf[q] = l => ~Live(q)',
           \/ /\ Uploads(r)' /\ ~Validates(r)'
              /\ record'[l] = IF correlation'[r].started THEN "Transferring" ELSE "Accepted"
           \/ Validates(r)' /\ ~Uploads(r)' /\ record'[l] = "Validating"
    PROVE  RecordRight(l)'
  BY DEF RecordRight, Live

(* A Resource without the record: neither it nor the record changes.        *)
LEMMA NotLive ==
    ASSUME NEW l, RecordRight(l), NEW r \in Resources, LinkOf[r] = l, ~Live(r), ~Live(r)',
           \A q \in Resources \ {r} : correlation'[q] = correlation[q] /\ pending'[q] = pending[q],
           record'[l] = record[l]
    PROVE  RecordRight(l)'
  <1>1. \A q \in Resources : /\ Uploads(q)' = Uploads(q) /\ Validates(q)' = Validates(q)
                             /\ Uploads(q) => correlation'[q] = correlation[q]
    BY DEF Live, Uploads, Validates
  <1>2. \A q \in Resources : Live(q)' = Live(q)
    BY <1>1 DEF Live
  <1> QED
    BY <1>1, <1>2 DEF RecordRight

(* The owner of a Link's record is alone: when it ends, nothing is live.    *)
LEMMA OwnerAlone ==
    ASSUME Core, NEW r \in Resources, NEW l \in Links, l = LinkOf[r], Live(r),
           \A q \in Resources \ {r} : correlation'[q] = correlation[q] /\ pending'[q] = pending[q]
    PROVE  \A q \in Resources \ {r} : LinkOf[q] = l => ~Live(q)'
  <1>1. \A q \in Resources \ {r} : LinkOf[q] = l => ~Live(q)
    BY DEF Core, RecordRight
  <1> QED
    BY <1>1 DEF Live, Uploads, Validates

LEMMA CorrelationMarked ==
    ASSUME NEW c \in Correlation
    PROVE  /\ [c EXCEPT !.started = TRUE] \in Correlation
           /\ [c EXCEPT !.started = TRUE].owner = c.owner
           /\ [c EXCEPT !.started = TRUE].dispatched = c.dispatched
           /\ [c EXCEPT !.started = TRUE].started = TRUE
           /\ [c EXCEPT !.dispatched = TRUE] \in Correlation
           /\ [c EXCEPT !.dispatched = TRUE].owner = c.owner
           /\ [c EXCEPT !.dispatched = TRUE].started = c.started
           /\ [c EXCEPT !.dispatched = TRUE].dispatched = TRUE
  BY DEF Correlation

LEMMA CoreStarted ==
    ASSUME SyncTypeOK, Core, NEW r \in Resources, ResourceStarted(r)
    PROVE  Core'
  <1> DEFINE l == LinkOf[r]
             c == correlation[r]
  <1>0. l \in Links /\ pending' = pending
    BY ConfigAssumption DEF ResourceStarted
  <1>1. CASE UNCHANGED <<record, correlation>>
    BY <1>0, <1>1, CoreSame
  <1>2. CASE c # Absent /\ ~c.started /\ c.owner = "Offered"
    <2>1. ~c.dispatched /\ pending[r] = Absent /\ record[l] = "Accepted" /\ Live(r)
      BY <1>0, <1>2 DEF SyncTypeOK, Correlation, Core, Together, RecordRight, Uploads, Live
    <2>2. /\ correlation' = [correlation EXCEPT ![r].started = TRUE]
          /\ record' = [record EXCEPT ![l] = "Transferring"]
      BY <1>2, <2>1 DEF ResourceStarted
    <2>3. /\ correlation'[r] = [c EXCEPT !.started = TRUE]
          /\ record'[l] = "Transferring"
          /\ \A q \in Resources \ {r} : correlation'[q] = correlation[q] /\ pending'[q] = pending[q]
          /\ \A k \in Links \ {l} : record'[k] = record[k]
      BY <1>0, <2>2 DEF SyncTypeOK
    <2>4. /\ correlation'[r] # Absent /\ correlation'[r].owner = "Offered"
          /\ ~correlation'[r].dispatched /\ correlation'[r].started
      <3>1. c \in Correlation
        BY <1>2 DEF SyncTypeOK
      <3> QED
        BY ZenonT(60), <1>2, <2>1, <2>3, <3>1, CorrelationMarked, AbsentAssumption
    <2>5. Together(r)'
      BY <1>0, <2>1, <2>4 DEF Together
    <2>6. \A q \in Resources \ {r} : LinkOf[q] = l => ~Live(q)'
      BY <1>0, <2>1, <2>3, OwnerAlone
    <2>7. Uploads(r)' /\ ~Validates(r)'
      BY <1>0, <2>1, <2>4 DEF Uploads, Validates
    <2>8. RecordRight(l)'
      BY <2>3, <2>4, <2>6, <2>7, OneLive
    <2> QED
      BY <1>0, <2>3, <2>5, <2>8, CoreOne
  <1>3. CASE c # Absent /\ ~c.started /\ c.owner # "Offered"
    <2>1. /\ correlation' = [correlation EXCEPT ![r].started = TRUE] /\ record' = record
      BY <1>3 DEF ResourceStarted
    <2>2. /\ correlation'[r] = [c EXCEPT !.started = TRUE]
          /\ \A q \in Resources \ {r} : correlation'[q] = correlation[q] /\ pending'[q] = pending[q]
      BY <1>0, <2>1 DEF SyncTypeOK
    <2>3. /\ correlation'[r].owner = c.owner /\ correlation'[r].dispatched = c.dispatched
          /\ correlation'[r].started
      BY <1>3, <2>2 DEF SyncTypeOK, Correlation
    <2>4. Together(r)' /\ (c.dispatched \/ pending[r] = Absent)
      BY <1>0, <1>3, <2>3 DEF Core, Together
    <2>5. Uploads(r) = FALSE /\ Uploads(r)' = FALSE /\ Validates(r)' = Validates(r)
      BY <1>0, <1>3, <2>3 DEF Uploads, Validates
    <2>6. RecordRight(l)'
      <3>1. \A q \in Resources : /\ Uploads(q)' = Uploads(q) /\ Validates(q)' = Validates(q)
                                 /\ Uploads(q) => correlation'[q] = correlation[q]
        BY <2>2, <2>5 DEF Uploads, Validates
      <3>2. \A q \in Resources : Live(q)' = Live(q)
        BY <3>1 DEF Live
      <3>3. RecordRight(l) /\ record'[l] = record[l]
        BY <1>0, <2>1 DEF Core
      <3> HIDE DEF l, c
      <3> QED
        BY <3>1, <3>2, <3>3 DEF RecordRight
    <2> QED
      BY <1>0, <2>1, <2>2, <2>4, <2>6, CoreOne
  <1>4. (c # Absent /\ ~c.started) \/ UNCHANGED <<record, correlation>>
    BY DEF ResourceStarted
  <1> QED
    BY <1>1, <1>2, <1>3, <1>4

(* Nothing that the records speak of changes.                               *)
LEMMA CoreUnmoved ==
    ASSUME Core, record' = record, \A q \in Resources : Together(q)',
           \A q \in Resources : /\ Uploads(q)' = Uploads(q) /\ Validates(q)' = Validates(q)
                                /\ Uploads(q) => correlation'[q] = correlation[q]
    PROVE  Core'
  <1>1. \A q \in Resources : Live(q)' = Live(q)
    BY DEF Live
  <1>2. ASSUME NEW l \in Links PROVE RecordRight(l)'
    <2>1. RecordRight(l)
      BY DEF Core
    <2> QED
      BY <1>1, <2>1 DEF RecordRight
  <1> QED
    BY <1>2 DEF Core

(* The live Resource of a Link ends, and its record goes with it.           *)
LEMMA CoreEnded ==
    ASSUME Core, NEW r \in Resources, NEW l \in Links, l = LinkOf[r], Live(r), ~Live(r)',
           \A q \in Resources \ {r} : correlation'[q] = correlation[q] /\ pending'[q] = pending[q],
           \A k \in Links \ {l} : record'[k] = record[k],
           record'[l] = Absent, Together(r)'
    PROVE  Core'
  <1>1. \A q \in Resources : LinkOf[q] = l => ~Live(q)'
    BY OwnerAlone
  <1>2. Absent \notin {"Transferring", "Validating"}
    BY AbsentAssumption
  <1>3. RecordRight(l)'
    BY <1>1, <1>2, NoneLive
  <1> QED
    BY <1>3, CoreOne

(* One that does not hold the record changes.                               *)
LEMMA CoreQuiet ==
    ASSUME Core, NEW r \in Resources, record' = record, ~Live(r), ~Live(r)', Together(r)',
           \A q \in Resources \ {r} : correlation'[q] = correlation[q] /\ pending'[q] = pending[q]
    PROVE  Core'
  <1>1. \A q \in Resources : Together(q)'
    BY DEF Core, Together
  <1>2. \A q \in Resources : /\ Uploads(q)' = Uploads(q) /\ Validates(q)' = Validates(q)
                             /\ Uploads(q) => correlation'[q] = correlation[q]
    BY DEF Live, Uploads, Validates
  <1> QED
    BY <1>1, <1>2, CoreUnmoved

(* A transfer that was not dispatched is dropped with its offer's record.   *)
LEMMA CoreDropped ==
    ASSUME SyncTypeOK, Core, NEW r \in Resources, correlation[r] # Absent,
           ~correlation[r].dispatched, Drop(r), Release(r, correlation[r].owner),
           pending' = pending \/ pending' = [pending EXCEPT ![r] = Absent]
    PROVE  Core'
  <1> DEFINE l == LinkOf[r]
             c == correlation[r]
  <1>1. l \in Links /\ pending[r] = Absent
    BY ConfigAssumption DEF Core, Together
  <1>2. /\ correlation'[r] = Absent /\ pending'[r] = Absent
        /\ \A q \in Resources \ {r} : correlation'[q] = correlation[q] /\ pending'[q] = pending[q]
    BY <1>1 DEF Drop, SyncTypeOK
  <1>3. Together(r)' /\ ~Live(r)'
    BY <1>2 DEF Together, Live, Uploads, Validates
  <1>4. CASE c.owner = "Offered"
    <2>1. Live(r)
      BY <1>4 DEF Live, Uploads
    <2>2. record'[l] = Absent /\ \A k \in Links \ {l} : record'[k] = record[k]
      BY <1>1, <1>4 DEF Release, SyncTypeOK
    <2> QED
      BY <1>1, <1>2, <1>3, <2>1, <2>2, CoreEnded
  <1>5. CASE c.owner # "Offered"
    <2>1. ~Live(r) /\ record' = record
      BY <1>1, <1>5 DEF Live, Uploads, Validates, Release
    <2> QED
      BY <1>2, <1>3, <2>1, CoreQuiet
  <1> QED
    BY <1>4, <1>5

LEMMA CoreCompleted ==
    ASSUME SyncTypeOK, Core, NEW r \in Resources, ResourceCompleted(r)
    PROVE  Core'
  <1> DEFINE l == LinkOf[r]
             c == correlation[r]
             lost == ~c.started \/ (c.owner = "Offered" /\ record[l] # "Transferring")
  <1>0. l \in Links
    BY ConfigAssumption
  <1>1. CASE c = Absent \/ c.dispatched
    <2>1. UNCHANGED <<record, correlation, pending>>
      BY <1>1 DEF ResourceCompleted
    <2> QED
      BY <2>1, CoreSame
  <1>2. CASE c # Absent /\ ~c.dispatched /\ lost
    <2>1. Drop(r) /\ Release(r, correlation[r].owner) /\ pending' = pending
      BY <1>2 DEF ResourceCompleted
    <2> QED
      BY <1>2, <2>1, CoreDropped
  <1>3. CASE c # Absent /\ ~c.dispatched /\ ~lost
    <2>1. /\ record' = IF c.owner = "Offered" THEN [record EXCEPT ![l] = "Validating"] ELSE record
          /\ pending' = [pending EXCEPT ![r] = [owner |-> c.owner, peer |-> c.peer, closed |-> FALSE]]
          /\ correlation' = [correlation EXCEPT ![r].dispatched = TRUE]
      BY <1>3 DEF ResourceCompleted
    <2>2. c \in Correlation /\ pending[r] = Absent
      BY <1>3 DEF SyncTypeOK, Core, Together
    <2>3. /\ correlation'[r] = [c EXCEPT !.dispatched = TRUE]
          /\ pending'[r] = [owner |-> c.owner, peer |-> c.peer, closed |-> FALSE]
          /\ \A q \in Resources \ {r} : correlation'[q] = correlation[q] /\ pending'[q] = pending[q]
      BY <2>1 DEF SyncTypeOK
    <2>4. /\ correlation'[r].dispatched /\ correlation'[r].started
          /\ pending'[r] # Absent /\ pending'[r].owner = c.owner /\ ~pending'[r].closed
      <3>1. pending'[r] \in Pending
        BY <2>2, <2>3 DEF Correlation, Pending
      <3>2. correlation'[r].dispatched = TRUE /\ correlation'[r].started = c.started
        BY <2>2, <2>3, CorrelationMarked
      <3>3. pending'[r].owner = c.owner /\ pending'[r].closed = FALSE
        BY <2>3
      <3>4. c.started = TRUE
        BY <1>3, <2>2 DEF Correlation
      <3>5. pending'[r] # Absent
        BY <3>1, AbsentAssumption
      <3> QED
        BY <3>2, <3>3, <3>4, <3>5
    <2>5. Together(r)' /\ ~Uploads(r)'
      BY <2>4 DEF Together, Uploads
    <2>6. CASE c.owner = "Offered"
      <3>1. Live(r) /\ Validates(r)'
        BY <1>3, <2>4, <2>6 DEF Live, Uploads, Validates
      <3>2. record'[l] = "Validating" /\ \A k \in Links \ {l} : record'[k] = record[k]
        BY <1>0, <2>1, <2>6 DEF SyncTypeOK
      <3>3. \A q \in Resources \ {r} : LinkOf[q] = l => ~Live(q)'
        BY <1>0, <2>3, <3>1, OwnerAlone
      <3>4. RecordRight(l)'
        BY <2>5, <3>1, <3>2, <3>3, OneLive
      <3> QED
        BY <1>0, <2>3, <2>5, <3>2, <3>4, CoreOne
    <2>7. CASE c.owner # "Offered"
      <3>1. ~Live(r) /\ ~Live(r)' /\ record' = record
        BY <2>1, <2>2, <2>4, <2>5, <2>7 DEF Live, Uploads, Validates
      <3> QED
        BY <2>3, <2>5, <3>1, CoreQuiet
    <2> QED
      BY <2>6, <2>7
  <1> QED
    BY <1>1, <1>2, <1>3

LEMMA CoreConcluded ==
    ASSUME SyncTypeOK, Core, NEW r \in Resources, NEW complete \in BOOLEAN,
           ResourceConcluded(r, complete), complete \/ Undispatched(r)
    PROVE  Core'
  <1> DEFINE c == correlation[r]
  <1>1. CASE c = Absent
    <2>1. UNCHANGED <<record, correlation, pending>>
      BY <1>1 DEF ResourceConcluded
    <2> QED
      BY <2>1, CoreSame
  <1>2. CASE c # Absent /\ c.dispatched
    <2>1. Drop(r) /\ UNCHANGED <<record, pending>>
      BY <1>2 DEF ResourceConcluded, Undispatched
    <2>2. /\ correlation'[r] = Absent
          /\ \A q \in Resources \ {r} : correlation'[q] = correlation[q]
      BY <2>1 DEF Drop, SyncTypeOK
    <2>3. ~Uploads(r) /\ ~Uploads(r)'
      BY <1>2, <2>2 DEF Uploads
    <2>4. \A q \in Resources : Together(q)'
      BY <2>1, <2>2 DEF Core, Together
    <2>5. \A q \in Resources : /\ Uploads(q)' = Uploads(q) /\ Validates(q)' = Validates(q)
                               /\ Uploads(q) => correlation'[q] = correlation[q]
      BY <2>1, <2>2, <2>3 DEF Uploads, Validates
    <2> QED
      BY <2>1, <2>4, <2>5, CoreUnmoved
  <1>3. CASE c # Absent /\ ~c.dispatched
    <2>1. /\ Drop(r) /\ Release(r, correlation[r].owner)
          /\ pending' = pending \/ pending' = [pending EXCEPT ![r] = Absent]
      BY <1>3 DEF ResourceConcluded
    <2> QED
      BY <1>3, <2>1, CoreDropped
  <1> QED
    BY <1>1, <1>2, <1>3

LEMMA CoreClosed ==
    ASSUME SyncTypeOK, Core, NEW l \in Links, LinkClosed(l)
    PROVE  Core'
  <1>1. \A q \in Resources : LinkOf[q] # l => correlation'[q] = correlation[q] /\ pending'[q] = pending[q]
    BY DEF LinkClosed, SyncTypeOK
  <1>2. \A q \in Resources : LinkOf[q] = l => /\ correlation'[q] = Absent
                                              /\ pending'[q] # Absent => pending'[q].closed
    <2> SUFFICES ASSUME NEW q \in Resources, LinkOf[q] = l, pending[q] # Absent
                 PROVE  [pending[q] EXCEPT !.closed = TRUE].closed
      BY DEF LinkClosed
    <2>1. pending[q] \in Pending
      BY DEF SyncTypeOK
    <2> QED
      BY <2>1 DEF Pending
  <1>3. record'[l] = Absent /\ \A k \in Links \ {l} : record'[k] = record[k]
    BY DEF LinkClosed, ClosedRecord, SyncTypeOK
  <1>4. \A q \in Resources : Together(q)'
    BY <1>1, <1>2 DEF Core, Together
  <1>5. RecordRight(l)'
    <2>1. \A q \in Resources : LinkOf[q] = l => ~Live(q)'
      BY <1>2 DEF Live, Uploads, Validates
    <2> QED
      BY <1>3, <2>1, NoneLive, AbsentAssumption
  <1>6. ASSUME NEW k \in Links \ {l} PROVE RecordRight(k)'
    <2>1. RecordRight(k) /\ record'[k] = record[k]
      BY <1>3 DEF Core
    <2>2. \A q \in Resources : LinkOf[q] = k => /\ Uploads(q)' = Uploads(q)
                                                /\ Validates(q)' = Validates(q)
                                                /\ correlation'[q] = correlation[q]
      BY <1>1 DEF Uploads, Validates
    <2>3. \A q \in Resources : LinkOf[q] = k => Live(q)' = Live(q)
      BY <2>2 DEF Live
    <2> QED
      BY <2>1, <2>2, <2>3 DEF RecordRight
  <1> QED
    BY <1>4, <1>5, <1>6 DEF Core

LEMMA CoreConclude ==
    ASSUME SyncTypeOK, Core, NEW r \in Resources, NEW outcome, Conclude(r, outcome),
           ClosedRight(LinkOf[r])
    PROVE  Core'
  <1> DEFINE l == LinkOf[r]
             p == pending[r]
  <1>0. l \in Links /\ correlation' = correlation
    BY ConfigAssumption DEF Conclude
  <1>1. CASE p = Absent
    <2>1. UNCHANGED <<record, correlation, pending>>
      BY <1>1 DEF Conclude
    <2> QED
      BY <2>1, CoreSame
  <1>2. CASE p # Absent
    <2>1. pending' = [pending EXCEPT ![r] = Absent] /\ Release(r, p.owner)
      BY <1>2 DEF Conclude
    <2>2. /\ pending'[r] = Absent
          /\ \A q \in Resources \ {r} : correlation'[q] = correlation[q] /\ pending'[q] = pending[q]
      BY <1>0, <2>1 DEF SyncTypeOK
    <2>3. ~Uploads(r) /\ ~Uploads(r)' /\ ~Validates(r)' /\ Together(r)'
      BY <1>0, <1>2, <2>2 DEF Core, Together, Uploads, Validates
    <2>4. CASE p.owner = "Offered"
      <3>1. record'[l] = Absent /\ \A k \in Links \ {l} : record'[k] = record[k]
        BY <1>0, <2>1, <2>4 DEF Release, SyncTypeOK
      <3>2. CASE ~p.closed
        <4>1. Live(r) /\ ~Live(r)'
          BY <1>2, <2>3, <2>4, <3>2 DEF Live, Validates
        <4> QED
          BY <1>0, <2>2, <2>3, <3>1, <4>1, CoreEnded
      <3>3. CASE p.closed
        <4>1. Forgotten(l)
          BY <1>2, <3>3 DEF ClosedRight
        <4>2. \A q \in Resources : LinkOf[q] = l => ~Live(q)'
          BY <1>0, <2>2, <2>3, <4>1 DEF Forgotten, Live, Uploads, Validates
        <4>3. RecordRight(l)'
          BY <3>1, <4>2, NoneLive, AbsentAssumption
        <4> QED
          BY <1>0, <2>2, <2>3, <3>1, <4>3, CoreOne
      <3> QED
        BY <3>2, <3>3
    <2>5. CASE p.owner # "Offered"
      <3>1. ~Live(r) /\ ~Live(r)' /\ record' = record
        BY <2>1, <2>3, <2>5 DEF Live, Validates, Release
      <3> QED
        BY <2>2, <2>3, <3>1, CoreQuiet
    <2> QED
      BY <2>4, <2>5
  <1> QED
    BY <1>1, <1>2

LEMMA CoreAdvertise ==
    ASSUME SyncTypeOK, Core, NEW r \in Resources, NEW fits \in BOOLEAN, Advertise(r, fits), InOrder(r)
    PROVE  Core'
  <1> DEFINE l == LinkOf[r]
             owner == OwnerOn(l)
             new(p) == [owner |-> owner, peer |-> p, started |-> FALSE, dispatched |-> FALSE]
  <1>0. l \in Links /\ owner \in Owner /\ pending' = pending
    BY ConfigAssumption, OwnerType DEF Advertise
  <1>1. correlation[r] = Absent /\ pending[r] = Absent
    BY DEF Advertise, InOrder
  <1>2. owner = "Offered" => \A q \in Resources : LinkOf[q] = l => ~Live(q)
    <2> SUFFICES ASSUME owner = "Offered", NEW q \in Resources, LinkOf[q] = l, Live(q)
                 PROVE  FALSE
      OBVIOUS
    <2>1. record[l] = "Accepted" /\ ~OfferedOn(l)
      BY DEF OwnerOn
    <2>2. ~Uploads(q)
      BY <2>1 DEF OfferedOn, Uploads
    <2> QED
      BY <1>0, <2>1, <2>2 DEF Live, Core, RecordRight
  <1>3. CASE correlation' = correlation /\ record' = record
    BY <1>0, <1>3, CoreSame
  <1>4. CASE /\ correlation' = correlation
             /\ owner = "Offered" /\ record' = [record EXCEPT ![l] = Absent]
    <2>1. record'[l] = Absent /\ \A k \in Links \ {l} : record'[k] = record[k]
      BY <1>0, <1>4 DEF SyncTypeOK
    <2>2. \A q \in Resources : LinkOf[q] = l => ~Live(q)'
      BY <1>0, <1>2, <1>4 DEF Live, Uploads, Validates
    <2>3. RecordRight(l)'
      BY <2>1, <2>2, NoneLive, AbsentAssumption
    <2>4. Together(r)'
      BY <1>0, <1>4 DEF Core, Together
    <2> QED
      BY <1>0, <1>4, <2>1, <2>3, <2>4, CoreOne
  <1>5. ASSUME NEW p \in Peers \cup {Absent}, record' = record,
               correlation' = [correlation EXCEPT ![r] = new(p)]
        PROVE  Core'
    <2>1. /\ correlation'[r] = new(p)
          /\ \A q \in Resources \ {r} : correlation'[q] = correlation[q] /\ pending'[q] = pending[q]
      BY <1>0, <1>5 DEF SyncTypeOK
    <2>2. /\ correlation'[r] # Absent /\ correlation'[r].owner = owner
          /\ correlation'[r].started = FALSE /\ correlation'[r].dispatched = FALSE
      <3>1. new(p) \in Correlation
        BY <1>0 DEF Correlation
      <3>2. new(p) # Absent
        BY <3>1, AbsentAssumption
      <3>3. new(p).owner = owner /\ new(p).started = FALSE /\ new(p).dispatched = FALSE
        OBVIOUS
      <3> HIDE DEF new
      <3> QED
        BY <2>1, <3>2, <3>3
    <2>3. Together(r)' /\ ~Validates(r)' /\ ~Live(r)
      BY <1>0, <1>1, <2>2 DEF Together, Validates, Live, Uploads
    <2>4. CASE owner = "Offered"
      <3>1. record'[l] = "Accepted" /\ Uploads(r)'
        BY <1>5, <2>2, <2>4 DEF Uploads, OwnerOn
      <3>2. \A q \in Resources \ {r} : LinkOf[q] = l => ~Live(q)'
        BY <1>2, <2>1, <2>4 DEF Live, Uploads, Validates
      <3>3. RecordRight(l)'
        BY <2>2, <2>3, <3>1, <3>2, OneLive
      <3> QED
        BY <1>0, <1>5, <2>1, <2>3, <3>3, CoreOne
    <2>5. CASE owner # "Offered"
      <3>1. ~Live(r)'
        BY <2>2, <2>3, <2>5 DEF Live, Uploads
      <3> QED
        BY <1>5, <2>1, <2>3, <3>1, CoreQuiet
    <2> QED
      BY <2>4, <2>5
  <1>6. \/ correlation' = correlation /\ record' = record
        \/ /\ correlation' = correlation
           /\ owner = "Offered" /\ record' = [record EXCEPT ![l] = Absent]
        \/ \E p \in Peers \cup {Absent} : /\ record' = record
                                          /\ correlation' = [correlation EXCEPT ![r] = new(p)]
    BY <1>0, ConfigAssumption DEF Advertise
  <1> QED
    BY <1>3, <1>4, <1>5, <1>6

LEMMA CoreCommit ==
    ASSUME SyncTypeOK, Core, NEW wanted \in BOOLEAN, Commit(wanted)
    PROVE  Core'
  <1>1. UNCHANGED <<correlation, pending>>
    BY DEF Commit
  <1>2. CASE record' = record
    BY <1>1, <1>2, CoreSame
  <1>3. CASE candidate /\ Admissible(offer) /\ record' = [record EXCEPT ![offer] = "Accepted"]
    <2>1. PICK l \in Links : l = offer
      BY <1>3 DEF SyncTypeOK
    <2>2. record[l] = Absent
      BY <1>3, <2>1 DEF Admissible, OfferGates
    <2>3. record'[l] = "Accepted" /\ \A k \in Links \ {l} : record'[k] = record[k]
      BY <1>3, <2>1 DEF SyncTypeOK
    <2>4. \A q \in Resources : LinkOf[q] = l => ~Live(q)'
      <3>1. Absent \notin {"Accepted", "Transferring", "Validating"}
        BY AbsentAssumption
      <3>2. \A q \in Resources : LinkOf[q] = l => ~Live(q)
        BY <2>2, <3>1 DEF Core, RecordRight, Live
      <3> QED
        BY <1>1, <3>2 DEF Live, Uploads, Validates
    <2>5. RecordRight(l)'
      BY <2>3, <2>4, NoneLive
    <2>6. ASSUME NEW k \in Links \ {l} PROVE RecordRight(k)'
      BY <1>1, <2>3 DEF Core, RecordRight, Live, Uploads, Validates
    <2> QED
      BY <1>1, <2>5, <2>6 DEF Core, Together
  <1> QED
    BY <1>2, <1>3 DEF Commit

-----------------------------------------------------------------------------
(* Steps on the queue of events.                                            *)

LEMMA TailQueue ==
    ASSUME SyncTypeOK, events # <<>>, events' = Tail(events)
    PROVE  /\ \A kinds, r : InQueue(kinds, r)' => InQueue(kinds, r)
           /\ \A kinds, r : Head(events).kind \in kinds /\ Head(events).resource = r => InQueue(kinds, r)
           /\ \A l : CloseQueued(l)' => CloseQueued(l)
           /\ \A l : Head(events).kind = "LinkClosed" /\ Head(events).link = l => CloseQueued(l)
           /\ \A l : CloseQueued(l) => \/ CloseQueued(l)'
                                       \/ Head(events).kind = "LinkClosed" /\ Head(events).link = l
  <1>1. \A i \in DOMAIN events' : i + 1 \in DOMAIN events /\ events'[i] = events[i + 1]
    BY DEF SyncTypeOK
  <1>2. 1 \in DOMAIN events /\ Head(events) = events[1]
    BY DEF SyncTypeOK
  <1>3. \A i \in DOMAIN events : i = 1 \/ (i - 1 \in DOMAIN events' /\ events'[i - 1] = events[i])
    BY DEF SyncTypeOK
  <1> QED
    BY <1>1, <1>2, <1>3 DEF InQueue, CloseQueued

LEMMA AppendQueue ==
    ASSUME SyncTypeOK, NEW e, events' = Append(events, e)
    PROVE  /\ \A kinds, r : InQueue(kinds, r)' <=> InQueue(kinds, r) \/ (e.kind \in kinds /\ e.resource = r)
           /\ \A l : CloseQueued(l)' <=> CloseQueued(l) \/ (e.kind = "LinkClosed" /\ e.link = l)
  <1>1. \A i \in DOMAIN events : i \in DOMAIN events' /\ events'[i] = events[i]
    BY DEF SyncTypeOK
  <1>2. \A i \in DOMAIN events' : (i \in DOMAIN events /\ events'[i] = events[i]) \/ events'[i] = e
    BY DEF SyncTypeOK
  <1>3. \E i \in DOMAIN events' : events'[i] = e
    <2>1. Len(events) + 1 \in DOMAIN events' /\ events'[Len(events) + 1] = e
      BY DEF SyncTypeOK
    <2> QED
      BY <2>1
  <1> QED
    BY <1>1, <1>2, <1>3 DEF InQueue, CloseQueued

LEMMA PostQueue ==
    ASSUME SyncTypeOK, NEW r \in Resources, NEW kinds, NEW status, Post(r, kinds, status),
           kinds \in {<<"Started">>, <<"Completion", "Complete">>, <<"Failed">>}
    PROVE  /\ \A K, q : InQueue(K, q)' => \/ InQueue(K, q)
                                          \/ q = r /\ \E i \in DOMAIN kinds : kinds[i] \in K
           /\ \A l : CloseQueued(l)' <=> CloseQueued(l)
  <1> DEFINE new == [i \in DOMAIN kinds |-> [kind |-> kinds[i], resource |-> r]]
  <1>0. events' = events \o new /\ new \in Seq({[kind |-> kinds[i], resource |-> r] : i \in DOMAIN kinds})
    <2>1. CASE kinds = <<"Completion", "Complete">>
      BY <2>1 DEF Post
    <2>2. CASE kinds \in {<<"Started">>, <<"Failed">>}
      BY SMTT(30), <2>2 DEF Post
    <2> QED
      BY <2>1, <2>2
  <1>1. \A i \in DOMAIN new : /\ i \in DOMAIN kinds /\ new[i].kind = kinds[i] /\ new[i].resource = r
                              /\ new[i].kind # "LinkClosed"
    BY DEF new
  <1> HIDE DEF new
  <1>2. \A i \in DOMAIN events : i \in DOMAIN events' /\ events'[i] = events[i]
    BY <1>0 DEF SyncTypeOK
  <1>3. \A i \in DOMAIN events' : \/ i \in DOMAIN events /\ events'[i] = events[i]
                                  \/ i - Len(events) \in DOMAIN new /\ events'[i] = new[i - Len(events)]
    BY <1>0 DEF SyncTypeOK
  <1> QED
    BY <1>1, <1>2, <1>3 DEF InQueue, CloseQueued

(* What an event makes of correlations and validations: only a Completion   *)
(* dispatches, and nothing appears for a Resource without an entry.         *)
EntriesStep ==
    \A q \in Resources :
        /\ correlation'[q] # Absent => correlation[q] # Absent
        /\ pending'[q] # Absent => pending[q] # Absent \/ correlation[q] # Absent
        /\ correlation'[q] # Absent /\ correlation'[q].dispatched =>
              correlation[q].dispatched \/ InQueue({"Completion"}, q)

LEMMA EventEntries ==
    ASSUME SyncTypeOK, HandleEvent
    PROVE  EntriesStep
  <1> DEFINE e == Head(events)
  <1>0. e \in Event /\ events # <<>> /\ events' = Tail(events)
    BY TailType DEF HandleEvent
  <1>1. CASE e.kind = "Started" /\ ResourceStarted(e.resource)
    <2>1. PICK r \in Resources : r = e.resource
      BY <1>0, <1>1 DEF Event
    <2>2. pending' = pending /\ \A q \in Resources \ {r} : correlation'[q] = correlation[q]
      BY <1>1, <2>1 DEF ResourceStarted, Drop, SyncTypeOK
    <2>3. correlation'[r] # Absent =>
            correlation[r] # Absent /\ correlation'[r].dispatched = correlation[r].dispatched
      <3>1. CASE correlation' = [correlation EXCEPT ![r].started = TRUE] /\ correlation[r] # Absent
        BY <2>1, <3>1 DEF SyncTypeOK, Correlation
      <3>2. CASE Drop(r)
        BY <3>2 DEF Drop, SyncTypeOK
      <3> QED
        BY <1>1, <2>1, <3>1, <3>2 DEF ResourceStarted
    <2> QED
      BY <2>2, <2>3 DEF EntriesStep
  <1>2. CASE e.kind = "Completion" /\ ResourceCompleted(e.resource)
    <2>1. PICK r \in Resources : r = e.resource
      BY <1>0, <1>2 DEF Event
    <2>2. \A q \in Resources \ {r} : correlation'[q] = correlation[q] /\ pending'[q] = pending[q]
      BY <1>2, <2>1 DEF ResourceCompleted, Drop, SyncTypeOK
    <2>3. /\ correlation'[r] # Absent => correlation[r] # Absent
          /\ pending'[r] # Absent => pending[r] # Absent \/ correlation[r] # Absent
      BY <1>2, <2>1 DEF ResourceCompleted, Drop, SyncTypeOK
    <2>4. InQueue({"Completion"}, r)
      BY <1>0, <1>2, <2>1, TailQueue
    <2> QED
      BY <2>2, <2>3, <2>4 DEF EntriesStep
  <1>3. CASE e.kind \in {"Complete", "Failed"} /\ ResourceConcluded(e.resource, e.kind = "Complete")
    <2>1. PICK r \in Resources : r = e.resource
      BY <1>0, <1>3 DEF Event
    <2>2. \A q \in Resources : /\ correlation'[q] \in {Absent, correlation[q]}
                               /\ pending'[q] \in {Absent, pending[q]}
      BY <1>3, <2>1 DEF ResourceConcluded, Drop, SyncTypeOK
    <2> QED
      BY <2>2 DEF EntriesStep
  <1>4. CASE e.kind = "LinkClosed" /\ LinkClosed(e.link)
    <2>1. \A q \in Resources : /\ correlation'[q] \in {Absent, correlation[q]}
                               /\ pending'[q] # Absent => pending[q] # Absent
      BY <1>4 DEF LinkClosed, SyncTypeOK
    <2> QED
      BY <2>1 DEF EntriesStep
  <1> QED
    BY <1>1, <1>2, <1>3, <1>4 DEF HandleEvent

LEMMA OrderEvent ==
    ASSUME SyncTypeOK, \A r \in Resources : InOrder(r), HandleEvent, NEW r \in Resources
    PROVE  InOrder(r)'
  <1>1. EntriesStep /\ transfer' = transfer /\ events # <<>> /\ events' = Tail(events)
    BY EventEntries DEF HandleEvent, manager
  <1>2. \A kinds : InQueue(kinds, r)' => InQueue(kinds, r)
    BY <1>1, TailQueue
  <1>3. InQueue({"Completion"}, r) => InQueue(Ends, r)
    BY DEF InQueue, Ends
  <1>4. Undispatched(r) /\ ~InQueue({"Completion"}, r) => Undispatched(r)'
    BY <1>1 DEF EntriesStep, Undispatched
  <1> QED
    BY <1>1, <1>2, <1>3, <1>4 DEF InOrder, EntriesStep

(* Steps that leave the queue alone and dispatch nothing.                   *)
LEMMA OrderQuiet ==
    ASSUME NEW r \in Resources, InOrder(r), events' = events,
           transfer'[r] = transfer[r] \/ (transfer'[r] # "new" /\ transfer[r] # "over"),
           \/ /\ correlation'[r] = Absent \/ correlation'[r] = correlation[r]
              /\ pending'[r] = Absent \/ pending'[r] = pending[r]
           \/ Undispatched(r)' /\ transfer'[r] # "new" /\ transfer[r] # "over"
    PROVE  InOrder(r)'
  <1>1. \A kinds : InQueue(kinds, r)' = InQueue(kinds, r)
    BY DEF InQueue
  <1>2. Undispatched(r) => Undispatched(r)'
    BY DEF Undispatched
  <1> QED
    BY <1>1, <1>2 DEF InOrder

LEMMA OrderPost ==
    ASSUME SyncTypeOK, \A r \in Resources : InOrder(r), NEW q \in Resources,
           Start(q) \/ Complete(q) \/ FailTransfer(q), NEW r \in Resources
    PROVE  InOrder(r)'
  <1>1. \E kinds \in {<<"Started">>, <<"Completion", "Complete">>, <<"Failed">>} :
          \E status : Post(q, kinds, status)
    BY DEF Start, Complete, FailTransfer
  <1>2. UNCHANGED <<correlation, pending>> /\ (r # q => transfer'[r] = transfer[r])
    BY <1>1 DEF Post, runtime, SyncTypeOK
  <1>3. Undispatched(r)' = Undispatched(r)
    BY <1>2 DEF Undispatched
  <1>4. CASE r # q
    <2>1. \A K : InQueue(K, r)' => InQueue(K, r)
      BY <1>1, <1>4, PostQueue
    <2> QED
      BY <1>2, <1>3, <1>4, <2>1 DEF InOrder
  <1>5. CASE r = q /\ Start(q)
    <2>1. transfer[r] = "accepted" /\ transfer'[r] = "started" /\ Post(r, <<"Started">>, "started")
      BY <1>5 DEF Start, Post, SyncTypeOK
    <2>2. \A K : InQueue(K, r)' => InQueue(K, r) \/ "Started" \in K
      BY <2>1, PostQueue
    <2> QED
      BY <1>3, <2>1, <2>2 DEF InOrder, Ends
  <1>6. CASE r = q /\ Complete(q)
    <2>1. transfer[r] = "started" /\ transfer'[r] = "over" /\ Post(r, <<"Completion", "Complete">>, "over")
      BY <1>6 DEF Complete, Post, SyncTypeOK
    <2>2. \A K : InQueue(K, r)' => InQueue(K, r) \/ "Completion" \in K \/ "Complete" \in K
      BY <2>1, PostQueue
    <2>3. ~InQueue({"Failed"}, r)
      BY <2>1 DEF InOrder, InQueue, Ends
    <2> QED
      BY <2>1, <2>2, <2>3 DEF InOrder
  <1>7. CASE r = q /\ FailTransfer(q)
    <2>1. transfer[r] \in {"accepted", "started"} /\ transfer'[r] = "over" /\ Post(r, <<"Failed">>, "over")
      BY <1>7 DEF FailTransfer, Post, SyncTypeOK
    <2>2. \A K : InQueue(K, r)' => InQueue(K, r) \/ "Failed" \in K
      BY <2>1, PostQueue
    <2>3. ~InQueue({"Completion"}, r) /\ Undispatched(r)
      BY <2>1 DEF InOrder, InQueue, Ends
    <2> QED
      BY <1>3, <2>1, <2>2, <2>3 DEF InOrder
  <1> QED
    BY <1>4, <1>5, <1>6, <1>7

LEMMA OrderClose ==
    ASSUME SyncTypeOK, \A r \in Resources : InOrder(r), NEW l \in Links, Close(l), NEW r \in Resources
    PROVE  InOrder(r)'
  <1>1. /\ UNCHANGED <<correlation, pending>>
        /\ transfer'[r] = "over" \/ transfer'[r] = transfer[r]
    BY DEF Close, runtime, SyncTypeOK
  <1>2. \A K : "LinkClosed" \notin K => (InQueue(K, r)' <=> InQueue(K, r))
    BY AppendQueue DEF Close
  <1>3. Undispatched(r)' = Undispatched(r)
    BY <1>1 DEF Undispatched
  <1> QED
    BY <1>1, <1>2, <1>3 DEF InOrder, Ends

-----------------------------------------------------------------------------
(* Closed Links.                                                            *)

LEMMA ForgottenEvent ==
    ASSUME SyncTypeOK, HandleEvent, NEW l \in Links, Forgotten(l)
    PROVE  Forgotten(l)'
  <1> DEFINE e == Head(events)
  <1>0. e \in Event /\ offer' = offer
    BY TailType DEF HandleEvent
  <1>1. ASSUME NEW r \in Resources, ResourceStarted(r) \/ ResourceCompleted(r)
        PROVE  Forgotten(l)'
    <2>1. CASE UNCHANGED <<record, correlation, pending>>
      BY <1>0, <1>1, <2>1 DEF Forgotten, ResourceStarted, ResourceCompleted, onLink
    <2>2. CASE LinkOf[r] # l
      BY <1>0, <1>1, <2>2, ConfigAssumption
         DEF Forgotten, ResourceStarted, ResourceCompleted, onLink, Drop, Release, SyncTypeOK
    <2>3. CASE LinkOf[r] = l
      <3>1. correlation[r] = Absent
        BY <2>3 DEF Forgotten
      <3> QED
        BY <1>1, <2>1, <3>1 DEF ResourceStarted, ResourceCompleted
    <2> QED
      BY <2>2, <2>3
  <1>2. ASSUME NEW r \in Resources, NEW complete \in BOOLEAN, ResourceConcluded(r, complete)
        PROVE  Forgotten(l)'
    <2>1. CASE LinkOf[r] # l
      BY <1>0, <1>2, <2>1, ConfigAssumption
         DEF Forgotten, ResourceConcluded, onLink, Drop, Release, SyncTypeOK
    <2>2. CASE LinkOf[r] = l
      <3>1. correlation[r] = Absent
        BY <2>2 DEF Forgotten
      <3> QED
        BY <1>0, <1>2, <3>1 DEF ResourceConcluded, Forgotten, onLink
    <2> QED
      BY <2>1, <2>2
  <1>3. ASSUME NEW k \in Links, LinkClosed(k)
        PROVE  Forgotten(l)'
    <2>1. \A r \in Resources : pending'[r] # Absent /\ pending[r] # Absent /\ pending[r].closed => pending'[r].closed
      BY <1>3 DEF LinkClosed, SyncTypeOK, Pending
    <2>2. \A r \in Resources : pending'[r] # Absent => pending[r] # Absent
      BY <1>3 DEF LinkClosed, SyncTypeOK
    <2> QED
      BY <1>0, <1>3, <2>1, <2>2 DEF LinkClosed, ClosedRecord, Forgotten, SyncTypeOK
  <1> QED
    BY <1>0, <1>1, <1>2, <1>3 DEF HandleEvent, Event

LEMMA ForgottenClosed ==
    ASSUME SyncTypeOK, NEW l \in Links, LinkClosed(l), offer' = offer
    PROVE  Forgotten(l)'
  <1>1. \A q \in Resources : LinkOf[q] = l => /\ correlation'[q] = Absent
                                              /\ pending'[q] # Absent => pending'[q].closed
    <2> SUFFICES ASSUME NEW q \in Resources, LinkOf[q] = l, pending[q] # Absent
                 PROVE  [pending[q] EXCEPT !.closed = TRUE].closed
      BY DEF LinkClosed
    <2>1. pending[q] \in Pending
      BY DEF SyncTypeOK
    <2> QED
      BY <2>1 DEF Pending
  <1> QED
    BY <1>1 DEF LinkClosed, ClosedRecord, Forgotten, SyncTypeOK

(* A step after which a Link that closed has left no more than before.      *)
LEMMA ClosedKept ==
    ASSUME NEW l \in Links, ClosedRight(l), link'[l] = link[l], CloseQueued(l)' <=> CloseQueued(l),
           link[l] = "down" /\ Forgotten(l) => Forgotten(l)',
           \A r \in Resources : LinkOf[r] = l /\ pending'[r] # Absent /\ pending'[r].closed =>
                                   pending[r] # Absent /\ pending[r].closed
    PROVE  ClosedRight(l)'
  BY DEF ClosedRight

(* Only the end of its Link closes a validation.                            *)
LEMMA PendingEvent ==
    ASSUME SyncTypeOK, HandleEvent, NEW q \in Resources, pending'[q] # Absent, pending'[q].closed
    PROVE  \/ pending[q] # Absent /\ pending[q].closed
           \/ Head(events).kind = "LinkClosed" /\ Head(events).link = LinkOf[q]
  <1> DEFINE e == Head(events)
  <1>0. e \in Event
    BY TailType DEF HandleEvent
  <1>1. CASE e.kind = "Started" /\ ResourceStarted(e.resource)
    BY <1>1 DEF ResourceStarted
  <1>2. CASE e.kind = "Completion" /\ ResourceCompleted(e.resource)
    <2>1. PICK r \in Resources : r = e.resource
      BY <1>0, <1>2 DEF Event
    <2> DEFINE new == [owner |-> correlation[r].owner, peer |-> correlation[r].peer, closed |-> FALSE]
    <2>2. pending' = pending \/ pending' = [pending EXCEPT ![r] = new]
      BY <1>2, <2>1 DEF ResourceCompleted
    <2>3. new.closed = FALSE
      OBVIOUS
    <2> HIDE DEF new
    <2> QED
      BY <2>2, <2>3 DEF SyncTypeOK
  <1>3. CASE e.kind \in {"Complete", "Failed"} /\ ResourceConcluded(e.resource, e.kind = "Complete")
    BY <1>3 DEF ResourceConcluded, SyncTypeOK
  <1>4. CASE e.kind = "LinkClosed" /\ LinkClosed(e.link)
    BY <1>4 DEF LinkClosed, SyncTypeOK
  <1> QED
    BY <1>1, <1>2, <1>3, <1>4 DEF HandleEvent

LEMMA ClosedEvent ==
    ASSUME SyncTypeOK, HandleEvent, NEW l \in Links, ClosedRight(l)
    PROVE  ClosedRight(l)'
  <1>1. events # <<>> /\ events' = Tail(events) /\ link' = link /\ offer' = offer
    BY DEF HandleEvent, manager
  <1>2. CASE Head(events).kind = "LinkClosed" /\ Head(events).link = l
    <2>1. CloseQueued(l) /\ link[l] = "down"
      BY <1>1, <1>2, TailQueue DEF ClosedRight
    <2>2. LinkClosed(l)
      BY <1>2 DEF HandleEvent
    <2>3. Forgotten(l)'
      BY <1>1, <2>2, ForgottenClosed
    <2> QED
      BY <1>1, <2>1, <2>3 DEF ClosedRight
  <1>3. CASE ~(Head(events).kind = "LinkClosed" /\ Head(events).link = l)
    <2>1. CloseQueued(l)' <=> CloseQueued(l)
      BY <1>1, <1>3, TailQueue
    <2>2. Forgotten(l) => Forgotten(l)'
      BY ForgottenEvent
    <2>3. \A r \in Resources : LinkOf[r] = l /\ pending'[r] # Absent /\ pending'[r].closed =>
                                  pending[r] # Absent /\ pending[r].closed
      BY <1>3, PendingEvent
    <2> QED
      BY <1>1, <2>1, <2>2, <2>3, ClosedKept
  <1> QED
    BY <1>2, <1>3

LEMMA ClosedClose ==
    ASSUME SyncTypeOK, NEW k \in Links, Close(k), NEW l \in Links, ClosedRight(l)
    PROVE  ClosedRight(l)'
  <1>1. UNCHANGED runtime
    BY DEF Close
  <1>2. Forgotten(l)' <=> Forgotten(l)
    BY <1>1 DEF Forgotten, runtime, admission
  <1>3. CloseQueued(l)' <=> CloseQueued(l) \/ l = k
    BY AppendQueue DEF Close
  <1>4. CASE l = k
    <2>1. link'[l] = "down" /\ CloseQueued(l)'
      BY <1>3, <1>4 DEF Close, SyncTypeOK
    <2> QED
      BY <1>1, <1>2, <2>1 DEF ClosedRight, runtime
  <1>5. CASE l # k
    <2>1. link'[l] = link[l]
      BY <1>5 DEF Close, SyncTypeOK
    <2> QED
      BY <1>1, <1>2, <1>3, <1>5, <2>1, ClosedKept DEF runtime
  <1> QED
    BY <1>4, <1>5

LEMMA ClosedPost ==
    ASSUME SyncTypeOK, NEW q \in Resources, Start(q) \/ Complete(q) \/ FailTransfer(q),
           NEW l \in Links, ClosedRight(l)
    PROVE  ClosedRight(l)'
  <1>1. \E kinds \in {<<"Started">>, <<"Completion", "Complete">>, <<"Failed">>} :
          \E status : Post(q, kinds, status)
    BY DEF Start, Complete, FailTransfer
  <1>2. UNCHANGED <<runtime, link>>
    BY <1>1 DEF Post
  <1>3. CloseQueued(l)' <=> CloseQueued(l)
    BY <1>1, PostQueue
  <1>4. Forgotten(l)' <=> Forgotten(l)
    BY <1>2 DEF Forgotten, runtime, admission
  <1> QED
    BY <1>2, <1>3, <1>4, ClosedKept DEF runtime

(* The other steps leave the queue alone, and a Link that closed as well.   *)
LEMMA ClosedQuiet ==
    ASSUME NEW l \in Links, ClosedRight(l), events' = events, link'[l] = link[l],
           link[l] = "down" /\ Forgotten(l) => Forgotten(l)',
           \A r \in Resources : pending'[r] \in {Absent, pending[r]}
    PROVE  ClosedRight(l)'
  <1>1. CloseQueued(l)' <=> CloseQueued(l)
    BY DEF CloseQueued
  <1> QED
    BY <1>1, ClosedKept

-----------------------------------------------------------------------------
LEMMA CoreEvent ==
    ASSUME SlotInv, HandleEvent
    PROVE  Core'
  <1> DEFINE e == Head(events)
  <1>0. e \in Event /\ SyncTypeOK /\ Core /\ events # <<>> /\ events' = Tail(events)
    BY TailType DEF HandleEvent, SlotInv
  <1>1. CASE e.kind = "Started" /\ ResourceStarted(e.resource)
    BY <1>0, <1>1, CoreStarted DEF Event
  <1>2. CASE e.kind = "Completion" /\ ResourceCompleted(e.resource)
    BY <1>0, <1>2, CoreCompleted DEF Event
  <1>3. CASE e.kind \in {"Complete", "Failed"} /\ ResourceConcluded(e.resource, e.kind = "Complete")
    <2>1. PICK r \in Resources : r = e.resource
      BY <1>0, <1>3 DEF Event
    <2>2. e.kind = "Complete" \/ Undispatched(r)
      <3>1. e.kind = "Failed" => InQueue({"Failed"}, r)
        BY <1>0, <2>1, TailQueue
      <3> QED
        BY <1>3, <3>1 DEF SlotInv, InOrder
    <2>3. (e.kind = "Complete") \in BOOLEAN
      OBVIOUS
    <2> QED
      BY <1>0, <1>3, <2>1, <2>2, <2>3, CoreConcluded
  <1>4. CASE e.kind = "LinkClosed" /\ LinkClosed(e.link)
    BY <1>0, <1>4, CoreClosed DEF Event
  <1> QED
    BY <1>1, <1>2, <1>3, <1>4 DEF HandleEvent

LEMMA SlotAdvertise ==
    ASSUME SlotInv, NEW r \in Resources, NEW fits \in BOOLEAN, Advertise(r, fits), SyncTypeOK'
    PROVE  SlotInv'
  <1> DEFINE l == LinkOf[r]
  <1>0. SyncTypeOK /\ Core /\ InOrder(r) /\ l \in Links
    BY ConfigAssumption DEF SlotInv
  <1>1. Core'
    BY <1>0, CoreAdvertise
  <1>2. /\ events' = events /\ link' = link /\ pending' = pending /\ link[l] # "down"
        /\ transfer[r] = "new" /\ transfer'[r] \in {"accepted", "over"}
        /\ \A q \in Resources \ {r} : transfer'[q] = transfer[q] /\ correlation'[q] = correlation[q]
        /\ \A k \in Links \ {l} : record'[k] = record[k]
        /\ UNCHANGED onLink /\ offer' = offer
    BY <1>0 DEF Advertise, SyncTypeOK, onLink
  <1>3. ASSUME NEW q \in Resources PROVE InOrder(q)'
    <2>1. InOrder(q)
      BY DEF SlotInv
    <2>2. CASE q # r
      <3>1. /\ correlation'[q] = correlation[q] /\ pending'[q] = pending[q]
            /\ transfer'[q] = transfer[q]
        BY <1>2, <2>2
      <3> QED
        BY <1>2, <2>1, <3>1, OrderQuiet
    <2>3. CASE q = r
      <3> DEFINE new(owner, peer) == [owner |-> owner, peer |-> peer, started |-> FALSE, dispatched |-> FALSE]
      <3>1. \/ correlation'[r] = correlation[r]
            \/ \E owner, peer : correlation'[r] = new(owner, peer)
        BY <1>0 DEF Advertise, SyncTypeOK
      <3>2. \A owner, peer : new(owner, peer).dispatched = FALSE
        OBVIOUS
      <3> HIDE DEF new
      <3>3. correlation'[r] = correlation[r] \/ Undispatched(r)'
        BY <3>1, <3>2 DEF Undispatched
      <3> QED
        BY <1>2, <2>1, <2>3, <3>3, OrderQuiet
    <2> QED
      BY <2>2, <2>3
  <1>4. ASSUME NEW k \in Links PROVE ClosedRight(k)'
    <2>1. ClosedRight(k)
      BY DEF SlotInv
    <2>2. link[k] = "down" /\ Forgotten(k) => Forgotten(k)'
      BY <1>2 DEF Forgotten, onLink
    <2> QED
      BY <1>2, <2>1, <2>2, ClosedQuiet
  <1> QED
    BY <1>1, <1>3, <1>4 DEF SlotInv

LEMMA SlotConclude ==
    ASSUME SlotInv, NEW r \in Resources, NEW outcome \in Outcome, Conclude(r, outcome), SyncTypeOK'
    PROVE  SlotInv'
  <1> DEFINE l == LinkOf[r]
             p == pending[r]
  <1>0. SyncTypeOK /\ Core /\ ClosedRight(l) /\ l \in Links
    BY ConfigAssumption DEF SlotInv
  <1>1. Core'
    BY <1>0, CoreConclude
  <1>2. /\ events' = events /\ link' = link /\ transfer' = transfer /\ correlation' = correlation
        /\ \A q \in Resources : pending'[q] \in {Absent, pending[q]}
        /\ UNCHANGED <<offer, candidate, validated>>
    BY <1>0 DEF Conclude, SyncTypeOK, manager
  <1>3. ASSUME NEW q \in Resources PROVE InOrder(q)'
    <2>1. InOrder(q)
      BY DEF SlotInv
    <2>2. correlation'[q] = correlation[q] /\ transfer'[q] = transfer[q] /\ pending'[q] \in {Absent, pending[q]}
      BY <1>2
    <2> QED
      BY <1>2, <2>1, <2>2, OrderQuiet
  <1>4. ASSUME NEW k \in Links PROVE ClosedRight(k)'
    <2>1. ClosedRight(k)
      BY DEF SlotInv
    <2>2. ASSUME link[k] = "down", Forgotten(k) PROVE Forgotten(k)'
      <3>1. record'[k] = Absent
        BY <1>0, <2>2 DEF Conclude, Release, SyncTypeOK, Forgotten
      <3>2. k \notin quarantined'
        <4>1. quarantined' = quarantined \/ (p # Absent /\ ~p.closed /\ quarantined' = quarantined \cup {l})
          BY DEF Conclude, Quarantines
        <4>2. k = l => p = Absent \/ p.closed
          BY <2>2 DEF Forgotten
        <4> QED
          BY <2>2, <4>1, <4>2 DEF Forgotten
      <3> QED
        BY <1>2, <2>2, <3>1, <3>2 DEF Forgotten
    <2> QED
      BY <1>2, <2>1, <2>2, ClosedQuiet
  <1> QED
    BY <1>1, <1>3, <1>4 DEF SlotInv

(* The steps of the link manager and of an offer that speak of no Resource. *)
LEMMA SlotOffer ==
    ASSUME SlotInv, SyncTypeOK', Core', UNCHANGED <<correlation, pending, quarantined, transfer, events>>,
           \A l \in Links : /\ link'[l] = "down" <=> link[l] = "down"
                            /\ link[l] = "down" /\ Forgotten(l) =>
                                  /\ record'[l] = record[l]
                                  /\ l \in validated' => l \in validated
                                  /\ offer' = l /\ candidate' => offer = l /\ candidate
    PROVE  SlotInv'
  <1>1. ASSUME NEW q \in Resources PROVE InOrder(q)'
    <2>1. InOrder(q)
      BY DEF SlotInv
    <2> QED
      BY <2>1, OrderQuiet
  <1>2. ASSUME NEW l \in Links PROVE ClosedRight(l)'
    <2>1. ClosedRight(l) /\ (CloseQueued(l)' <=> CloseQueued(l))
      BY DEF SlotInv, CloseQueued
    <2>2. link[l] = "down" /\ Forgotten(l) => Forgotten(l)'
      BY DEF Forgotten
    <2> QED
      BY <2>1, <2>2 DEF ClosedRight
  <1> QED
    BY <1>1, <1>2 DEF SlotInv

LEMMA SlotStep ==
    ASSUME SlotInv, [SyncNext]_syncVars
    PROVE  SlotInv'
  <1>0. SyncTypeOK /\ Core /\ SyncTypeOK'
    BY TypeStep DEF SlotInv
  <1>1. ASSUME NEW r \in Resources, NEW fits \in BOOLEAN, Advertise(r, fits)
        PROVE  SlotInv'
    BY <1>0, <1>1, SlotAdvertise
  <1>2. CASE HandleEvent
    <2>1. Core' /\ \A r \in Resources : InOrder(r)'
      BY <1>0, <1>2, CoreEvent, OrderEvent DEF SlotInv
    <2>2. \A l \in Links : ClosedRight(l)'
      BY <1>0, <1>2, ClosedEvent DEF SlotInv
    <2> QED
      BY <1>0, <2>1, <2>2 DEF SlotInv
  <1>3. ASSUME NEW r \in Resources, NEW outcome \in Outcome, Conclude(r, outcome)
        PROVE  SlotInv'
    BY <1>0, <1>3, SlotConclude
  <1>4. ASSUME NEW l \in Links, Identify(l)
        PROVE  SlotInv'
    <2>1. Core'
      BY <1>0, <1>4, CoreSame DEF Identify, runtime, admission
    <2>2. /\ UNCHANGED runtime /\ transfer' = transfer /\ events' = events
          /\ \A k \in Links : link'[k] = "down" <=> link[k] = "down"
      BY <1>0, <1>4 DEF Identify, SyncTypeOK
    <2> QED
      BY <1>0, <2>1, <2>2, SlotOffer DEF runtime, admission
  <1>5. ASSUME NEW l \in Links, Preflight(l)
        PROVE  SlotInv'
    <2>1. Core'
      BY <1>0, <1>5, CoreSame DEF Preflight
    <2>2. link[l] # "down" /\ offer' = l
      BY <1>5 DEF Preflight
    <2>3. UNCHANGED <<record, validated, quarantined, correlation, pending, manager, events>>
      BY <1>5 DEF Preflight
    <2> QED
      BY <1>0, <2>1, <2>2, <2>3, SlotOffer DEF manager
  <1>6. CASE Discard
    <2>1. Core'
      BY <1>0, <1>6, CoreSame DEF Discard
    <2>2. candidate' = FALSE
      BY <1>6 DEF Discard
    <2>3. UNCHANGED <<record, validated, quarantined, correlation, pending, manager, events>>
      BY <1>6 DEF Discard
    <2> QED
      BY <1>0, <2>1, <2>2, <2>3, SlotOffer DEF manager
  <1>7. ASSUME NEW wanted \in BOOLEAN, Commit(wanted)
        PROVE  SlotInv'
    <2>1. Core'
      BY <1>0, <1>7, CoreCommit
    <2>2. ASSUME NEW l \in Links, Forgotten(l)
          PROVE  record'[l] = record[l] /\ (l \in validated' => l \in validated)
      <3>1. ~(candidate /\ offer = l)
        BY <2>2 DEF Forgotten
      <3> QED
        BY <1>0, <1>7, <3>1 DEF Commit, SyncTypeOK
    <2>3. candidate' = FALSE
      BY <1>7 DEF Commit
    <2>4. UNCHANGED <<quarantined, correlation, pending, manager, events>>
      BY <1>7 DEF Commit
    <2> QED
      BY <1>0, <2>1, <2>2, <2>3, <2>4, SlotOffer DEF manager
  <1>8. ASSUME NEW r \in Resources, Start(r) \/ Complete(r) \/ FailTransfer(r)
        PROVE  SlotInv'
    <2>1. Core'
      BY <1>0, <1>8, CoreSame DEF Start, Complete, FailTransfer, Post, runtime, admission
    <2>2. \A q \in Resources : InOrder(q)'
      BY <1>0, <1>8, OrderPost DEF SlotInv
    <2>3. \A l \in Links : ClosedRight(l)'
      BY <1>0, <1>8, ClosedPost DEF SlotInv
    <2> QED
      BY <1>0, <2>1, <2>2, <2>3 DEF SlotInv
  <1>9. ASSUME NEW l \in Links, Close(l)
        PROVE  SlotInv'
    <2>1. Core'
      BY <1>0, <1>9, CoreSame DEF Close, runtime, admission
    <2>2. \A q \in Resources : InOrder(q)'
      BY <1>0, <1>9, OrderClose DEF SlotInv
    <2>3. \A k \in Links : ClosedRight(k)'
      BY <1>0, <1>9, ClosedClose DEF SlotInv
    <2> QED
      BY <1>0, <2>1, <2>2, <2>3 DEF SlotInv
  <1>10. CASE UNCHANGED syncVars \/ \E p \in Peers : Expire(p)
    <2>1. UNCHANGED <<record, offer, candidate, validated, quarantined, correlation, pending,
                      manager, events>>
      BY <1>10 DEF Expire, syncVars, runtime, admission
    <2>2. Core'
      BY <1>0, <2>1, CoreSame
    <2> QED
      BY <1>0, <2>1, <2>2, SlotOffer DEF manager
  <1> QED
    BY <1>1, <1>2, <1>3, <1>4, <1>5, <1>6, <1>7, <1>8, <1>9, <1>10 DEF SyncNext

LEMMA SlotInit ==
    ASSUME SyncInit
    PROVE  SlotInv
  <1>1. /\ record = [l \in Links |-> Absent] /\ events = <<>> /\ candidate = FALSE
        /\ correlation = [r \in Resources |-> Absent] /\ pending = [r \in Resources |-> Absent]
        /\ validated = {} /\ quarantined = {} /\ link = [l \in Links |-> "up"]
    BY DEF SyncInit
  <1>2. SyncTypeOK
    <2>1. /\ <<>> \in Seq(Event) /\ offer = Absent /\ throttled = {} /\ jobs = {}
          /\ transfer = [r \in Resources |-> "new"]
      BY DEF SyncInit
    <2> HIDE DEF Event
    <2> QED
      BY <1>1, <2>1 DEF SyncTypeOK
  <1>3. Absent \notin {"Transferring", "Validating"}
    BY AbsentAssumption
  <1>4. Core
    BY <1>1, <1>3 DEF Core, RecordRight, Together, Live, Uploads, Validates
  <1>5. \A r \in Resources : InOrder(r)
    BY <1>1 DEF InOrder, InQueue, Undispatched
  <1>6. \A l \in Links : ClosedRight(l)
    BY <1>1 DEF ClosedRight, CloseQueued
  <1> QED
    BY <1>2, <1>4, <1>5, <1>6 DEF SlotInv

LEMMA SlotsFollow == SlotInv => SlotsOwned
  <1> SUFFICES ASSUME SlotInv PROVE SlotsOwned
    OBVIOUS
  <1>1. ASSUME NEW l \in Links, link[l] = "down",
               \A i \in DOMAIN events : events[i] # [kind |-> "LinkClosed", link |-> l]
        PROVE  Forgotten(l)
    <2>1. ~CloseQueued(l)
      <3> SUFFICES ASSUME NEW i \in DOMAIN events, events[i].kind = "LinkClosed", events[i].link = l
                   PROVE  FALSE
        BY DEF CloseQueued
      <3>1. events[i] \in Event
        BY DEF SlotInv, SyncTypeOK
      <3>2. events[i] \in [kind: {"LinkClosed"}, link: Links]
        BY <3>1 DEF Event
      <3>3. events[i] = [kind |-> "LinkClosed", link |-> l]
        BY <3>2
      <3> QED
        BY <1>1, <3>3
    <2> QED
      BY <1>1, <2>1 DEF SlotInv, ClosedRight
  <1>2. ClosedForgotten
    BY <1>1 DEF ClosedForgotten, Forgotten
  <1>3. ASSUME NEW l \in Links
        PROVE  /\ record[l] = "Transferring" <=>
                    \E r \in Resources : /\ LinkOf[r] = l /\ correlation[r] # Absent
                                         /\ correlation[r].owner = "Offered"
                                         /\ correlation[r].started /\ ~correlation[r].dispatched
               /\ record[l] = "Validating" <=>
                    \E r \in Resources : /\ LinkOf[r] = l /\ pending[r] # Absent
                                         /\ pending[r].owner = "Offered" /\ ~pending[r].closed
    <2>1. RecordRight(l)
      BY DEF SlotInv, Core
    <2> QED
      BY <2>1 DEF RecordRight, Uploads, Validates
  <1> QED
    BY <1>2, <1>3 DEF SlotsOwned

(* A sync slot is held exactly while its offer's Resource is under way or   *)
(* its payload in validation, and nothing of a Link is left once the daemon *)
(* has seen it close.                                                       *)
THEOREM SlotsAreOwned == SyncSpec => []SlotsOwned
  <1>1. SyncInit => SlotInv
    BY SlotInit
  <1>2. SlotInv => SlotsOwned
    BY SlotsFollow
  <1>3. QED
    BY <1>1, <1>2, SlotStep, PTL DEF SyncSpec

-----------------------------------------------------------------------------
(* The sync with a peer.                                                    *)

FileRecord == [terms: Terms, handled: SUBSET Mail]
PeerTypes ==
    /\ shelf \subseteq Mail /\ generation \in Nat /\ shelvedAt \in [Mail -> Nat]
    /\ peers \in [Nodes -> Peer \cup {NoNode}] /\ peerFile \in [Nodes -> FileRecord \cup {NoNode}]
    /\ pendingSyncs \subseteq Nodes /\ task \in Task /\ drained \in BOOLEAN
    /\ credits \subseteq Nodes \X Mail
    /\ confirmed \in [Nodes -> SUBSET Mail] /\ unwanted \in [Nodes -> SUBSET Mail]

Done(n) == confirmed[n] \cup unwanted[n]

(* Every held ID has its generation, and the bounds hold.                   *)
Shelved ==
    /\ \A m \in shelf : shelvedAt[m] >= 1
    /\ \A m \in Mail : shelvedAt[m] <= generation
    /\ generation <= MaxGeneration /\ restarts \in 0 .. MaxRestarts

(* An attempt that is under way, or may be so again by a late answer.       *)
Alive == task.bind \/ task.sending # {} \/ task.state \in Trying \cup {"Complete"}
Owned ==
    /\ Alive => /\ task.with \in Known /\ peers[task.with].busy
                /\ task.terms = peers[task.with].terms
    /\ \A n \in Known : peers[n].busy => task.state # "Idle" /\ task.with = n
    /\ task.state \in Trying \cup Finished => task.with \in Nodes

Marked ==
    /\ \A n \in Nodes : /\ peerFile[n] # NoNode => peerFile[n].handled \subseteq Done(n)
                        /\ n \in Known => peers[n].handled \subseteq Done(n)
                        /\ n \in Known => peers[n].terms.refuse \subseteq unwanted[n]
                        /\ peerFile[n] # NoNode => peerFile[n].terms.refuse \subseteq unwanted[n]
    /\ \A c \in credits : c[2] \in confirmed[c[1]]

(* What is held since before a generation.                                  *)
Before(g) == {m \in shelf : shelvedAt[m] <= g}
Processed ==
    \A n \in Known :
        /\ peers[n].processed <= generation
        /\ peers[n].terms.room > 0 => Before(peers[n].processed) \subseteq Done(n)

(* What an attempt has taken down of its peer is so.                        *)
Noted ==
    task.state # "Idle" =>
        /\ task.seen \cup task.updates \subseteq Done(task.with)
        /\ task.terms # NoNode => task.terms.refuse \subseteq unwanted[task.with]

(* The work of the offer: what it leaves out, the peer has or refuses.      *)
JobRight ==
    task.job # NoNode =>
        /\ task.terms # NoNode /\ task.job.gen <= generation
        /\ task.job.gen = generation => task.job.ids = shelf
        /\ task.job.out # NoNode =>
             /\ task.job.out.refuse \subseteq unwanted[task.with]
             /\ task.job.out.all /\ task.terms.room > 0 =>
                  task.job.ids \subseteq Done(task.with) \cup task.job.out.take

(* An attempt with nothing left for later: what was held then is known to   *)
(* the peer, or is still on its way.                                        *)
OnItsWay ==
    IF task.state = "AwaitingResponse" THEN task.offered
    ELSE IF task.state = "Transferring" /\ task.sending = {} /\ task.batch # NoNode
    THEN task.batch.want ELSE task.sending
Fresh == ~task.exhausted /\ task.job = NoNode /\ task.batch = NoNode /\ task.sending = {}
ResultRight ==
    /\ task.upTo <= generation
    /\ task.sending # {} => task.state \in {"Transferring", "Failed"}
    /\ Alive /\ task.exhausted /\ task.terms.room > 0 =>
         Before(task.upTo) \subseteq Done(task.with) \cup OnItsWay
    /\ task.state = "Offering" => ~task.exhausted
    /\ task.bind \/ task.state \in {"Idle", "Establishing"} => Fresh
    /\ task.bind => task.state \in {"Establishing", "Failed"}

PeerInv ==
    /\ PeerTypes /\ Shelved /\ Owned /\ Marked /\ Processed /\ Noted /\ JobRight
    /\ ResultRight

-----------------------------------------------------------------------------
(* What the history keeps: a peer never loses what it has or refuses.       *)
Grows ==
    /\ confirmed' \in [Nodes -> SUBSET Mail] /\ unwanted' \in [Nodes -> SUBSET Mail]
    /\ \A n \in Nodes : confirmed[n] \subseteq confirmed'[n] /\ unwanted[n] \subseteq unwanted'[n]

LEMMA HistorySame ==
    ASSUME PeerTypes, UNCHANGED historyVars
    PROVE  Grows
  BY DEF PeerTypes, historyVars, Grows

LEMMA PeerFields ==
    ASSUME NEW p \in Peer
    PROVE  p.terms \in Terms /\ p.handled \subseteq Mail /\ p.processed \in Nat /\ p.busy \in BOOLEAN
  BY DEF Peer

LEMMA TermsFields ==
    ASSUME NEW t \in Terms
    PROVE  t.refuse \subseteq Mail /\ t.room \in Nat /\ t # NoNode
  BY TermsAreTerms, NoNodeAssumption

LEMMA KnownPeers ==
    ASSUME PeerTypes
    PROVE  /\ \A n \in Known : n \in Nodes /\ peers[n] \in Peer
           /\ \A n \in Nodes : n \in Known <=> peers[n] # NoNode
           /\ NoNode \notin Nodes /\ NoNode \notin Peer
           /\ Known \subseteq Nodes
  BY NoNodeAssumption DEF PeerTypes, Known

(* The store grows or shrinks by one ID, in a new generation.               *)
StoreMoves(m) ==
    /\ generation' = generation + 1 /\ generation < MaxGeneration
    /\ \/ shelf' = shelf \cup {m} /\ shelvedAt' = [shelvedAt EXCEPT ![m] = generation + 1]
       \/ shelf' = shelf \ {m} /\ shelvedAt' = [shelvedAt EXCEPT ![m] = 0]

LEMMA StoreMoved ==
    ASSUME PeerInv, NEW m \in Mail, StoreMoves(m), UNCHANGED <<peers, peerFile, pendingSyncs, task, restarts>>,
           drained' \in BOOLEAN, credits' \subseteq Nodes \X Mail, unwanted' = unwanted, Grows,
           \A c \in credits' : c \in credits \/ c[2] \in confirmed'[c[1]]
    PROVE  PeerInv'
  <1>1. PeerTypes /\ Shelved /\ Owned /\ Marked /\ Processed /\ Noted /\ JobRight /\ ResultRight
    BY DEF PeerInv
  <1>2. PeerTypes'
    BY <1>1 DEF PeerTypes, StoreMoves, Grows
  <1>3. Shelved'
    BY <1>1, TermsAreTerms DEF PeerTypes, Shelved, StoreMoves
  <1>4. Known' = Known /\ (Alive' <=> Alive)
    BY DEF Known, Alive
  <1>5. Owned'
    BY <1>1, <1>4 DEF Owned
  <1>6. \A n \in Nodes : Done(n) \subseteq Done(n)'
    BY DEF Done, Grows
  <1>7. Marked'
    <2>1. \A c \in credits : c[1] \in Nodes /\ c[2] \in confirmed[c[1]]
      BY <1>1 DEF Marked, PeerTypes
    <2>2. \A c \in credits' : c[2] \in confirmed'[c[1]]
      BY <2>1 DEF Grows
    <2>3. \A n \in Nodes : /\ peerFile'[n] # NoNode => peerFile'[n].handled \subseteq Done(n)'
                           /\ n \in Known' => peers'[n].handled \subseteq Done(n)'
                           /\ n \in Known' => peers'[n].terms.refuse \subseteq unwanted'[n]
                           /\ peerFile'[n] # NoNode => peerFile'[n].terms.refuse \subseteq unwanted'[n]
      BY <1>1, <1>4, <1>6 DEF Marked
    <2> QED
      BY <2>2, <2>3 DEF Marked
  <1>8. \A g \in Nat : g <= generation => Before(g)' \subseteq Before(g)
    <2>1. ASSUME NEW g \in Nat, g <= generation, NEW x \in Before(g)' PROVE x \in Before(g)
      <3>1. x \in shelf' /\ shelvedAt'[x] <= g /\ x \in Mail
        BY <1>2, <2>1 DEF Before, PeerTypes
      <3>2. x # m
        BY <1>1, <2>1, <3>1 DEF StoreMoves, PeerTypes
      <3> QED
        BY <1>1, <3>1, <3>2 DEF StoreMoves, PeerTypes, Before
    <2> QED
      BY <2>1
  <1>9. Processed'
    <2>1. ASSUME NEW n \in Known
          PROVE  /\ peers[n].processed <= generation'
                 /\ peers[n].terms.room > 0 => Before(peers[n].processed)' \subseteq Done(n)'
      <3>1. n \in Nodes /\ peers[n].processed \in Nat /\ generation \in Nat
        BY <1>1, KnownPeers, PeerFields DEF PeerTypes
      <3>2. peers[n].processed <= generation
        BY <1>1 DEF Processed
      <3>3. Before(peers[n].processed)' \subseteq Before(peers[n].processed)
        BY <1>8, <3>1, <3>2 DEF Before
      <3> QED
        BY <1>1, <1>6, <3>1, <3>2, <3>3 DEF Processed, StoreMoves
    <2> QED
      BY <1>4, <2>1 DEF Processed
  <1>10. task.with \in Nodes \/ task.state = "Idle"
    BY <1>1 DEF PeerTypes, Task, Owned
  <1>11. Noted'
    BY <1>1, <1>6, <1>10 DEF Noted
  <1>12. task.job # NoNode => task.state # "Idle"
    BY <1>1 DEF ResultRight, Fresh
  <1>13. JobRight'
    <2>1. task.job # NoNode => task.job.gen <= generation /\ task.job.gen \in Nat /\ generation \in Nat
      BY <1>1 DEF JobRight, PeerTypes, Task, OfferJob
    <2>2. task.job # NoNode => task.job.gen <= generation' /\ task.job.gen # generation'
      BY <2>1 DEF StoreMoves
    <2> QED
      BY <1>1, <1>6, <1>10, <1>12, <2>2 DEF JobRight
  <1>14. ResultRight'
    <2>1. task.upTo \in Nat /\ task.upTo <= generation /\ generation \in Nat
      BY <1>1 DEF ResultRight, PeerTypes, Task
    <2>2. Before(task.upTo)' \subseteq Before(task.upTo)
      BY <1>8, <2>1 DEF Before
    <2>3. OnItsWay' = OnItsWay /\ Fresh' = Fresh
      BY DEF OnItsWay, Fresh
    <2>4. Alive /\ task.exhausted => task.with \in Nodes
      BY <1>1, <1>10 DEF ResultRight, Alive, Fresh, Trying
    <2>5. task.upTo <= generation'
      BY <2>1 DEF StoreMoves
    <2>6. Alive' /\ task.exhausted /\ task.terms.room > 0 =>
             Before(task.upTo)' \subseteq Done(task.with)' \cup OnItsWay'
      BY <1>1, <1>4, <1>6, <2>2, <2>3, <2>4 DEF ResultRight
    <2> QED
      BY <1>1, <2>3, <2>5, <2>6 DEF ResultRight
  <1> QED
    BY <1>2, <1>3, <1>5, <1>7, <1>9, <1>11, <1>13, <1>14 DEF PeerInv

-----------------------------------------------------------------------------
(* Steps of the attempt.                                                    *)
AttemptMoves ==
    /\ UNCHANGED <<shelf, generation, shelvedAt, peers, peerFile, credits, restarts, unwanted>>
    /\ pendingSyncs' \subseteq Nodes /\ drained' \in BOOLEAN /\ Grows
    /\ task' \in Task /\ task.state # "Idle" /\ task'.state # "Idle"
    /\ task'.with = task.with /\ task'.terms = task.terms /\ task'.seen = task.seen
    /\ task'.updates \subseteq Done(task.with)' /\ (Alive' => Alive)

LEMMA AttemptMoved ==
    ASSUME PeerInv, AttemptMoves, JobRight', ResultRight'
    PROVE  PeerInv'
  <1>1. PeerTypes /\ Shelved /\ Owned /\ Marked /\ Processed /\ Noted
    BY DEF PeerInv
  <1>2. PeerTypes'
    BY <1>1 DEF PeerTypes, AttemptMoves, Grows
  <1>3. Shelved' /\ Known' = Known
    BY <1>1 DEF Shelved, Known, AttemptMoves
  <1>4. task.with \in Nodes
    BY <1>1 DEF PeerTypes, Task, Owned, AttemptMoves
  <1>5. Owned'
    BY <1>1, <1>3, <1>4 DEF Owned, AttemptMoves
  <1>6. \A n \in Nodes : Done(n) \subseteq Done(n)' /\ unwanted'[n] = unwanted[n]
    BY DEF Done, Grows, AttemptMoves
  <1>7. Marked'
    <2>1. \A c \in credits' : c[2] \in confirmed'[c[1]]
      BY <1>1 DEF Marked, PeerTypes, Grows, AttemptMoves
    <2>2. \A n \in Nodes : /\ peerFile'[n] # NoNode => peerFile'[n].handled \subseteq Done(n)'
                           /\ n \in Known' => peers'[n].handled \subseteq Done(n)'
                           /\ n \in Known' => peers'[n].terms.refuse \subseteq unwanted'[n]
                           /\ peerFile'[n] # NoNode => peerFile'[n].terms.refuse \subseteq unwanted'[n]
      BY <1>1, <1>3, <1>6 DEF Marked, AttemptMoves
    <2> QED
      BY <2>1, <2>2 DEF Marked
  <1>8. Processed'
    <2>2. ASSUME NEW n \in Known
          PROVE  (/\ peers[n].processed <= generation
                  /\ peers[n].terms.room > 0 => Before(peers[n].processed) \subseteq Done(n))'
      <3>1. n \in Nodes /\ peers' = peers /\ generation' = generation
        BY <1>1, KnownPeers DEF AttemptMoves
      <3>2. Before(peers[n].processed)' = Before(peers[n].processed)
        BY DEF Before, AttemptMoves
      <3> QED
        BY <1>1, <1>6, <3>1, <3>2 DEF Processed
    <2> QED
      BY <1>3, <2>2 DEF Processed
  <1>9. Noted'
    BY <1>1, <1>4, <1>6 DEF Noted, AttemptMoves
  <1> QED
    BY <1>2, <1>3, <1>5, <1>7, <1>8, <1>9 DEF PeerInv

LEMMA JobKept ==
    ASSUME PeerInv, AttemptMoves, task'.job = task.job \/ task'.job = NoNode
    PROVE  JobRight'
  <1>1. PeerTypes /\ Owned /\ JobRight
    BY DEF PeerInv
  <1>2. task.with \in Nodes
    BY <1>1 DEF PeerTypes, Task, Owned, AttemptMoves
  <1>3. Done(task.with) \subseteq Done(task.with)' /\ unwanted' = unwanted /\ task'.with = task.with
    BY <1>2 DEF Done, Grows, AttemptMoves
  <1>4. generation' = generation /\ shelf' = shelf /\ task'.terms = task.terms
    BY DEF AttemptMoves
  <1>6. CASE task'.job = NoNode
    BY <1>6 DEF JobRight
  <1>7. CASE task'.job = task.job
    BY <1>1, <1>3, <1>4, <1>7 DEF JobRight
  <1> QED
    BY <1>6, <1>7

(* A step of the attempt begins or ends with a name of its own.             *)
LEMMA Begun ==
    ASSUME PeerInv
    PROVE  /\ PeerTypes /\ Shelved /\ Owned /\ Marked /\ Processed /\ Noted /\ JobRight /\ ResultRight
           /\ task \in Task /\ NoNode \notin Task
           /\ task.state # "Idle" => task.with \in Nodes
           /\ Alive => task.state # "Idle" /\ task.with \in Known /\ task.with \in Nodes
  <1>1. PeerTypes /\ Shelved /\ Owned /\ Marked /\ Processed /\ Noted /\ JobRight /\ ResultRight
    BY DEF PeerInv
  <1>2. task \in Task /\ NoNode \notin Task
    BY <1>1, NoNodeAssumption DEF PeerTypes
  <1>3. task.state # "Idle" => task.with \in Nodes
    BY <1>1, <1>2 DEF Owned, Task
  <1>4. Alive => task.state # "Idle"
    BY <1>1 DEF ResultRight, Alive, Trying, Fresh
  <1> QED
    BY <1>1, <1>2, <1>3, <1>4 DEF Owned

LEMMA OfferWorkerKeeps ==
    ASSUME PeerInv, OfferWorker
    PROVE  PeerInv'
  <1>1. PeerTypes /\ Owned /\ Marked /\ Noted /\ JobRight /\ ResultRight /\ task \in Task
    BY Begun
  <1>2. task.state # "Idle" /\ task.with \in Nodes
    BY <1>1, Begun DEF OfferWorker, ResultRight, Fresh
  <1>3. PICK out \in OfferOutcomes(task.job) : task' = [task EXCEPT !.job.out = out]
    BY DEF OfferWorker
  <1>4. task.job \in OfferJob /\ task.terms \in Terms /\ task.terms.refuse \subseteq Mail /\ task.terms.room \in Nat
    BY <1>1, TermsFields DEF Task, OfferWorker, JobRight
  <1>5. task.job.ids \subseteq Mail /\ task.seen \subseteq Mail
    BY <1>1, <1>4 DEF Task, OfferJob
  <1> DEFINE gone == task.seen \cup IF peerFile[task.with] = NoNode THEN {} ELSE peerFile[task.with].handled
             open == task.job.ids \ gone
             fit == open \ task.terms.refuse
  <1>6. gone \subseteq Done(task.with)
    BY <1>1, <1>2 DEF Noted, Marked
  <1>7. PICK take \in SUBSET fit :
          /\ out = [take |-> take, refuse |-> open \cap task.terms.refuse, all |-> take = fit \/ take = {}]
          /\ (Cardinality(take) = task.terms.room /\ take # fit) \/ take = fit
    BY DEF OfferOutcomes
  <1>8. out \in OfferOut
    BY <1>5, <1>7 DEF OfferOut
  <1>9. out.all /\ task.terms.room > 0 => out.take = fit
    <2>1. take = {} /\ task.terms.room > 0 => take = fit
      BY <1>4, <1>7, FS_EmptySet
    <2> QED
      BY <1>7, <2>1
  <1>10. task.terms.refuse \subseteq unwanted[task.with]
    BY <1>1, <1>2, <1>4, TermsFields DEF Noted
  <1>11. out.all /\ task.terms.room > 0 => task.job.ids \subseteq Done(task.with) \cup out.take
    BY <1>6, <1>9, <1>10 DEF Done
  <1>12. out.refuse \subseteq unwanted[task.with]
    BY <1>7, <1>10
  <1> HIDE DEF gone, open, fit
  <1>13. task'.job = [task.job EXCEPT !.out = out] /\ task' = [task EXCEPT !.job = task'.job]
    BY <1>1, <1>3 DEF Task
  <1>14. task'.job \in OfferJob /\ task'.job.out = out /\ task'.job.gen = task.job.gen /\ task'.job.ids = task.job.ids
    BY <1>4, <1>8, <1>13 DEF OfferJob
  <1>15. /\ task' \in Task
         /\ task'.state = task.state /\ task'.with = task.with /\ task'.terms = task.terms
         /\ task'.seen = task.seen /\ task'.updates = task.updates /\ task'.bind = task.bind
         /\ task'.sending = task.sending /\ task'.batch = task.batch /\ task'.offered = task.offered
         /\ task'.upTo = task.upTo /\ task'.exhausted = task.exhausted
    BY <1>1, <1>13, <1>14 DEF Task
  <1>16. UNCHANGED <<shelf, generation, shelvedAt, peers, peerFile, credits, restarts, unwanted, confirmed,
                     pendingSyncs, drained>> /\ Grows
    BY <1>1, HistorySame DEF OfferWorker, storeVars, peerState, historyVars
  <1>17. AttemptMoves
    BY <1>1, <1>2, <1>15, <1>16 DEF AttemptMoves, PeerTypes, Alive, Noted, Done
  <1>18. JobRight'
    BY <1>1, <1>11, <1>12, <1>14, <1>15, <1>16 DEF JobRight, OfferWorker, Done
  <1>19. ~task.exhausted => ~task'.exhausted
    BY <1>15
  <1>20. ~(task.bind \/ task.state \in {"Idle", "Establishing"})
    BY <1>1 DEF OfferWorker, ResultRight, Fresh
  <1>21. Before(task.upTo)' = Before(task.upTo) /\ OnItsWay' = OnItsWay /\ (Alive' <=> Alive)
    BY <1>15, <1>16 DEF Before, OnItsWay, Alive
  <1>22. ResultRight'
    BY <1>1, <1>15, <1>16, <1>20, <1>21 DEF ResultRight, Done
  <1> QED
    BY <1>17, <1>18, <1>22, AttemptMoved

LEMMA BatchWorkerKeeps ==
    ASSUME PeerInv, BatchWorker
    PROVE  PeerInv'
  <1>1. PeerTypes /\ Noted /\ ResultRight /\ task \in Task
    BY Begun
  <1>2. task.state # "Idle" /\ task.with \in Nodes /\ ~(task.bind \/ task.state \in {"Idle", "Establishing"})
    BY <1>1, Begun DEF BatchWorker, ResultRight, Fresh
  <1>3. PICK got \in SUBSET task.batch.plan : task' = [task EXCEPT !.batch.got = got]
    BY DEF BatchWorker
  <1>4. task.batch \in Batch
    BY <1>1 DEF Task, BatchWorker
  <1>5. task'.batch = [task.batch EXCEPT !.got = got] /\ task' = [task EXCEPT !.batch = task'.batch]
    BY <1>1, <1>3 DEF Task
  <1>6. task'.batch \in Batch /\ task'.batch.want = task.batch.want /\ NoNode \notin Batch
    BY <1>4, <1>5, NoNodeAssumption DEF Batch
  <1>7. /\ task' \in Task
        /\ task'.state = task.state /\ task'.with = task.with /\ task'.terms = task.terms
        /\ task'.seen = task.seen /\ task'.updates = task.updates /\ task'.bind = task.bind
        /\ task'.sending = task.sending /\ task'.job = task.job /\ task'.offered = task.offered
        /\ task'.upTo = task.upTo /\ task'.exhausted = task.exhausted
    BY <1>1, <1>5, <1>6 DEF Task
  <1>8. UNCHANGED <<shelf, generation, shelvedAt, peers, peerFile, credits, restarts, unwanted, confirmed,
                    pendingSyncs, drained>> /\ Grows
    BY <1>1, HistorySame DEF BatchWorker, storeVars, peerState, historyVars
  <1>9. AttemptMoves
    BY <1>1, <1>2, <1>7, <1>8 DEF AttemptMoves, PeerTypes, Alive, Noted, Done
  <1>10. Before(task.upTo)' = Before(task.upTo) /\ OnItsWay' = OnItsWay /\ (Alive' <=> Alive)
    BY <1>4, <1>6, <1>7, <1>8 DEF Before, OnItsWay, Alive, BatchWorker
  <1>11. ResultRight'
    BY <1>1, <1>2, <1>7, <1>8, <1>10 DEF ResultRight, Done
  <1> QED
    BY <1>7, <1>9, <1>11, AttemptMoved, JobKept

(* What an event of the Link leaves alone.                                  *)
LEMMA HeardFrame ==
    ASSUME PeerInv, NEW t \in Task, Heard(t), Grows, task.state # "Idle", t.state # "Idle",
           t.with = task.with, t.terms = task.terms, t.seen = task.seen, t.job = task.job,
           t.updates \subseteq Done(task.with)', Alive' => Alive, ResultRight'
    PROVE  PeerInv'
  <1>1. PeerTypes
    BY Begun
  <1>2. AttemptMoves
    BY <1>1 DEF AttemptMoves, PeerTypes, Heard, storeVars, peerState
  <1> QED
    BY <1>2, AttemptMoved, JobKept DEF Heard

(* An attempt that fails, or is bound to its endpoint again, and has no     *)
(* more on its way than before.                                             *)
Slowed(t) ==
    /\ t.with = task.with /\ t.terms = task.terms /\ t.seen = task.seen /\ t.job = task.job
    /\ t.updates = task.updates /\ t.upTo = task.upTo /\ t.exhausted = task.exhausted

LEMMA HeardSlowed ==
    ASSUME PeerInv, NEW t \in Task, Heard(t), UNCHANGED confirmed, task.state # "Idle", t.state # "Idle",
           Slowed(t), Alive' => Alive,
           t.sending # {} => t.state \in {"Transferring", "Failed"},
           (Alive' /\ t.exhausted) => OnItsWay \subseteq OnItsWay',
           t.state = "Offering" => ~t.exhausted,
           t.bind \/ t.state = "Establishing" => Fresh',
           t.bind => t.state \in {"Establishing", "Failed"}
    PROVE  PeerInv'
  <1>1. PeerTypes /\ ResultRight /\ Noted
    BY Begun
  <1>2. UNCHANGED <<shelf, generation, shelvedAt, peers, peerFile, credits, restarts, unwanted, confirmed,
                    pendingSyncs>> /\ task' = t
    BY DEF Heard, storeVars, peerState
  <1>3. Grows
    BY <1>1, <1>2, HistorySame DEF historyVars
  <1>4. Before(task.upTo)' = Before(task.upTo) /\ Done(task.with)' = Done(task.with)
    BY <1>2 DEF Before, Done, Slowed
  <1>5. t.updates \subseteq Done(task.with)'
    BY <1>1, <1>4 DEF Noted, Slowed
  <1>6. ResultRight'
    BY <1>1, <1>2, <1>4 DEF ResultRight, Slowed
  <1> QED
    BY <1>3, <1>5, <1>6, HeardFrame DEF Slowed

LEMMA LinkProvenKeeps ==
    ASSUME PeerInv, LinkProven
    PROVE  PeerInv'
  <1>1. task \in Task /\ ResultRight /\ task.state = "Establishing"
    BY Begun DEF LinkProven
  <1>2. PICK t : t = [task EXCEPT !.bind = TRUE]
    OBVIOUS
  <1>3. t \in Task /\ Slowed(t) /\ t.state = task.state /\ t.bind /\ t.sending = task.sending /\ t.batch = task.batch
        /\ t.offered = task.offered
    BY <1>1, <1>2 DEF Task, Slowed
  <1>4. Heard(t) /\ UNCHANGED confirmed /\ task' = t
    BY <1>2 DEF LinkProven, Heard
  <1>5. Fresh'
    BY <1>1, <1>3, <1>4 DEF ResultRight, Fresh, Slowed
  <1>6. (Alive' => Alive) /\ OnItsWay' = OnItsWay
    BY <1>1, <1>3, <1>4 DEF Alive, OnItsWay, Trying
  <1>7. t.sending = {} /\ ~t.exhausted
    BY <1>1, <1>3 DEF ResultRight, Fresh, Slowed
  <1> QED
    BY <1>1, <1>3, <1>4, <1>5, <1>6, <1>7, HeardSlowed

LEMMA EndpointBoundKeeps ==
    ASSUME PeerInv, EndpointBound
    PROVE  PeerInv'
  <1>1. task \in Task /\ ResultRight /\ task.bind /\ task.state # "Idle"
    BY Begun DEF EndpointBound, Alive
  <1>2. PICK t : t = [task EXCEPT !.bind = FALSE, !.state = "Offering"]
    OBVIOUS
  <1>3. t \in Task /\ Slowed(t) /\ t.state = "Offering" /\ ~t.bind /\ t.sending = task.sending /\ t.batch = task.batch
    BY <1>1, <1>2 DEF Task, Slowed, Trying
  <1>4. Heard(t) /\ UNCHANGED confirmed /\ task' = t
    BY <1>2 DEF EndpointBound, Heard
  <1>5. Fresh
    BY <1>1 DEF ResultRight
  <1>6. t.sending = {} /\ ~t.exhausted /\ Alive
    BY <1>1, <1>3, <1>5 DEF Fresh, Slowed, Alive
  <1> QED
    BY <1>1, <1>3, <1>4, <1>6, HeardSlowed

LEMMA BrokenKeeps ==
    ASSUME PeerInv, Broken
    PROVE  PeerInv'
  <1>1. task \in Task /\ ResultRight /\ Alive /\ task.state # "Idle"
    BY Begun DEF Broken, Alive
  <1>2. PICK t : t = [task EXCEPT !.state = "Failed", !.bind = FALSE]
    OBVIOUS
  <1>3. t \in Task /\ Slowed(t) /\ t.state = "Failed" /\ ~t.bind /\ t.sending = task.sending
    BY <1>1, <1>2 DEF Task, Slowed, Finished
  <1>4. Heard(t) /\ UNCHANGED confirmed /\ task' = t
    BY <1>2 DEF Broken, Heard
  <1>5. Alive' => OnItsWay \subseteq OnItsWay'
    <2>1. Alive' => task.sending # {}
      BY <1>3, <1>4 DEF Alive, Trying
    <2>2. task.sending # {} => OnItsWay = task.sending
      BY <1>1 DEF OnItsWay, ResultRight
    <2> QED
      BY <1>3, <1>4, <2>1, <2>2 DEF OnItsWay
  <1> QED
    BY <1>1, <1>3, <1>4, <1>5, HeardSlowed

LEMMA TransferCancelledKeeps ==
    ASSUME PeerInv, TransferCancelled
    PROVE  PeerInv'
  <1>1. task \in Task /\ ResultRight /\ Alive /\ task.state # "Idle"
    BY Begun DEF TransferCancelled, Alive
  <1>2. PICK t : t = [task EXCEPT !.state = "Failed", !.sending = {}]
    OBVIOUS
  <1>3. t \in Task /\ Slowed(t) /\ t.state = "Failed" /\ t.bind = task.bind /\ t.sending = {}
    BY <1>1, <1>2 DEF Task, Slowed, Finished
  <1>4. Heard(t) /\ UNCHANGED confirmed /\ task' = t
    BY <1>2 DEF TransferCancelled, Heard
  <1>5. ~task.bind
    BY <1>1 DEF ResultRight, Fresh, TransferCancelled
  <1>6. ~Alive'
    BY <1>3, <1>4, <1>5 DEF Alive, Trying
  <1> QED
    BY <1>1, <1>3, <1>4, <1>5, <1>6, HeardSlowed

LEMMA SyncLinkClosedKeeps ==
    ASSUME PeerInv, SyncLinkClosed
    PROVE  PeerInv'
  <1>1. task \in Task /\ ResultRight /\ task.state # "Idle"
    BY Begun DEF SyncLinkClosed
  <1>2. PICK t : t = [task EXCEPT !.state = "Failed", !.closed = TRUE, !.sending = {}, !.batch = NoNode]
    OBVIOUS
  <1>3. t \in Task /\ Slowed(t) /\ t.state = "Failed" /\ t.bind = task.bind /\ t.sending = {} /\ t.batch = NoNode
    BY <1>1, <1>2 DEF Task, Slowed, Finished
  <1>4. Heard(t) /\ UNCHANGED confirmed /\ task' = t
    BY <1>2 DEF SyncLinkClosed, Heard
  <1>5. t.bind => Fresh' /\ ~t.exhausted
    BY <1>1, <1>3, <1>4 DEF ResultRight, Fresh, Slowed
  <1>6. Alive' => t.bind /\ Alive
    BY <1>3, <1>4 DEF Alive, Trying
  <1> QED
    BY <1>1, <1>3, <1>4, <1>5, <1>6, HeardSlowed

LEMMA ErrorResponseKeeps ==
    ASSUME PeerInv, ErrorResponse
    PROVE  PeerInv'
  <1>1. task \in Task /\ ResultRight /\ task.state = "AwaitingResponse"
    BY Begun DEF ErrorResponse
  <1>2. PICK t : t = [task EXCEPT !.state = "Failed"]
    OBVIOUS
  <1>3. t \in Task /\ Slowed(t) /\ t.state = "Failed" /\ t.bind = task.bind /\ t.sending = task.sending
    BY <1>1, <1>2 DEF Task, Slowed, Finished
  <1>4. Heard(t) /\ UNCHANGED confirmed /\ task' = t
    BY <1>2 DEF ErrorResponse, Heard
  <1>5. task.sending = {} /\ ~task.bind
    BY <1>1 DEF ResultRight
  <1>6. ~Alive'
    BY <1>3, <1>4, <1>5 DEF Alive, Trying
  <1> QED
    BY <1>1, <1>3, <1>4, <1>5, <1>6, HeardSlowed

(* What a node says it has, or proves, is added to what it has.             *)
LEMMA Confirms ==
    ASSUME PeerInv, task.with \in Nodes, NEW more \in SUBSET Mail, unwanted' = unwanted,
           confirmed' = [confirmed EXCEPT ![task.with] = @ \cup more]
    PROVE  Grows /\ (task'.with = task.with => Done(task.with)' = Done(task.with) \cup more)
  <1>1. PeerTypes
    BY Begun
  <1>2. confirmed'[task.with] = confirmed[task.with] \cup more /\ Grows
    BY <1>1 DEF PeerTypes, Grows
  <1>3. task'.with = task.with => Done(task.with)' = Done(task.with) \cup more
    BY <1>2 DEF Done
  <1> QED
    BY <1>2, <1>3

LEMMA ResponseKeeps ==
    ASSUME PeerInv, NEW wanted \in SUBSET Mail, Response(wanted)
    PROVE  PeerInv'
  <1>1. /\ PeerTypes /\ task \in Task /\ ResultRight /\ Noted /\ task.state = "AwaitingResponse"
        /\ task.with \in Nodes /\ Alive
    BY Begun DEF Response, Alive, Trying
  <1>2. PICK want : want = wanted \cap task.offered
    OBVIOUS
  <1>3. PICK told : told = [task EXCEPT !.updates = @ \cup NotWanted(task.offered, want)]
    OBVIOUS
  <1>4. PICK t : t = IF want = {} THEN [told EXCEPT !.state = "Complete"]
                     ELSE [told EXCEPT !.state = "Transferring",
                                       !.batch = [want |-> want, plan |-> want \cap shelf, got |-> NoNode]]
    OBVIOUS
  <1>5. Heard(t) /\ task' = t /\ confirmed' = [confirmed EXCEPT ![task.with] = @ \cup (task.offered \ wanted)]
    BY <1>2, <1>3, <1>4 DEF Response, Heard
  <1>6. task.offered \subseteq Mail /\ want \subseteq Mail
    BY <1>1, <1>2 DEF Task
  <1>7. told \in Task /\ told.updates = task.updates \cup (task.offered \ want)
    BY <1>1, <1>3, <1>6 DEF Task, NotWanted
  <1>8. [want |-> want, plan |-> want \cap shelf, got |-> NoNode] \in Batch /\ NoNode \notin Batch
    BY <1>6, NoNodeAssumption DEF Batch
  <1>9. /\ t \in Task /\ t.updates = told.updates /\ t.with = task.with /\ t.terms = task.terms
        /\ t.seen = task.seen /\ t.job = task.job /\ t.sending = task.sending /\ t.bind = task.bind
        /\ t.exhausted = task.exhausted /\ t.upTo = task.upTo /\ t.state \in {"Complete", "Transferring"}
        /\ want = {} => t.state = "Complete"
        /\ want # {} => t.state = "Transferring" /\ t.batch # NoNode /\ t.batch.want = want
    BY ZenonT(60), <1>1, <1>3, <1>4, <1>7, <1>8 DEF Task, Trying, Finished
  <1>10. unwanted' = unwanted /\ shelf' = shelf /\ shelvedAt' = shelvedAt /\ generation' = generation
    BY <1>5 DEF Heard, storeVars
  <1>11. Grows /\ Done(task.with)' = Done(task.with) \cup (task.offered \ wanted)
    BY <1>1, <1>5, <1>6, <1>9, <1>10, Confirms
  <1>12. t.updates \subseteq Done(task.with)'
    BY <1>1, <1>2, <1>7, <1>9, <1>11 DEF Noted
  <1>13. ~task.bind /\ task.sending = {} /\ OnItsWay = task.offered
    BY <1>1 DEF ResultRight, OnItsWay
  <1>14. want \subseteq OnItsWay'
    BY <1>5, <1>9, <1>13 DEF OnItsWay
  <1>15. Before(task.upTo)' = Before(task.upTo)
    BY <1>5, <1>9, <1>10 DEF Before
  <1>16. task.exhausted /\ task.terms.room > 0 => Before(task.upTo) \subseteq Done(task.with)' \cup OnItsWay'
    BY <1>1, <1>2, <1>11, <1>13, <1>14 DEF ResultRight
  <1>17. ResultRight'
    BY <1>1, <1>5, <1>9, <1>10, <1>13, <1>15, <1>16 DEF ResultRight
  <1> QED
    BY <1>1, <1>5, <1>9, <1>11, <1>12, <1>17, HeardFrame

LEMMA SegmentProvenKeeps ==
    ASSUME PeerInv, SegmentProven
    PROVE  PeerInv'
  <1>1. /\ PeerTypes /\ task \in Task /\ ResultRight /\ Noted /\ task.sending # {}
        /\ task.with \in Nodes /\ Alive /\ task.state # "Idle"
    BY Begun DEF SegmentProven, Alive
  <1>2. PICK t : t = [task EXCEPT !.state = "Complete", !.sending = {}, !.updates = @ \cup Proven]
    OBVIOUS
  <1>3. Heard(t) /\ task' = t /\ confirmed' = [confirmed EXCEPT ![task.with] = @ \cup task.sending]
    BY <1>2 DEF SegmentProven, Heard
  <1>4. /\ t \in Task /\ t.updates = task.updates \cup task.sending /\ t.with = task.with /\ t.terms = task.terms
        /\ t.seen = task.seen /\ t.job = task.job /\ t.sending = {} /\ t.bind = task.bind
        /\ t.exhausted = task.exhausted /\ t.upTo = task.upTo /\ t.state = "Complete"
    BY <1>1, <1>2 DEF Task, Trying, Finished, Proven
  <1>5. unwanted' = unwanted /\ shelf' = shelf /\ shelvedAt' = shelvedAt /\ generation' = generation
    BY <1>3 DEF Heard, storeVars
  <1>6. task.sending \subseteq Mail
    BY <1>1 DEF Task
  <1>7. Grows /\ Done(task.with)' = Done(task.with) \cup task.sending
    BY <1>1, <1>3, <1>4, <1>5, <1>6, Confirms
  <1>8. t.updates \subseteq Done(task.with)'
    BY <1>1, <1>4, <1>7 DEF Noted
  <1>9. ~task.bind /\ OnItsWay = task.sending
    BY <1>1 DEF ResultRight, OnItsWay, Fresh
  <1>10. Before(task.upTo)' = Before(task.upTo)
    BY <1>3, <1>4, <1>5 DEF Before
  <1>11. task.exhausted /\ task.terms.room > 0 => Before(task.upTo) \subseteq Done(task.with)'
    BY <1>1, <1>7, <1>9 DEF ResultRight
  <1>12. ResultRight'
    BY <1>1, <1>3, <1>4, <1>5, <1>9, <1>10, <1>11 DEF ResultRight
  <1> QED
    BY <1>1, <1>3, <1>4, <1>7, <1>8, <1>12, HeardFrame

-----------------------------------------------------------------------------
(* Steps that change one peer and its file.                                 *)
Told(p, n) ==
    /\ p.handled \subseteq Done(n) /\ p.terms.refuse \subseteq unwanted[n]
    /\ p.processed <= generation
    /\ p.terms.room > 0 => Before(p.processed) \subseteq Done(n)

OnePeer(n) ==
    /\ UNCHANGED <<shelf, generation, shelvedAt, restarts>> /\ Grows
    /\ pendingSyncs' \subseteq Nodes /\ drained' \in BOOLEAN /\ credits' \subseteq credits
    /\ peers' \in [Nodes -> Peer \cup {NoNode}]
    /\ \A k \in Nodes \ {n} : peers'[k] = peers[k]
    /\ peers'[n] # NoNode => Told(peers[n], n)'
    /\ \/ peerFile' = peerFile
       \/ peerFile' = [peerFile EXCEPT ![n] = NoNode]
       \/ peers'[n] # NoNode /\ peerFile' = [peerFile EXCEPT ![n] = Saved(peers'[n])]

LEMMA PeerChanged ==
    ASSUME PeerInv, NEW n \in Nodes, OnePeer(n), task' \in Task
    PROVE  PeerTypes' /\ Shelved' /\ Marked' /\ Processed'
  <1>1. PeerTypes /\ Shelved /\ Marked /\ Processed
    BY Begun
  <1>2. peers'[n] # NoNode => peers'[n] \in Peer
    BY DEF OnePeer
  <1>3. peers'[n] # NoNode => Saved(peers'[n]) \in FileRecord
    BY <1>2, PeerFields DEF Saved, FileRecord
  <1>4. peerFile' \in [Nodes -> FileRecord \cup {NoNode}]
    BY <1>1, <1>3 DEF OnePeer, PeerTypes
  <1>5. PeerTypes'
    BY <1>1, <1>4 DEF PeerTypes, OnePeer, Grows
  <1>6. Shelved'
    BY <1>1 DEF Shelved, OnePeer
  <1>7. \A k \in Nodes : Done(k) \subseteq Done(k)' /\ unwanted[k] \subseteq unwanted'[k]
    BY DEF OnePeer, Grows, Done
  <1>8. \A k \in Nodes : (k \in Known' <=> peers'[k] # NoNode) /\ (k \in Known <=> peers[k] # NoNode)
    BY DEF Known
  <1>9. \A k \in Nodes : k \in Known' /\ k # n => k \in Known /\ peers'[k] = peers[k]
    BY <1>8 DEF OnePeer
  <1>10. n \in Known' => Told(peers[n], n)'
    BY <1>8 DEF OnePeer
  <1>11. Marked'
    <2>1. \A c \in credits' : c[2] \in confirmed'[c[1]]
      BY <1>1 DEF Marked, PeerTypes, Grows, OnePeer
    <2>2. \A k \in Nodes : /\ k \in Known' => peers'[k].handled \subseteq Done(k)'
                           /\ k \in Known' => peers'[k].terms.refuse \subseteq unwanted'[k]
      <3>1. ASSUME NEW k \in Nodes, k \in Known'
            PROVE  peers'[k].handled \subseteq Done(k)' /\ peers'[k].terms.refuse \subseteq unwanted'[k]
        <4>1. CASE k = n
          BY <3>1, <4>1, <1>10 DEF Told
        <4>2. CASE k # n
          BY <3>1, <4>2, <1>1, <1>7, <1>9 DEF Marked
        <4> QED
          BY <4>1, <4>2
      <3> QED
        BY <3>1
    <2>3. \A k \in Nodes : peerFile'[k] # NoNode => /\ peerFile'[k].handled \subseteq Done(k)'
                                                    /\ peerFile'[k].terms.refuse \subseteq unwanted'[k]
      <3>1. ASSUME NEW k \in Nodes, peerFile'[k] # NoNode
            PROVE  /\ peerFile'[k].handled \subseteq Done(k)'
                   /\ peerFile'[k].terms.refuse \subseteq unwanted'[k]
        <4>1. CASE peerFile'[k] = peerFile[k]
          BY <3>1, <4>1, <1>1, <1>7 DEF Marked
        <4>2. CASE peerFile'[k] # peerFile[k]
          <5>1. k = n /\ peers'[n] # NoNode /\ peerFile'[n] = Saved(peers'[n])
            BY <3>1, <4>2, <1>1 DEF OnePeer, PeerTypes
          <5>2. Told(peers[n], n)'
            BY <5>1 DEF OnePeer
          <5>3. peerFile'[n].handled = peers'[n].handled /\ peerFile'[n].terms = peers'[n].terms
            BY <5>1 DEF Saved
          <5> QED
            BY <5>1, <5>2, <5>3 DEF Told
        <4> QED
          BY <4>1, <4>2
      <3> QED
        BY <3>1
    <2> QED
      BY <2>1, <2>2, <2>3 DEF Marked
  <1>12. Processed'
    <2>1. ASSUME NEW k \in Known'
          PROVE  (/\ peers[k].processed <= generation
                  /\ peers[k].terms.room > 0 => Before(peers[k].processed) \subseteq Done(k))'
      <3>1. k \in Nodes
        BY DEF Known
      <3>2. CASE k = n
        BY <2>1, <3>2, <1>10 DEF Told
      <3>3. CASE k # n
        <4>1. k \in Known /\ peers'[k] = peers[k] /\ generation' = generation
          BY <2>1, <3>1, <3>3, <1>9 DEF OnePeer
        <4>2. Before(peers[k].processed)' = Before(peers[k].processed)
          BY <4>1 DEF Before, OnePeer
        <4> QED
          BY <4>1, <4>2, <3>1, <1>1, <1>7 DEF Processed
      <3> QED
        BY <3>2, <3>3
    <2> QED
      BY <2>1 DEF Processed
  <1> QED
    BY <1>5, <1>6, <1>11, <1>12

(* A peer that is known is one all this holds of.                           *)
LEMMA ToldNow ==
    ASSUME PeerInv, NEW n \in Known
    PROVE  Told(peers[n], n) /\ n \in Nodes /\ peers[n] \in Peer
  <1>1. PeerTypes /\ Marked /\ Processed
    BY Begun
  <1>2. n \in Nodes /\ peers[n] \in Peer
    BY <1>1, KnownPeers
  <1> QED
    BY <1>1, <1>2 DEF Told, Marked, Processed

LEMMA TaskSame ==
    ASSUME PeerInv, UNCHANGED <<shelf, generation, shelvedAt, task>>, Grows
    PROVE  Noted' /\ JobRight' /\ ResultRight' /\ task' \in Task /\ (Alive' <=> Alive)
  <1>1. PeerTypes /\ Noted /\ JobRight /\ ResultRight /\ task \in Task
    BY Begun
  <1>2. \A k \in Nodes : Done(k) \subseteq Done(k)' /\ unwanted[k] \subseteq unwanted'[k]
    BY DEF Grows, Done
  <1>3. task.state # "Idle" => task.with \in Nodes
    BY Begun
  <1>4. task.job # NoNode \/ Alive => task.state # "Idle"
    BY <1>1, Begun DEF ResultRight, Fresh
  <1>5. Noted'
    BY <1>1, <1>2, <1>3 DEF Noted
  <1>6. JobRight'
    BY <1>1, <1>2, <1>3, <1>4 DEF JobRight
  <1>7. Before(task.upTo)' = Before(task.upTo) /\ OnItsWay' = OnItsWay /\ Fresh' = Fresh /\ (Alive' <=> Alive)
    BY DEF Before, OnItsWay, Fresh, Alive
  <1>8. ResultRight'
    BY <1>1, <1>2, <1>3, <1>4, <1>7 DEF ResultRight
  <1> QED
    BY <1>1, <1>5, <1>6, <1>7, <1>8

LEMMA TaskIdle ==
    ASSUME NEW k \in Nodes \cup {NoNode}, task' = IdleTask(k), generation' \in Nat
    PROVE  Noted' /\ JobRight' /\ ResultRight' /\ task' \in Task /\ ~Alive' /\ task'.state = "Idle"
  <1>1. task' \in Task
    BY DEF IdleTask, Task
  <1>2. /\ task'.state = "Idle" /\ ~task'.bind /\ task'.sending = {} /\ ~task'.exhausted /\ task'.job = NoNode
        /\ task'.batch = NoNode /\ task'.upTo = 0
    BY DEF IdleTask
  <1>3. ~Alive' /\ Fresh'
    BY <1>2 DEF Alive, Fresh, Trying
  <1> QED
    BY <1>1, <1>2, <1>3 DEF Noted, JobRight, ResultRight

LEMMA QueueKeeps ==
    ASSUME PeerInv, pendingSyncs' \subseteq Nodes,
           UNCHANGED <<storeVars, peerState, task, drained, credits, restarts, historyVars>>
    PROVE  PeerInv'
  <1>1. PeerTypes /\ Shelved /\ Owned /\ Marked /\ Processed
    BY Begun
  <1>2. UNCHANGED <<shelf, generation, shelvedAt, peers, peerFile, task, drained, credits, restarts,
                    confirmed, unwanted>> /\ Grows
    BY <1>1, HistorySame DEF storeVars, peerState, historyVars
  <1>3. PeerTypes' /\ Shelved' /\ Owned' /\ Marked' /\ Processed'
    BY <1>1, <1>2 DEF PeerTypes, Shelved, Owned, Marked, Processed, Alive, Known, Done, Before
  <1> QED
    BY <1>2, <1>3, TaskSame DEF PeerInv

LEMMA CreditKeeps ==
    ASSUME PeerInv, NEW n \in Nodes, NEW m \in Mail, Credit(n, m)
    PROVE  PeerInv'
  <1>1. PeerTypes /\ Owned /\ Marked
    BY Begun
  <1>2. /\ UNCHANGED <<shelf, generation, shelvedAt, pendingSyncs, task, drained, restarts, confirmed, unwanted>>
        /\ Grows /\ credits' \subseteq credits /\ <<n, m>> \in credits
    BY <1>1, HistorySame DEF Credit, storeVars, historyVars
  <1>3. m \in Done(n)
    BY <1>1, <1>2 DEF Marked, Done
  <1>4. CASE n \notin Known
    <2>1. UNCHANGED <<peers, peerFile>> /\ peers[n] = NoNode
      BY <1>4 DEF Credit, peerState, Known
    <2>2. OnePeer(n)
      BY <1>1, <1>2, <2>1 DEF OnePeer, PeerTypes
    <2>3. Owned'
      BY <1>1, <1>2, <2>1 DEF Owned, Alive, Known
    <2> QED
      BY <1>2, <2>2, <2>3, PeerChanged, TaskSame DEF PeerInv
  <1>5. CASE n \in Known
    <2>1. Told(peers[n], n) /\ peers[n] \in Peer
      BY <1>5, ToldNow
    <2>2. PICK p : p = [peers[n] EXCEPT !.handled = @ \cup {m}]
      OBVIOUS
    <2>3. p \in Peer /\ p.handled = peers[n].handled \cup {m} /\ p.terms = peers[n].terms
          /\ p.processed = peers[n].processed /\ p.busy = peers[n].busy
      BY <2>1, <2>2 DEF Peer
    <2>4. peers' = [peers EXCEPT ![n] = p] /\ SaveOf(n, peers')
      BY <1>5, <2>2 DEF Credit
    <2>5. peers' \in [Nodes -> Peer \cup {NoNode}] /\ peers'[n] = p /\ \A k \in Nodes \ {n} : peers'[k] = peers[k]
      BY <1>1, <2>3, <2>4 DEF PeerTypes
    <2>6. NoNode \notin Peer
      BY <1>1, KnownPeers
    <2>7. Told(peers[n], n)'
      <3>1. Done(n)' = Done(n) /\ unwanted' = unwanted /\ Before(p.processed)' = Before(p.processed)
            /\ generation' = generation
        BY <1>2 DEF Done, Before
      <3>2. p.handled \subseteq Done(n) /\ p.terms.refuse \subseteq unwanted[n] /\ p.processed <= generation
            /\ (p.terms.room > 0 => Before(p.processed) \subseteq Done(n))
        BY <1>3, <2>1, <2>3 DEF Told
      <3>3. Before(peers[n].processed)' = Before(p.processed)
        BY <1>2, <2>5 DEF Before
      <3> QED
        BY <2>5, <3>1, <3>2, <3>3 DEF Told
    <2>8. OnePeer(n)
      BY <1>1, <1>2, <2>3, <2>4, <2>5, <2>6, <2>7 DEF OnePeer, PeerTypes, SaveOf
    <2>9. Known' = Known
      BY <1>1, <1>5, <2>3, <2>5, <2>6 DEF Known, PeerTypes
    <2>10. Owned'
      BY <1>1, <1>2, <2>3, <2>5, <2>9 DEF Owned, Alive, Known
    <2> QED
      BY <1>2, <2>8, <2>10, PeerChanged, TaskSame DEF PeerInv
  <1> QED
    BY <1>4, <1>5

LEMMA PeeredKeeps ==
    ASSUME PeerInv, NEW n \in Nodes, NEW terms \in Terms, Peered(n, terms)
    PROVE  PeerInv'
  <1>1. PeerTypes /\ Owned /\ Shelved
    BY Begun
  <1>2. /\ UNCHANGED <<shelf, generation, shelvedAt, pendingSyncs, task, drained, credits, restarts, confirmed>>
        /\ n \notin Known /\ peers' = [peers EXCEPT ![n] = NewPeer(terms)] /\ SaveOf(n, peers')
        /\ unwanted' = [unwanted EXCEPT ![n] = @ \cup terms.refuse]
    BY DEF Peered, storeVars
  <1>3. Grows /\ terms.refuse \subseteq unwanted'[n]
    BY <1>1, <1>2, TermsFields DEF PeerTypes, Grows
  <1>4. NewPeer(terms) \in Peer /\ NoNode \notin Peer
    BY <1>1, KnownPeers DEF NewPeer, Peer
  <1>5. peers' \in [Nodes -> Peer \cup {NoNode}] /\ peers'[n] = NewPeer(terms)
        /\ \A k \in Nodes \ {n} : peers'[k] = peers[k]
    BY <1>1, <1>2, <1>4 DEF PeerTypes
  <1>6. Told(peers[n], n)'
    <2>1. peers'[n].handled = {} /\ peers'[n].terms = terms /\ peers'[n].processed = 0
      BY <1>5 DEF NewPeer
    <2>2. Before(peers[n].processed)' = {}
      BY <1>1, <1>2, <2>1 DEF Before, Shelved, PeerTypes
    <2> QED
      BY <1>1, <1>2, <1>3, <2>1, <2>2 DEF Told, PeerTypes
  <1>7. OnePeer(n)
    BY <1>1, <1>2, <1>3, <1>4, <1>5, <1>6 DEF OnePeer, PeerTypes, SaveOf
  <1>8. \A k \in Known' : k = n \/ k \in Known
    BY <1>5 DEF Known
  <1>9. Known \subseteq Known'
    BY <1>2, <1>5 DEF Known
  <1>10. peers'[n].busy = FALSE
    BY <1>5 DEF NewPeer
  <1>11. Alive => task.with \in Nodes \ {n} /\ task.with \in Known
    BY <1>2, Begun
  <1>12. Owned'
    <2>1. Alive' => Alive
      BY <1>2 DEF Alive
    <2>2. Alive => /\ task.with \in Known' /\ peers'[task.with].busy /\ task.terms = peers'[task.with].terms
      BY <1>1, <1>5, <1>9, <1>11 DEF Owned
    <2>3. ASSUME NEW k \in Known', peers'[k].busy PROVE task.state # "Idle" /\ task.with = k
      <3>1. k \in Known /\ k \in Nodes \ {n}
        BY <2>3, <1>8, <1>10 DEF Known
      <3> QED
        BY <1>1, <1>5, <2>3, <3>1 DEF Owned
    <2> QED
      BY <1>1, <1>2, <2>1, <2>2, <2>3 DEF Owned
  <1> QED
    BY <1>2, <1>3, <1>7, <1>12, PeerChanged, TaskSame DEF PeerInv

(* A cancelled attempt leaves no peer busy but the one it was for.          *)
LEMMA CancelledOwned ==
    ASSUME PeerInv, NEW n \in Nodes, Cancels(n), task' = IdleTask(NoNode), generation' \in Nat,
           peers'[n] # NoNode => ~peers'[n].busy, \A k \in Nodes \ {n} : peers'[k] = peers[k]
    PROVE  Owned' /\ Noted' /\ JobRight' /\ ResultRight' /\ task' \in Task
  <1>1. Owned
    BY Begun
  <1>2. Noted' /\ JobRight' /\ ResultRight' /\ task' \in Task /\ ~Alive' /\ task'.state = "Idle"
    BY TaskIdle
  <1>3. ASSUME NEW k \in Known', peers'[k].busy PROVE FALSE
    <2>1. k \in Nodes \ {n} /\ peers'[k] = peers[k] /\ k \in Known
      BY <1>3 DEF Known
    <2>2. task.with = k
      BY <1>1, <1>3, <2>1 DEF Owned
    <2> QED
      BY <2>1, <2>2 DEF Cancels
  <1>4. Owned'
    BY <1>2, <1>3 DEF Owned, Trying, Finished
  <1> QED
    BY <1>2, <1>4

LEMMA RefreshedKeeps ==
    ASSUME PeerInv, NEW n \in Nodes, NEW terms \in Terms, Refreshed(n, terms)
    PROVE  PeerInv'
  <1>1. PeerTypes /\ Owned /\ Shelved /\ n \in Known
    BY Begun DEF Refreshed
  <1>2. Told(peers[n], n) /\ peers[n] \in Peer /\ NoNode \notin Peer
    BY <1>1, ToldNow, KnownPeers
  <1>3. PICK p : p = [peers[n] EXCEPT !.terms = terms, !.processed = 0, !.busy = @ /\ ~Cancels(n)]
    OBVIOUS
  <1>4. p \in Peer /\ p.handled = peers[n].handled /\ p.terms = terms /\ p.processed = 0
        /\ p.busy = (peers[n].busy /\ ~Cancels(n))
    BY <1>2, <1>3 DEF Peer
  <1>5. /\ UNCHANGED <<shelf, generation, shelvedAt, drained, credits, restarts, confirmed>>
        /\ peers' = [peers EXCEPT ![n] = p] /\ SaveOf(n, peers') /\ task' = Cancelled(n)
        /\ unwanted' = [unwanted EXCEPT ![n] = @ \cup terms.refuse]
        /\ pendingSyncs' \subseteq Nodes
    <2>1. peers' = [peers EXCEPT ![n] = p]
      BY <1>3 DEF Refreshed
    <2>2. pendingSyncs' \subseteq Nodes
      BY <1>1 DEF Refreshed, PeerTypes
    <2>3. UNCHANGED <<shelf, generation, shelvedAt, drained, credits, restarts, confirmed>>
      BY DEF Refreshed, storeVars
    <2>4. SaveOf(n, peers') /\ task' = Cancelled(n) /\ unwanted' = [unwanted EXCEPT ![n] = @ \cup terms.refuse]
      BY DEF Refreshed
    <2> QED
      BY <2>1, <2>2, <2>3, <2>4
  <1>6. Grows /\ terms.refuse \subseteq unwanted'[n] /\ Done(n) \subseteq Done(n)'
    BY <1>1, <1>5, TermsFields DEF PeerTypes, Grows, Done
  <1>7. peers' \in [Nodes -> Peer \cup {NoNode}] /\ peers'[n] = p /\ \A k \in Nodes \ {n} : peers'[k] = peers[k]
    BY <1>1, <1>4, <1>5 DEF PeerTypes
  <1>8. Told(peers[n], n)'
    <2>1. Before(peers[n].processed)' = {}
      BY <1>1, <1>4, <1>5, <1>7 DEF Before, Shelved, PeerTypes
    <2> QED
      BY <1>1, <1>2, <1>4, <1>5, <1>6, <1>7, <2>1 DEF Told, PeerTypes
  <1>9. OnePeer(n)
    BY <1>1, <1>2, <1>4, <1>5, <1>6, <1>7, <1>8 DEF OnePeer, PeerTypes, SaveOf
  <1>10. CASE Cancels(n)
    <2>1. task' = IdleTask(NoNode) /\ generation' \in Nat
      BY <1>1, <1>5, <1>10 DEF Cancelled, PeerTypes
    <2> QED
      BY <1>4, <1>7, <1>9, <1>10, <2>1, CancelledOwned, PeerChanged DEF PeerInv
  <1>11. CASE ~Cancels(n)
    <2>1. task' = task /\ task.with # n
      BY <1>5, <1>11 DEF Cancelled, Cancels
    <2>2. Known' = Known
      BY <1>1, <1>2, <1>4, <1>7 DEF Known
    <2>3. Owned'
      <3>1. Alive => task.with \in Known' /\ task.with \in Nodes \ {n}
        BY <2>1, <2>2, Begun
      <3>2. ASSUME NEW k \in Known', peers'[k].busy PROVE task.state # "Idle" /\ task.with = k
        <4>1. k \in Known /\ k \in Nodes /\ peers[k].busy
          BY <3>2, <1>4, <1>7, <1>11, <2>2 DEF Known
        <4> QED
          BY <1>1, <4>1 DEF Owned
      <3> QED
        BY <1>1, <1>7, <2>1, <3>1, <3>2 DEF Owned, Alive
    <2> QED
      BY <1>5, <1>6, <1>9, <2>1, <2>3, TaskSame, PeerChanged DEF PeerInv
  <1> QED
    BY <1>10, <1>11

LEMMA DroppedKeeps ==
    ASSUME PeerInv, NEW n \in Nodes, Dropped(n)
    PROVE  PeerInv'
  <1>1. PeerTypes /\ Owned
    BY Begun
  <1>2. /\ UNCHANGED <<shelf, generation, shelvedAt, drained, credits, restarts, confirmed, unwanted>>
        /\ peers' = [peers EXCEPT ![n] = NoNode] /\ task' = Cancelled(n) /\ pendingSyncs' \subseteq Nodes
        /\ (peerFile' = [peerFile EXCEPT ![n] = NoNode] \/ peerFile' = peerFile) /\ Grows
    BY <1>1, HistorySame DEF Dropped, storeVars, historyVars, PeerTypes
  <1>3. peers' \in [Nodes -> Peer \cup {NoNode}] /\ peers'[n] = NoNode /\ \A k \in Nodes \ {n} : peers'[k] = peers[k]
    BY <1>1, <1>2 DEF PeerTypes
  <1>4. OnePeer(n)
    BY <1>1, <1>2, <1>3 DEF OnePeer, PeerTypes
  <1>5. CASE Cancels(n)
    <2>1. task' = IdleTask(NoNode) /\ generation' \in Nat
      BY <1>1, <1>2, <1>5 DEF Cancelled, PeerTypes
    <2> QED
      BY <1>3, <1>4, <1>5, <2>1, CancelledOwned, PeerChanged DEF PeerInv
  <1>6. CASE ~Cancels(n)
    <2>1. task' = task /\ task.with # n
      BY <1>2, <1>6 DEF Cancelled, Cancels
    <2>2. \A k \in Nodes \ {n} : k \in Known' <=> k \in Known
      BY <1>3 DEF Known
    <2>3. n \notin Known'
      BY <1>3 DEF Known
    <2>4. Owned'
      <3>1. Alive => task.with \in Known' /\ task.with \in Nodes \ {n}
        BY <2>1, <2>2, Begun
      <3>2. ASSUME NEW k \in Known', peers'[k].busy PROVE task.state # "Idle" /\ task.with = k
        <4>1. k \in Known /\ k \in Nodes /\ peers[k].busy
          BY <3>2, <1>3, <2>2, <2>3 DEF Known
        <4> QED
          BY <1>1, <4>1 DEF Owned
      <3> QED
        BY <1>1, <1>3, <2>1, <3>1, <3>2 DEF Owned, Alive
    <2> QED
      BY <1>2, <1>4, <2>1, <2>4, TaskSame, PeerChanged DEF PeerInv
  <1> QED
    BY <1>5, <1>6

LEMMA RotatedOutKeeps ==
    ASSUME PeerInv, NEW n \in Nodes, RotatedOut(n)
    PROVE  PeerInv'
  <1>1. PeerTypes /\ Owned /\ n \in Known /\ ~peers[n].busy
    BY Begun DEF RotatedOut, Rotatable
  <1>2. /\ UNCHANGED <<shelf, generation, shelvedAt, pendingSyncs, peerFile, task, drained, credits, restarts,
                      confirmed, unwanted>>
        /\ peers' = [peers EXCEPT ![n] = NoNode] /\ Grows
    BY <1>1, HistorySame DEF RotatedOut, storeVars, historyVars
  <1>3. peers' \in [Nodes -> Peer \cup {NoNode}] /\ peers'[n] = NoNode /\ \A k \in Nodes \ {n} : peers'[k] = peers[k]
    BY <1>1, <1>2 DEF PeerTypes
  <1>4. OnePeer(n)
    BY <1>1, <1>2, <1>3 DEF OnePeer, PeerTypes
  <1>5. Alive => task.with \in Nodes \ {n} /\ task.with \in Known
    BY <1>1, Begun DEF Owned
  <1>6. \A k \in Nodes \ {n} : k \in Known' <=> k \in Known
    BY <1>3 DEF Known
  <1>7. n \notin Known' /\ Known' \subseteq Nodes
    BY <1>3 DEF Known
  <1>8. Owned'
    <2>1. ASSUME NEW k \in Known', peers'[k].busy PROVE task.state # "Idle" /\ task.with = k
      <3>1. k \in Known /\ k \in Nodes /\ peers[k].busy
        BY <2>1, <1>3, <1>6, <1>7
      <3> QED
        BY <1>1, <3>1 DEF Owned
    <2> QED
      BY <1>1, <1>2, <1>3, <1>5, <1>6, <2>1 DEF Owned, Alive
  <1> QED
    BY <1>2, <1>4, <1>8, PeerChanged, TaskSame DEF PeerInv

LEMMA StartAttemptKeeps ==
    ASSUME PeerInv, NEW n \in Nodes, StartAttempt(n)
    PROVE  PeerInv'
  <1>1. PeerTypes /\ Owned /\ Noted /\ ResultRight /\ task.state = "Idle" /\ ~Alive
    BY Begun DEF StartAttempt
  <1>2. /\ UNCHANGED <<shelf, generation, shelvedAt, peerFile, drained, credits, restarts, confirmed, unwanted>>
        /\ pendingSyncs' \subseteq Nodes /\ Grows
    BY <1>1, HistorySame DEF StartAttempt, storeVars, historyVars, PeerTypes
  <1>3. \A k \in Known : peers[k].busy = FALSE /\ k \in Nodes
    BY <1>1, KnownPeers, PeerFields DEF Owned
  <1>4. \A k \in Nodes : Done(k)' = Done(k)
    BY <1>2 DEF Done
  <1>5. CASE n \notin Known
    BY <1>1, <1>2, <1>5, QueueKeeps DEF StartAttempt, storeVars, peerState, historyVars
  <1>6. CASE n \in Known /\ UNCHANGED <<peers, pendingSyncs>> /\ task' = [IdleTask(n) EXCEPT !.state = "Failed"]
    <2>1. peers'[n] # NoNode => Told(peers[n], n)'
      <3>1. Told(peers[n], n) /\ Before(peers[n].processed)' = Before(peers[n].processed)
        BY <1>2, <1>6, ToldNow DEF Before
      <3> QED
        BY <1>2, <1>4, <1>6, <3>1 DEF Told
    <2>2. OnePeer(n)
      BY <1>1, <1>2, <1>6, <2>1 DEF OnePeer, PeerTypes
    <2>3. task' \in Task
      BY <1>6 DEF IdleTask, Task, Finished
    <2>4. /\ task'.state = "Failed" /\ ~task'.bind /\ task'.sending = {} /\ ~task'.exhausted /\ task'.job = NoNode
          /\ task'.batch = NoNode /\ task'.upTo = 0 /\ task'.with = n /\ task'.terms = NoNode /\ task'.seen = {}
          /\ task'.updates = {}
      BY <1>6 DEF IdleTask
    <2>5. ~Alive'
      BY <2>4 DEF Alive, Trying
    <2>6. Owned'
      BY <1>3, <1>6, <2>4, <2>5 DEF Owned, Known
    <2>7. Noted' /\ JobRight' /\ ResultRight'
      BY <1>1, <1>2, <2>4, <2>5 DEF Noted, JobRight, ResultRight, PeerTypes
    <2> QED
      BY <2>2, <2>3, <2>6, <2>7, PeerChanged DEF PeerInv
  <1>7. CASE n \in Known /\ task' = Started(n) /\ peers' = [peers EXCEPT ![n].busy = TRUE]
    <2>1. Told(peers[n], n) /\ peers[n] \in Peer /\ NoNode \notin Peer
      BY <1>1, <1>7, ToldNow, KnownPeers
    <2>2. PICK p : p = [peers[n] EXCEPT !.busy = TRUE]
      OBVIOUS
    <2>3. p \in Peer /\ p.handled = peers[n].handled /\ p.terms = peers[n].terms
          /\ p.processed = peers[n].processed /\ p.busy = TRUE
      BY <2>1, <2>2 DEF Peer
    <2>4. peers' = [peers EXCEPT ![n] = p]
      BY <1>7, <2>2
    <2>5. peers' \in [Nodes -> Peer \cup {NoNode}] /\ peers'[n] = p /\ \A k \in Nodes \ {n} : peers'[k] = peers[k]
      BY <1>1, <2>3, <2>4 DEF PeerTypes
    <2>6. Told(peers[n], n)'
      <3>1. Before(peers[n].processed)' = Before(peers[n].processed)
        BY <1>2, <2>3, <2>5 DEF Before
      <3> QED
        BY <1>2, <1>4, <2>1, <2>3, <2>5, <3>1 DEF Told
    <2>7. OnePeer(n)
      BY <1>1, <1>2, <2>5, <2>6 DEF OnePeer, PeerTypes
    <2>8. peers[n].terms \in Terms /\ peers[n].handled \subseteq Mail
      BY <2>1, PeerFields
    <2>9. task' \in Task
      BY <1>7, <2>8 DEF Started, IdleTask, Task, Trying
    <2>10. /\ task'.state = "Establishing" /\ ~task'.bind /\ task'.sending = {} /\ ~task'.exhausted
           /\ task'.job = NoNode /\ task'.batch = NoNode /\ task'.upTo = 0 /\ task'.with = n
           /\ task'.terms = peers[n].terms /\ task'.seen = peers[n].handled /\ task'.updates = {}
      BY <1>7 DEF Started, IdleTask
    <2>11. Known' = Known
      BY <1>7, <2>1, <2>3, <2>5 DEF Known
    <2>12. Owned'
      BY <1>3, <1>7, <2>3, <2>5, <2>10, <2>11 DEF Owned
    <2>13. Noted'
      BY <1>2, <1>4, <2>1, <2>10 DEF Noted, Told
    <2>14. JobRight' /\ ResultRight'
      BY <1>1, <1>2, <2>10 DEF JobRight, ResultRight, PeerTypes, Fresh
    <2> QED
      BY <2>7, <2>9, <2>12, <2>13, <2>14, PeerChanged DEF PeerInv
  <1> QED
    BY <1>5, <1>6, <1>7 DEF StartAttempt

-----------------------------------------------------------------------------
(* The tick of the task.                                                    *)
LEMMA CollectedFields ==
    ASSUME NEW p \in Peer, NEW updates \in SUBSET Mail, NEW r \in Task \cup {NoNode}, NoNode \notin Task
    PROVE  /\ Collected(p, updates, r) \in Peer
           /\ Collected(p, updates, r).handled = p.handled \cup updates
           /\ Collected(p, updates, r).terms = p.terms
           /\ Collected(p, updates, r).busy = (p.busy /\ r = NoNode)
           /\ \/ Collected(p, updates, r).processed = p.processed
              \/ /\ r \in Task /\ r.state = "Complete" /\ r.exhausted
                 /\ Collected(p, updates, r).processed = r.upTo
  <1>1. PICK k : k = IF r # NoNode /\ r.state = "Complete" /\ r.exhausted /\ r.upTo > p.processed
                     THEN r.upTo ELSE p.processed
    OBVIOUS
  <1>2. k \in Nat /\ (k = p.processed \/ (r \in Task /\ r.state = "Complete" /\ r.exhausted /\ k = r.upTo))
    BY <1>1 DEF Task, Peer
  <1>3. Collected(p, updates, r) =
          [p EXCEPT !.handled = @ \cup updates, !.busy = @ /\ r = NoNode, !.processed = k]
    BY <1>1 DEF Collected, Peer
  <1> QED
    BY ZenonT(60), <1>2, <1>3 DEF Peer

(* What a tick does to the peer of the attempt.                             *)
Collects(n, updates, result) ==
    /\ UNCHANGED <<shelf, generation, shelvedAt, pendingSyncs, credits, restarts, confirmed, unwanted>>
    /\ drained' = FALSE
    /\ IF n \in Known /\ (updates # {} \/ result # NoNode)
       THEN /\ peers' = [peers EXCEPT ![n] = Collected(peers[n], updates, result)]
            /\ SaveOf(n, peers')
       ELSE UNCHANGED <<peers, peerFile>>

LEMMA CollectKeeps ==
    ASSUME PeerInv, NEW n \in Nodes, NEW updates \in SUBSET Mail, NEW r \in Task \cup {NoNode},
           Collects(n, updates, r), updates \subseteq Done(n),
           r # NoNode /\ r.state = "Complete" /\ r.exhausted /\ n \in Known /\ peers[n].terms.room > 0
             => Before(r.upTo) \subseteq Done(n),
           r # NoNode => r.upTo <= generation
    PROVE  /\ OnePeer(n) /\ Known' = Known
           /\ \A k \in Known : peers'[k].terms = peers[k].terms
           /\ \A k \in Known : k # n => peers'[k].busy = peers[k].busy
           /\ n \in Known => peers'[n].busy = (peers[n].busy /\ r = NoNode)
  <1>1. PeerTypes /\ NoNode \notin Task /\ NoNode \notin Peer
    BY Begun, KnownPeers
  <1>2. UNCHANGED <<shelf, generation, shelvedAt, pendingSyncs, credits, restarts, confirmed, unwanted>> /\ Grows
        /\ drained' \in BOOLEAN
    BY <1>1, HistorySame DEF Collects, historyVars
  <1>3. Done(n)' = Done(n)
    BY <1>2 DEF Done
  <1>4. CASE n \in Known /\ (updates # {} \/ r # NoNode)
    <2>1. Told(peers[n], n) /\ peers[n] \in Peer
      BY <1>4, ToldNow
    <2>2. PICK p : p = Collected(peers[n], updates, r)
      OBVIOUS
    <2>3. /\ p \in Peer /\ p.handled = peers[n].handled \cup updates /\ p.terms = peers[n].terms
          /\ p.busy = (peers[n].busy /\ r = NoNode)
          /\ p.processed = peers[n].processed
             \/ (r \in Task /\ r.state = "Complete" /\ r.exhausted /\ p.processed = r.upTo)
      BY <1>1, <2>1, <2>2, CollectedFields
    <2>4. peers' = [peers EXCEPT ![n] = p] /\ SaveOf(n, peers')
      BY <1>4, <2>2 DEF Collects
    <2>5. peers' \in [Nodes -> Peer \cup {NoNode}] /\ peers'[n] = p /\ \A k \in Nodes \ {n} : peers'[k] = peers[k]
      BY <1>1, <2>3, <2>4 DEF PeerTypes
    <2>6. p.processed <= generation
      BY <1>1, <2>1, <2>3 DEF Told
    <2>7. p.terms.room > 0 => Before(p.processed) \subseteq Done(n)
      BY <1>1, <1>4, <2>1, <2>3 DEF Told
    <2>8. Before(peers[n].processed)' = Before(p.processed)
      BY <1>2, <2>5 DEF Before
    <2>9. Told(peers[n], n)'
      BY <1>2, <1>3, <2>1, <2>3, <2>5, <2>6, <2>7, <2>8 DEF Told
    <2>10. OnePeer(n)
      BY <1>1, <1>2, <2>3, <2>4, <2>5, <2>9 DEF OnePeer, PeerTypes, SaveOf
    <2>11. Known' = Known
      BY <1>1, <1>4, <2>3, <2>5 DEF Known
    <2>12. Known \subseteq Nodes
      BY DEF Known
    <2> QED
      BY <2>3, <2>5, <2>10, <2>11, <2>12
  <1>5. CASE ~(n \in Known /\ (updates # {} \/ r # NoNode))
    <2>1. UNCHANGED <<peers, peerFile>> /\ (n \in Known => r = NoNode)
      BY <1>5 DEF Collects
    <2>2. peers'[n] # NoNode => Told(peers[n], n)'
      <3>1. ASSUME peers'[n] # NoNode PROVE Told(peers[n], n)'
        <4>1. n \in Known /\ Before(peers[n].processed)' = Before(peers[n].processed)
          BY <1>2, <2>1, <3>1 DEF Known, Before
        <4> QED
          BY <1>2, <1>3, <2>1, <4>1, ToldNow DEF Told
      <3> QED
        BY <3>1
    <2>3. OnePeer(n)
      BY <1>1, <1>2, <2>1, <2>2 DEF OnePeer, PeerTypes
    <2>4. Known' = Known /\ Known \subseteq Nodes
      BY <2>1 DEF Known
    <2>5. \A k \in Known : peers[k].busy \in BOOLEAN
      BY <1>1, KnownPeers, PeerFields
    <2> QED
      BY <2>1, <2>3, <2>4, <2>5
  <1> QED
    BY <1>4, <1>5

(* What a tick makes of an attempt under way.                               *)
Continues(next) ==
    /\ next \in Task /\ next.with = task.with /\ next.terms = task.terms /\ next.seen = task.seen
    /\ next.bind = task.bind /\ next.state # "Idle"
    /\ next.updates \subseteq Done(task.with)

LEMMA OfferStepKeeps ==
    ASSUME PeerInv, task.state = "Offering", NEW next, next = OfferStep(task),
           task' = [next EXCEPT !.updates = {}],
           UNCHANGED <<shelf, generation, shelvedAt, confirmed, unwanted>>
    PROVE  Continues(next) /\ JobRight' /\ ResultRight'
  <1>1. /\ PeerTypes /\ Owned /\ Noted /\ JobRight /\ ResultRight /\ task \in Task
        /\ task.with \in Known /\ task.with \in Nodes /\ Alive
    BY Begun DEF Alive, Trying
  <1>2. task.terms # NoNode
    BY <1>1, KnownPeers, PeerFields, TermsFields DEF Owned
  <1>3. task.sending = {} /\ ~task.bind /\ ~task.exhausted /\ task.updates \subseteq Done(task.with)
    BY <1>1 DEF ResultRight, Noted
  <1>4. \A k \in Nodes : Done(k)' = Done(k)
    BY DEF Done
  <1>5. CASE task.job = NoNode
    <2>1. PICK job : job = [gen |-> generation, ids |-> shelf, out |-> NoNode]
      OBVIOUS
    <2>2. job \in OfferJob /\ job.out = NoNode /\ job.gen = generation /\ job.ids = shelf
      BY <1>1, <2>1 DEF OfferJob, PeerTypes
    <2>3. next = [task EXCEPT !.job = job]
      BY <1>5, <2>1 DEF OfferStep
    <2>4. /\ next \in Task /\ next.with = task.with /\ next.terms = task.terms /\ next.seen = task.seen
          /\ next.bind = task.bind /\ next.state = "Offering" /\ next.updates = task.updates
          /\ next.job = job /\ next.sending = {} /\ ~next.exhausted /\ next.upTo = task.upTo
      BY <1>1, <1>3, <2>2, <2>3 DEF Task
    <2>5. Continues(next)
      BY <1>3, <2>4 DEF Continues
    <2>6. /\ task'.job = job /\ task'.terms = task.terms /\ task'.with = task.with /\ ~task'.bind
          /\ task'.state = "Offering" /\ task'.sending = {} /\ ~task'.exhausted /\ task'.upTo = task.upTo
      BY <1>3, <2>4 DEF Task
    <2>7. JobRight'
      BY <1>1, <1>2, <2>2, <2>6 DEF JobRight, PeerTypes
    <2>8. ResultRight'
      BY <1>1, <2>6 DEF ResultRight
    <2> QED
      BY <2>5, <2>7, <2>8
  <1>6. CASE task.job # NoNode /\ task.job.out = NoNode
    <2>1. next = task
      BY <1>6 DEF OfferStep
    <2>2. Continues(next)
      BY <1>1, <1>3, <2>1 DEF Continues
    <2>3. /\ task'.job = task.job /\ task'.terms = task.terms /\ task'.with = task.with /\ ~task'.bind
          /\ task'.state = "Offering" /\ task'.sending = {} /\ ~task'.exhausted /\ task'.upTo = task.upTo
      BY <1>1, <1>3, <2>1 DEF Task
    <2>4. JobRight'
      BY <1>1, <1>4, <2>3 DEF JobRight
    <2>5. ResultRight'
      BY <1>1, <2>3 DEF ResultRight
    <2> QED
      BY <2>2, <2>4, <2>5
  <1>7. CASE task.job # NoNode /\ task.job.out # NoNode /\ Stale(task.job)
    <2>1. next = [task EXCEPT !.job = NoNode]
      BY <1>7 DEF OfferStep
    <2>2. /\ next \in Task /\ next.with = task.with /\ next.terms = task.terms /\ next.seen = task.seen
          /\ next.bind = task.bind /\ next.state = "Offering" /\ next.updates = task.updates
          /\ next.job = NoNode /\ next.sending = {} /\ ~next.exhausted /\ next.upTo = task.upTo
      BY <1>1, <1>3, <2>1 DEF Task
    <2>3. Continues(next)
      BY <1>3, <2>2 DEF Continues
    <2>4. /\ task'.job = NoNode /\ ~task'.bind
          /\ task'.state = "Offering" /\ task'.sending = {} /\ ~task'.exhausted /\ task'.upTo = task.upTo
      BY <1>3, <2>2 DEF Task
    <2> QED
      BY <1>1, <2>3, <2>4 DEF JobRight, ResultRight
  <1>8. CASE task.job # NoNode /\ task.job.out # NoNode /\ ~Stale(task.job)
    <2>1. task.job \in OfferJob /\ task.job.out \in OfferOut
      BY <1>1, <1>8 DEF Task, OfferJob
    <2>2. PICK out \in OfferOut : out = task.job.out
      BY <2>1
    <2>3. out.take \subseteq Mail /\ out.refuse \subseteq Mail /\ out.all \in BOOLEAN
      BY DEF OfferOut
    <2>4. task.job.gen = generation /\ task.job.ids = shelf /\ out.refuse \subseteq unwanted[task.with]
      BY <1>1, <1>8, <2>2 DEF JobRight, Stale
    <2>5. out.all /\ task.terms.room > 0 => shelf \subseteq Done(task.with) \cup out.take
      BY <1>1, <1>8, <2>2, <2>4 DEF JobRight
    <2>6. PICK state \in {"Complete", "AwaitingResponse"} :
             state = IF out.take = {} THEN "Complete" ELSE "AwaitingResponse"
      OBVIOUS
    <2>7. next = [task EXCEPT !.job = NoNode, !.upTo = generation, !.exhausted = out.all,
                              !.updates = @ \cup out.refuse, !.offered = out.take, !.state = state]
      BY <1>8, <2>2, <2>4, <2>6 DEF OfferStep
    <2>8. /\ next \in Task /\ next.with = task.with /\ next.terms = task.terms /\ next.seen = task.seen
          /\ next.bind = task.bind /\ next.state = state /\ next.updates = task.updates \cup out.refuse
          /\ next.job = NoNode /\ next.sending = {} /\ next.exhausted = out.all /\ next.upTo = generation
          /\ next.offered = out.take
      <3>1. generation \in Nat /\ task.updates \cup out.refuse \subseteq Mail
        BY <1>1, <2>3 DEF PeerTypes, Task
      <3>2. NoNode \in OfferJob \cup {NoNode} /\ state \in Trying \cup Finished \cup {"Idle"}
        BY DEF Trying, Finished
      <3>3. next \in Task
        BY ZenonT(60), <1>1, <2>3, <2>7, <3>1, <3>2 DEF Task
      <3>4. /\ next.with = task.with /\ next.terms = task.terms /\ next.seen = task.seen
            /\ next.bind = task.bind /\ next.sending = task.sending
        BY <1>1, <2>7 DEF Task
      <3>5. /\ next.state = state /\ next.updates = task.updates \cup out.refuse
            /\ next.job = NoNode /\ next.exhausted = out.all /\ next.upTo = generation
            /\ next.offered = out.take
        BY <1>1, <2>7 DEF Task
      <3> QED
        BY <1>3, <3>3, <3>4, <3>5
    <2>9. Continues(next)
      BY <1>3, <2>4, <2>8 DEF Continues, Done
    <2>10. /\ task'.job = NoNode /\ task'.terms = task.terms /\ task'.with = task.with /\ ~task'.bind
           /\ task'.state = state /\ task'.sending = {} /\ task'.exhausted = out.all
           /\ task'.upTo = generation /\ task'.offered = out.take
      BY <1>3, <2>8 DEF Task
    <2>11. out.take \subseteq OnItsWay'
      BY <2>6, <2>10 DEF OnItsWay
    <2>12. Before(task.upTo)' \subseteq shelf
      BY DEF Before
    <2>13. ResultRight'
      BY <1>1, <1>4, <2>5, <2>10, <2>11, <2>12 DEF ResultRight, PeerTypes
    <2> QED
      BY <2>9, <2>10, <2>13 DEF JobRight
  <1> QED
    BY <1>5, <1>6, <1>7, <1>8

LEMMA TransferStepKeeps ==
    ASSUME PeerInv, task.state = "Transferring", NEW next, next = TransferStep(task),
           task' = [next EXCEPT !.updates = {}],
           UNCHANGED <<shelf, generation, shelvedAt, confirmed, unwanted>>
    PROVE  Continues(next) /\ JobRight' /\ ResultRight'
  <1>1. /\ PeerTypes /\ Noted /\ JobRight /\ ResultRight /\ task \in Task
        /\ task.with \in Known /\ task.with \in Nodes /\ Alive
    BY Begun DEF Alive, Trying
  <1>2. ~task.bind /\ task.updates \subseteq Done(task.with)
    BY <1>1 DEF ResultRight, Noted
  <1>3. \A k \in Nodes : Done(k)' = Done(k)
    BY DEF Done
  <1>4. Before(task.upTo) = {m \in shelf' : shelvedAt'[m] <= task.upTo}
    BY DEF Before
  <1>5. ASSUME task'.job = task.job, task'.terms = task.terms, task'.with = task.with PROVE JobRight'
    BY <1>1, <1>3, <1>5 DEF JobRight
  <1>6. CASE task.sending # {} \/ (task.batch # NoNode /\ task.batch.got = NoNode)
    <2>1. next = task
      BY <1>6 DEF TransferStep
    <2>2. Continues(next)
      BY <1>1, <1>2, <2>1 DEF Continues
    <2>3. /\ task'.job = task.job /\ task'.terms = task.terms /\ task'.with = task.with /\ task'.bind = task.bind
          /\ task'.state = task.state /\ task'.sending = task.sending /\ task'.exhausted = task.exhausted
          /\ task'.upTo = task.upTo /\ task'.offered = task.offered /\ task'.batch = task.batch
      BY <1>1, <2>1 DEF Task
    <2>4. OnItsWay' = OnItsWay /\ Before(task.upTo)' = Before(task.upTo)
      BY <2>3 DEF OnItsWay, Before
    <2>5. ResultRight'
      BY <1>1, <1>2, <1>3, <2>3, <2>4 DEF ResultRight
    <2> QED
      BY <1>5, <2>2, <2>3, <2>5
  <1>7. CASE task.sending = {} /\ task.batch = NoNode
    <2>1. next = [task EXCEPT !.state = "Failed"]
      BY <1>7 DEF TransferStep
    <2>2. /\ next \in Task /\ next.with = task.with /\ next.terms = task.terms /\ next.seen = task.seen
          /\ next.bind = task.bind /\ next.state = "Failed" /\ next.updates = task.updates
          /\ next.job = task.job /\ next.sending = {} /\ next.upTo = task.upTo
      BY <1>1, <1>7, <2>1 DEF Task, Finished
    <2>3. Continues(next)
      BY <1>2, <2>2 DEF Continues
    <2>4. /\ task'.job = task.job /\ task'.terms = task.terms /\ task'.with = task.with /\ ~task'.bind
          /\ task'.state = "Failed" /\ task'.sending = {} /\ task'.upTo = task.upTo
      BY <1>2, <2>2 DEF Task
    <2>5. ResultRight'
      BY <1>1, <2>4 DEF ResultRight, Alive, Trying
    <2> QED
      BY <1>5, <2>3, <2>4, <2>5
  <1>8. CASE task.sending = {} /\ task.batch # NoNode /\ task.batch.got # NoNode
    <2>1. task.batch \in Batch
      BY <1>1, <1>8 DEF Task
    <2>2. PICK got \in SUBSET Mail : got = task.batch.got
      BY <1>8, <2>1 DEF Batch
    <2>3. PICK state \in {"Failed", "Transferring"} : state = IF got = {} THEN "Failed" ELSE "Transferring"
      OBVIOUS
    <2>4. PICK all \in BOOLEAN : all = (task.exhausted /\ got = task.batch.want)
      OBVIOUS
    <2>5. next = [task EXCEPT !.exhausted = all, !.state = state, !.sending = got, !.batch = NoNode]
      <3>1. (task.exhausted /\ ~Unread(task.batch)) = all
        BY <2>2, <2>4 DEF Unread
      <3> QED
        BY <1>8, <2>2, <2>3, <3>1 DEF TransferStep
    <2>6. /\ next \in Task /\ next.with = task.with /\ next.terms = task.terms /\ next.seen = task.seen
          /\ next.bind = task.bind /\ next.state = state /\ next.updates = task.updates
          /\ next.job = task.job /\ next.sending = got /\ next.upTo = task.upTo /\ next.exhausted = all
          /\ next.batch = NoNode
      BY ZenonT(60), <1>1, <2>5 DEF Task, Finished, Trying
    <2>7. Continues(next)
      BY <1>2, <2>6 DEF Continues
    <2>8. /\ task'.job = task.job /\ task'.terms = task.terms /\ task'.with = task.with /\ ~task'.bind
          /\ task'.state = state /\ task'.sending = got /\ task'.upTo = task.upTo /\ task'.exhausted = all
      BY <1>2, <2>6 DEF Task
    <2>9. all => OnItsWay = got /\ task.exhausted
      BY <1>8, <2>4 DEF OnItsWay
    <2>10. OnItsWay' = got /\ Before(task.upTo)' = Before(task.upTo)
      BY <2>3, <2>8 DEF OnItsWay, Before
    <2>11. Alive' => Alive
      BY <1>1
    <2>12. ResultRight'
      BY <1>1, <1>3, <2>3, <2>8, <2>9, <2>10 DEF ResultRight
    <2> QED
      BY <1>5, <2>7, <2>8, <2>12
  <1> QED
    BY <1>6, <1>7, <1>8

LEMMA TryingTicks ==
    ASSUME PeerInv, task.state \in Trying, NEW next, next = AfterTick(task),
           task' = [next EXCEPT !.updates = {}],
           Collects(task.with, next.updates, NoNode)
    PROVE  PeerInv'
  <1>1. /\ PeerTypes /\ Owned /\ Noted /\ JobRight /\ ResultRight /\ task \in Task /\ NoNode \notin Task
        /\ task.with \in Known /\ task.with \in Nodes /\ Alive
    BY Begun DEF Alive
  <1>2. UNCHANGED <<shelf, generation, shelvedAt, pendingSyncs, credits, restarts, confirmed, unwanted>>
    BY DEF Collects
  <1>3. Continues(next) /\ JobRight' /\ ResultRight'
    <2>1. CASE task.state = "Offering"
      BY <1>2, <2>1, OfferStepKeeps DEF AfterTick
    <2>2. CASE task.state = "Transferring"
      BY <1>2, <2>2, TransferStepKeeps DEF AfterTick
    <2>3. CASE task.state \in {"Establishing", "AwaitingResponse"}
      <3>1. next = task
        BY <2>3 DEF AfterTick, Finished
      <3>2. Continues(next)
        BY <1>1, <2>3, <3>1 DEF Continues, Noted
      <3>3. /\ task'.job = task.job /\ task'.terms = task.terms /\ task'.with = task.with /\ task'.bind = task.bind
            /\ task'.state = task.state /\ task'.sending = task.sending /\ task'.exhausted = task.exhausted
            /\ task'.upTo = task.upTo /\ task'.offered = task.offered /\ task'.batch = task.batch
        BY <1>1, <3>1 DEF Task
      <3>4. /\ OnItsWay' = OnItsWay /\ Before(task.upTo)' = Before(task.upTo) /\ Fresh' = Fresh
            /\ \A k \in Nodes : Done(k)' = Done(k)
        BY <1>2, <3>3 DEF OnItsWay, Before, Fresh, Done
      <3>5. JobRight'
        BY <1>1, <1>2, <3>3, <3>4 DEF JobRight
      <3>6. ResultRight'
        BY <1>1, <1>2, <2>3, <3>3, <3>4 DEF ResultRight
      <3> QED
        BY <3>2, <3>5, <3>6
    <2> QED
      BY <2>1, <2>2, <2>3 DEF Trying
  <1>4. next.updates \in SUBSET Mail /\ next.updates \subseteq Done(task.with)
    BY <1>3 DEF Continues, Task
  <1>5. /\ OnePeer(task.with) /\ Known' = Known
        /\ \A k \in Known : peers'[k].terms = peers[k].terms
        /\ \A k \in Known : k # task.with => peers'[k].busy = peers[k].busy
        /\ peers'[task.with].busy = peers[task.with].busy
    <2>1. /\ OnePeer(task.with) /\ Known' = Known
          /\ \A k \in Known : peers'[k].terms = peers[k].terms
          /\ \A k \in Known : k # task.with => peers'[k].busy = peers[k].busy
          /\ task.with \in Known => peers'[task.with].busy = (peers[task.with].busy /\ NoNode = NoNode)
      BY <1>1, <1>4, CollectKeeps
    <2>2. peers[task.with].busy \in BOOLEAN
      BY <1>1, KnownPeers, PeerFields
    <2> QED
      BY <1>1, <2>1, <2>2
  <1>6. /\ task' \in Task /\ task'.with = task.with /\ task'.terms = task.terms /\ task'.seen = task.seen
        /\ task'.updates = {} /\ task'.state # "Idle"
    BY <1>3 DEF Continues, Task
  <1>7. Noted'
    <2>1. \A k \in Nodes : Done(k)' = Done(k) /\ unwanted'[k] = unwanted[k]
      BY <1>2 DEF Done
    <2>2. task.seen \subseteq Done(task.with) /\ (task.terms # NoNode => task.terms.refuse \subseteq unwanted[task.with])
      BY <1>1, <1>6 DEF Noted, Trying
    <2> QED
      BY <1>1, <1>6, <2>1, <2>2 DEF Noted
  <1>8. Owned'
    <2>1. \A k \in Known : peers[k].busy => task.with = k
      BY <1>1 DEF Owned
    <2>2. peers[task.with].busy /\ task.terms = peers[task.with].terms
      BY <1>1 DEF Owned
    <2>3. peers'[task.with].busy /\ task'.terms = peers'[task.with].terms
      BY <1>1, <1>5, <1>6, <2>2
    <2>4. \A k \in Known' : peers'[k].busy => task'.with = k
      BY <1>5, <1>6, <2>1
    <2> QED
      BY <1>1, <1>5, <1>6, <2>3, <2>4 DEF Owned
  <1> QED
    BY <1>1, <1>3, <1>5, <1>6, <1>7, <1>8, PeerChanged DEF PeerInv

LEMMA FinishedTicks ==
    ASSUME PeerInv, task.state # "Idle", NEW t \in Task, t.state \in Finished, t.with = task.with,
           t.updates = task.updates, t.upTo = task.upTo, t.exhausted = task.exhausted,
           t.state = "Complete" => task.state = "Complete",
           task' = [IdleTask(task.with) EXCEPT !.updates = {}],
           Collects(task.with, t.updates, t)
    PROVE  PeerInv'
  <1>1. /\ PeerTypes /\ Owned /\ Noted /\ ResultRight /\ task \in Task /\ NoNode \notin Task
        /\ task.with \in Nodes
    BY Begun
  <1>2. task' = IdleTask(task.with) /\ generation' \in Nat
    BY <1>1 DEF IdleTask, Collects, PeerTypes
  <1>3. Noted' /\ JobRight' /\ ResultRight' /\ task' \in Task /\ ~Alive' /\ task'.state = "Idle"
    BY <1>1, <1>2, TaskIdle
  <1>4. t.updates \in SUBSET Mail /\ t.updates \subseteq Done(task.with) /\ t.upTo <= generation
    BY <1>1 DEF Task, Noted, ResultRight
  <1>5. t.state = "Complete" /\ t.exhausted /\ task.with \in Known /\ peers[task.with].terms.room > 0
          => Before(t.upTo) \subseteq Done(task.with)
    <2>1. task.state = "Complete" => Alive /\ OnItsWay = {}
      BY <1>1 DEF Alive, OnItsWay, ResultRight
    <2> QED
      BY <1>1, <2>1 DEF ResultRight, Owned
  <1>6. t # NoNode
    BY <1>1
  <1>7. /\ OnePeer(task.with) /\ Known' = Known
        /\ \A k \in Known : k # task.with => peers'[k].busy = peers[k].busy
        /\ task.with \in Known => peers'[task.with].busy = FALSE
    <2>1. /\ OnePeer(task.with) /\ Known' = Known
          /\ \A k \in Known : peers'[k].terms = peers[k].terms
          /\ \A k \in Known : k # task.with => peers'[k].busy = peers[k].busy
          /\ task.with \in Known => peers'[task.with].busy = (peers[task.with].busy /\ t = NoNode)
      BY ZenonT(60), <1>1, <1>4, <1>5, CollectKeeps
    <2> QED
      BY <1>6, <2>1
  <1>8. Owned'
    <2>1. \A k \in Known : peers[k].busy => task.with = k
      BY <1>1 DEF Owned
    <2>2. \A k \in Known' : ~peers'[k].busy
      BY <1>7, <2>1
    <2> QED
      BY <1>3, <2>2 DEF Owned, Trying, Finished
  <1> QED
    BY <1>1, <1>3, <1>7, <1>8, PeerChanged DEF PeerInv

LEMMA SyncTickKeeps ==
    ASSUME PeerInv, SyncTick
    PROVE  PeerInv'
  <1>1. task \in Task /\ NoNode \notin Task /\ task.state # "Idle"
    BY Begun DEF SyncTick
  <1>2. PICK t \in AfterWatch :
          LET next == AfterTick(t)
              result == IF t.state \in Finished THEN t ELSE NoNode
              updates == next.updates \cup IF result = NoNode THEN {} ELSE t.updates
              n == task.with
          IN  /\ task' = [next EXCEPT !.updates = {}]
              /\ IF n \in Known /\ (updates # {} \/ result # NoNode)
                 THEN /\ peers' = [peers EXCEPT ![n] = Collected(peers[n], updates, result)]
                      /\ SaveOf(n, peers')
                 ELSE UNCHANGED peerState
    BY DEF SyncTick
  <1>3. /\ UNCHANGED <<shelf, generation, shelvedAt, pendingSyncs, credits, restarts, confirmed, unwanted>>
        /\ drained' = FALSE
    BY DEF SyncTick, storeVars, historyVars
  <1>4. t = task \/ (t = [task EXCEPT !.state = "Failed"] /\ task.state \in Trying)
    BY <1>2 DEF AfterWatch
  <1>5. t \in Task /\ t.with = task.with /\ t.updates = task.updates /\ t.upTo = task.upTo
        /\ t.exhausted = task.exhausted /\ (t.state = task.state \/ t.state = "Failed")
    BY <1>1, <1>4 DEF Task, Finished
  <1>6. CASE t.state \in Finished
    <2>1. AfterTick(t) = IdleTask(task.with) /\ IdleTask(task.with).updates = {}
      BY <1>5, <1>6 DEF AfterTick, Finished, IdleTask
    <2>2. t # NoNode
      BY <1>1, <1>5
    <2>3. task' = [IdleTask(task.with) EXCEPT !.updates = {}]
      BY <1>2, <2>1
    <2>4. ({} \cup t.updates) = t.updates
      OBVIOUS
    <2>5. IF task.with \in Known /\ (t.updates # {} \/ t # NoNode)
          THEN /\ peers' = [peers EXCEPT ![task.with] = Collected(peers[task.with], t.updates, t)]
               /\ SaveOf(task.with, peers')
          ELSE UNCHANGED peerState
      BY <1>2, <1>6, <2>1, <2>2, <2>4
    <2>6. Collects(task.with, t.updates, t)
      BY <1>3, <2>5 DEF Collects, peerState
    <2> QED
      BY <1>1, <1>5, <1>6, <2>3, <2>6, FinishedTicks DEF Finished
  <1>7. CASE t.state \notin Finished
    <2>1. t = task /\ task.state \in Trying
      BY <1>1, <1>4, <1>5, <1>7 DEF Task, Finished
    <2>2. PICK next : next = AfterTick(task)
      OBVIOUS
    <2>3. task' = [next EXCEPT !.updates = {}]
      BY <1>2, <2>1, <2>2
    <2>4. (next.updates \cup {}) = next.updates
      OBVIOUS
    <2>5. IF task.with \in Known /\ (next.updates # {} \/ NoNode # NoNode)
          THEN /\ peers' = [peers EXCEPT ![task.with] = Collected(peers[task.with], next.updates, NoNode)]
               /\ SaveOf(task.with, peers')
          ELSE UNCHANGED peerState
      BY <1>2, <1>7, <2>1, <2>2, <2>4
    <2>6. Collects(task.with, next.updates, NoNode)
      BY <1>3, <2>5 DEF Collects, peerState
    <2> QED
      BY <2>1, <2>2, <2>3, <2>6, TryingTicks
  <1> QED
    BY <1>6, <1>7

-----------------------------------------------------------------------------
LEMMA RestartKeeps ==
    ASSUME PeerInv, DaemonRestarts
    PROVE  PeerInv'
  <1>1. PeerTypes /\ Shelved /\ Marked /\ NoNode \notin Nodes /\ NoNode \notin Peer
    BY Begun, KnownPeers
  <1>2. /\ UNCHANGED <<shelf, peerFile, confirmed, unwanted>> /\ Grows
        /\ pendingSyncs' = {} /\ task' = IdleTask(NoNode) /\ drained' = FALSE /\ credits' = {}
        /\ generation' = (IF shelf = {} THEN 0 ELSE 1)
        /\ shelvedAt' = [m \in Mail |-> IF m \in shelf THEN 1 ELSE 0]
        /\ restarts < MaxRestarts /\ restarts' = restarts + 1
    BY <1>1, HistorySame DEF DaemonRestarts, historyVars
  <1>3. PICK loaded : loaded =
          [n \in Nodes |-> [NewPeer(peerFile[n].terms) EXCEPT !.handled = peerFile[n].handled \cap shelf]]
    OBVIOUS
  <1>4. \A n \in Nodes : peerFile[n] # NoNode =>
          /\ loaded[n] \in Peer /\ loaded[n].handled = peerFile[n].handled \cap shelf
          /\ loaded[n].terms = peerFile[n].terms /\ loaded[n].processed = 0 /\ loaded[n].busy = FALSE
    BY <1>1, <1>3 DEF NewPeer, Peer, PeerTypes, FileRecord
  <1>5. peers' = [n \in Nodes |-> IF peerFile[n] = NoNode THEN NoNode ELSE loaded[n]]
    BY <1>3 DEF DaemonRestarts
  <1>6. peers' \in [Nodes -> Peer \cup {NoNode}]
    BY <1>4, <1>5
  <1>7. \A n \in Known' : n \in Nodes /\ peerFile[n] # NoNode /\ peers'[n] = loaded[n]
    BY <1>5 DEF Known
  <1>8. generation' \in Nat /\ generation' <= MaxGeneration
    <2>1. \A m \in shelf : shelvedAt[m] \in Nat /\ generation \in Nat /\ 1 <= shelvedAt[m] /\ shelvedAt[m] <= generation
                           /\ generation <= MaxGeneration
      BY <1>1 DEF Shelved, PeerTypes
    <2> QED
      BY <1>2, <2>1, TermsAreTerms
  <1>9. Noted' /\ JobRight' /\ ResultRight' /\ task' \in Task /\ ~Alive' /\ task'.state = "Idle"
    BY <1>2, <1>8, TaskIdle
  <1>10. PeerTypes'
    <2>1. shelvedAt' \in [Mail -> Nat]
      BY <1>2
    <2> QED
      BY <1>1, <1>2, <1>6, <1>8, <1>9, <2>1 DEF PeerTypes
  <1>11. Shelved'
    <2>1. \A m \in shelf' : shelvedAt'[m] >= 1
      BY <1>1, <1>2 DEF PeerTypes
    <2>2. \A m \in Mail : shelvedAt'[m] <= generation'
      BY <1>2
    <2>3. restarts' \in 0 .. MaxRestarts
      BY <1>1, <1>2, TermsAreTerms DEF Shelved
    <2> QED
      BY <1>8, <2>1, <2>2, <2>3 DEF Shelved
  <1>12. Owned'
    BY <1>4, <1>7, <1>9 DEF Owned, Trying, Finished
  <1>13. \A n \in Nodes : Done(n)' = Done(n)
    BY <1>2 DEF Done
  <1>14. Marked'
    <2>1. \A n \in Nodes : peerFile'[n] # NoNode => /\ peerFile'[n].handled \subseteq Done(n)'
                                                    /\ peerFile'[n].terms.refuse \subseteq unwanted'[n]
      BY <1>1, <1>2, <1>13 DEF Marked
    <2>2. \A n \in Known' : /\ peers'[n].handled \subseteq Done(n)'
                            /\ peers'[n].terms.refuse \subseteq unwanted'[n]
      BY <1>1, <1>2, <1>4, <1>7, <1>13 DEF Marked
    <2> QED
      BY <1>2, <2>1, <2>2 DEF Marked
  <1>15. Processed'
    <2>1. ASSUME NEW n \in Known'
          PROVE  (/\ peers[n].processed <= generation
                  /\ peers[n].terms.room > 0 => Before(peers[n].processed) \subseteq Done(n))'
      <3>1. peers'[n].processed = 0
        BY <1>4, <1>7
      <3>2. Before(peers[n].processed)' = {}
        BY <1>1, <1>2, <3>1 DEF Before, PeerTypes
      <3> QED
        BY <1>8, <3>1, <3>2
    <2> QED
      BY <2>1 DEF Processed
  <1> QED
    BY <1>9, <1>10, <1>11, <1>12, <1>14, <1>15 DEF PeerInv

LEMMA DepositKeeps ==
    ASSUME PeerInv, NEW m \in Mail, ClientDeposits(m) \/ Unshelve(m)
    PROVE  PeerInv'
  <1>1. PeerTypes /\ Marked
    BY Begun
  <1>2. /\ UNCHANGED <<peers, peerFile, pendingSyncs, task, restarts, drained, credits, confirmed, unwanted>>
        /\ Grows
    BY <1>1, HistorySame DEF ClientDeposits, Unshelve, peerState, historyVars
  <1>3. StoreMoves(m)
    BY DEF ClientDeposits, Unshelve, Shelve, StoreMoves
  <1>4. drained' \in BOOLEAN /\ credits' \subseteq Nodes \X Mail
    BY <1>1, <1>2 DEF PeerTypes
  <1> QED
    BY <1>2, <1>3, <1>4, StoreMoved

LEMMA PeerDepositKeeps ==
    ASSUME PeerInv, NEW n \in Nodes, NEW m \in Mail, PeerDeposits(n, m)
    PROVE  PeerInv'
  <1>1. PeerTypes /\ Marked
    BY Begun
  <1>2. /\ UNCHANGED <<peers, peerFile, pendingSyncs, task, restarts, drained, unwanted>>
        /\ credits' = credits \cup {<<n, m>>} /\ confirmed' = [confirmed EXCEPT ![n] = @ \cup {m}]
    BY DEF PeerDeposits, peerState
  <1>3. StoreMoves(m)
    BY DEF PeerDeposits, Shelve, StoreMoves
  <1>4. Grows /\ m \in confirmed'[n]
    BY <1>1, <1>2 DEF PeerTypes, Grows
  <1>5. drained' \in BOOLEAN /\ credits' \subseteq Nodes \X Mail
    BY <1>1, <1>2 DEF PeerTypes
  <1>6. \A c \in credits' : c \in credits \/ c[2] \in confirmed'[c[1]]
    BY <1>2, <1>4
  <1> QED
    BY <1>2, <1>3, <1>4, <1>5, <1>6, StoreMoved

LEMMA PeerStutter ==
    ASSUME PeerInv, UNCHANGED peerVars
    PROVE  PeerInv'
  <1>1. PeerTypes
    BY Begun
  <1> QED
    BY <1>1, QueueKeeps DEF peerVars, storeVars, peerState, historyVars, PeerTypes

LEMMA PeerInvInit ==
    ASSUME PeerInit
    PROVE  PeerInv
  <1>1. /\ task.state = "Idle" /\ ~task.bind /\ task.sending = {} /\ ~task.exhausted /\ task.job = NoNode
        /\ task.batch = NoNode /\ task.upTo = 0 /\ task \in Task
    BY DEF PeerInit, IdleTask, Task
  <1>2. Known = {}
    BY DEF PeerInit, Known
  <1>3. ~Alive /\ Fresh
    BY <1>1 DEF Alive, Fresh, Trying
  <1>4. PeerTypes
    BY <1>1 DEF PeerInit, PeerTypes
  <1>5. Shelved
    BY TermsAreTerms DEF PeerInit, Shelved
  <1>6. Marked
    BY <1>2 DEF PeerInit, Marked
  <1> QED
    BY <1>1, <1>2, <1>3, <1>4, <1>5, <1>6
       DEF PeerInv, Owned, Processed, Noted, JobRight, ResultRight, Trying, Finished, PeerTypes

LEMMA PeerInvNext ==
    ASSUME PeerInv, [PeerNext]_peerVars
    PROVE  PeerInv'
  <1>1. PeerTypes
    BY Begun
  <1>2. CASE \E m \in Mail : ClientDeposits(m) \/ Unshelve(m)
    BY <1>2, DepositKeeps
  <1>3. CASE \E n \in Nodes, m \in Mail : PeerDeposits(n, m) \/ Credit(n, m)
    BY <1>3, PeerDepositKeeps, CreditKeeps
  <1>4. CASE \E n \in Nodes, terms \in Terms : Peered(n, terms) \/ Refreshed(n, terms)
    BY <1>4, PeeredKeeps, RefreshedKeeps
  <1>5. CASE \E n \in Nodes : Dropped(n) \/ RotatedOut(n) \/ StartAttempt(n)
    BY <1>5, DroppedKeeps, RotatedOutKeeps, StartAttemptKeeps
  <1>6. CASE QueueDue \/ \E n \in Nodes : ControlSync(n) \/ KeyNotFound(n)
    BY <1>1, <1>6, QueueKeeps DEF QueueDue, ControlSync, KeyNotFound, PeerTypes, Known
  <1>7. CASE OfferWorker \/ BatchWorker \/ LinkProven \/ EndpointBound \/ Broken \/ TransferCancelled
               \/ SyncLinkClosed \/ ErrorResponse \/ SegmentProven
    BY <1>7, OfferWorkerKeeps, BatchWorkerKeeps, LinkProvenKeeps, EndpointBoundKeeps, BrokenKeeps,
       TransferCancelledKeeps, SyncLinkClosedKeeps, ErrorResponseKeeps, SegmentProvenKeeps
  <1>8. CASE \E wanted \in SUBSET Mail : Response(wanted)
    BY <1>8, ResponseKeeps
  <1>9. CASE SyncTick \/ DaemonRestarts
    BY <1>9, SyncTickKeeps, RestartKeeps
  <1>10. CASE UNCHANGED peerVars
    BY <1>10, PeerStutter
  <1> QED
    BY <1>2, <1>3, <1>4, <1>5, <1>6, <1>7, <1>8, <1>9, <1>10 DEF PeerNext

LEMMA PeerInvariant == PeerSpec => []PeerInv
  <1>1. PeerInit => PeerInv
    BY PeerInvInit
  <1>2. PeerInv /\ [PeerNext]_peerVars => PeerInv'
    BY PeerInvNext
  <1> QED
    BY <1>1, <1>2, PTL DEF PeerSpec

(* The variables of the scheduler and the task keep their types: a late     *)
(* worker, a cancelled attempt or a restart never leaves a half-made one.   *)
THEOREM PeerSyncTypes == PeerSpec => []PeerTypeOK
  <1>1. ASSUME PeerInv PROVE PeerTypeOK
    <2>1. PeerTypes /\ Shelved /\ Processed /\ ResultRight
      BY <1>1, Begun
    <2>2. \A n \in Known : peers[n] \in Peer /\ peers[n].processed <= MaxGeneration
      BY <2>1, KnownPeers, PeerFields, TermsAreTerms DEF Processed, Shelved, PeerTypes
    <2>3. shelvedAt \in [Mail -> 0 .. MaxGeneration]
      BY <2>1, TermsAreTerms DEF PeerTypes, Shelved
    <2>4. task.upTo <= MaxGeneration /\ generation \in 0 .. MaxGeneration
      BY <2>1, TermsAreTerms DEF PeerTypes, Task, ResultRight, Shelved
    <2> QED
      BY <2>1, <2>2, <2>3, <2>4 DEF PeerTypeOK, PeerTypes, Shelved, FileRecord
  <1> QED
    BY <1>1, PeerInvariant, PTL

(* Whatever fails, is cancelled, vanishes or comes late, an ID is marked    *)
(* handled for a peer only if the peer has it or its terms refuse it, and a *)
(* generation is processed only when nothing of it is left for that peer.   *)
THEOREM MarksStayTrue == PeerSpec => []MarksTrue
  <1>1. ASSUME PeerInv PROVE MarksTrue
    <2>1. Marked /\ Processed
      BY <1>1, Begun
    <2> QED
      BY <2>1 DEF MarksTrue, Marked, Processed, Done, Before
  <1> QED
    BY <1>1, PeerInvariant, PTL

(* A busy peer is that of the attempt under way, and an attempt under way   *)
(* is that of a busy peer, through every cancellation, rotation and late    *)
(* answer.                                                                  *)
THEOREM AttemptsStayOwned == PeerSpec => []AttemptOwned
  <1>1. ASSUME PeerInv PROVE AttemptOwned
    BY <1>1, Begun DEF AttemptOwned, Owned, Alive
  <1> QED
    BY <1>1, PeerInvariant, PTL
==============================================================================
