----------------------------- MODULE Client_proofs -----------------------------
(***************************************************************************)
(* Machine-checked proofs about three parts on the side of a client.       *)
(* TicketStore: reply tickets that were sent are honoured.                 *)
(* DeliveryRatchet: ratchets that were announced are kept, announces are   *)
(* ordered, rejected files are preserved.  ClientExchange: an answer of    *)
(* the node is made of the segments of one request, and a client that      *)
(* waits has a clock that runs.                                            *)
(***************************************************************************)
EXTENDS TicketStore, DeliveryRatchet, ClientExchange, SequenceTheorems, TLAPS

(* Snapshots that are still to be written, those of an intent included.     *)
Unsaved == checkpoints \cup {drafts[e].snapshot : e \in {f \in Drafts : drafts[f].snapshot # NoTicket}}

(* A ticket in force is in the store and in every snapshot of interest.     *)
InStore(t) == InForce(t) => t \in issued
InSnapshots(t, snapshots) == InForce(t) => \A s \in snapshots : t \in s.content.issued
InFile(t) ==
    InForce(t) => \A c \in ticketFile.may \cup {ticketFile.vis} : c # NoTicket /\ t \in c.issued

(* An intent that may still be written: what is newer has its ticket too.   *)
IntentHolds(d) ==
    LET t == drafts[d].ticket
        n == drafts[d].snapshot
    IN  n # NoTicket =>
            /\ drafts[d].state = "pending" /\ t # NoTicket
            /\ n.rev < revision /\ t \in n.content.issued /\ InStore(t)
            /\ InSnapshots(t, {s \in Unsaved : s.rev >= n.rev})

(* A ticket whose barrier is passed: nothing that can still be written is   *)
(* without it.                                                              *)
TicketHolds(d) ==
    LET t == drafts[d].ticket
    IN  drafts[d].state \in {"ready", "signed"} /\ t # NoTicket =>
            InStore(t) /\ InFile(t) /\ InSnapshots(t, {s \in Unsaved : ~Older(s)})

(* The file after a write without an error.                                 *)
FloorHolds ==
    floor # NoTicket /\ floor.committed =>
        ticketFile.vis # NoTicket /\ ticketFile.may = {ticketFile.vis}

TicketInv ==
    /\ TicketTypeOK /\ FloorHolds
    /\ \A s \in checkpoints : s.rev < revision
    /\ \A d \in Drafts : /\ IntentHolds(d) /\ TicketHolds(d)
                         /\ drafts[d].state = "new" => drafts[d] = NoDraft

-----------------------------------------------------------------------------
(* Types.                                                                   *)

LEMMA ContentFields ==
    /\ \A c \in Content : c.issued \subseteq Ticket /\ c.delivered \in [Recipients -> Times \cup {NoTicket}]
    /\ \A i \in SUBSET Ticket, d \in [Recipients -> Times \cup {NoTicket}] :
          [issued |-> i, delivered |-> d] \in Content
  BY DEF Content

LEMMA CulledType ==
    ASSUME NEW c \in Content
    PROVE  Culled(c) \in Content
  <1>1. CulledIssued(c) \subseteq Ticket
    BY ContentFields DEF CulledIssued
  <1>2. [p \in Recipients |-> IF Within(c.delivered[p], TicketInterval) THEN c.delivered[p]
                              ELSE NoTicket] \in [Recipients -> Times \cup {NoTicket}]
    BY ContentFields
  <1> QED
    BY <1>1, <1>2, ContentFields DEF Culled

LEMMA RestoresType ==
    ASSUME NEW c \in Content, Restores(c)
    PROVE  issued' = c.issued /\ delivered' = c.delivered /\ Memory' \in Content
  BY ContentFields DEF Restores, Memory

LEMMA EmptyType == Empty \in Content /\ Empty.issued = {}
  BY ContentFields DEF Empty

LEMMA IssueType ==
    ASSUME TicketTypeOK, NEW p \in Recipients, NEW t \in IssueFor(p)
    PROVE  t \in Ticket
  <1>1. time + Expiry \in Times
    BY TicketAssumption DEF TicketTypeOK, Times
  <1>2. issued \subseteq Ticket
    BY ContentFields DEF TicketTypeOK, Memory
  <1> QED
    BY <1>1, <1>2 DEF IssueFor, Reusable, Ticket

LEMMA CapturedType ==
    ASSUME TicketTypeOK, revision <= MaxRevision, NEW c \in Content
    PROVE  Captured(c) \in Snapshot /\ Captured(c).rev = revision /\ Captured(c).content = c
  <1>1. revision \in 1..MaxRevision
    BY TicketAssumption DEF TicketTypeOK
  <1> QED
    BY <1>1 DEF Captured, Snapshot

(* What a write does to the floor and the file.                             *)
LEMMA WriteFields ==
    ASSUME TicketTypeOK, NEW s \in Snapshot, NEW o \in Outcomes, Writes(s, o)
    PROVE  /\ o \in {"ok", "notCommitted", "uncertain"}
           /\ s.rev \in 1..MaxRevision /\ s.content \in Content
           /\ floor' \in Floor /\ floor'.rev = s.rev /\ floor'.committed = (o = "ok")
           /\ ticketFaults' \in 0..MaxTicketFaults
           /\ o = "ok" => ticketFile'.vis = s.content /\ ticketFile'.may = {s.content}
           /\ o = "notCommitted" => ticketFile' = ticketFile
           /\ o = "uncertain" => ticketFile'.vis = s.content /\ ticketFile'.may = ticketFile.may \cup {s.content}
  <1>1. o \in {"ok", "notCommitted", "uncertain"} /\ (o # "ok" => ticketFaults < MaxTicketFaults)
    BY DEF Outcomes
  <1>2. s.rev \in 1..MaxRevision /\ s.content \in Content
    BY DEF Snapshot
  <1>3. floor' \in Floor /\ floor'.rev = s.rev /\ floor'.committed = (o = "ok")
    BY <1>2 DEF Writes, Floor
  <1>4. ticketFaults' \in 0..MaxTicketFaults
    BY <1>1, TicketAssumption DEF Writes, TicketTypeOK
  <1> QED
    BY <1>1, <1>2, <1>3, <1>4 DEF Writes, Durable!Written, Durable!Settled

LEMMA DraftFields ==
    ASSUME NEW d \in Draft
    PROVE  /\ d.state \in {"new", "pending", "ready", "signed", "dropped"}
           /\ d.ticket \in Ticket \cup {NoTicket} /\ d.snapshot \in Snapshot \cup {NoTicket}
           /\ [d EXCEPT !.state = "ready"] \in Draft
           /\ \A state \in {"ready", "pending", "signed"} :
                 /\ [d EXCEPT !.state = state, !.snapshot = NoTicket] \in Draft
                 /\ [d EXCEPT !.state = state, !.snapshot = NoTicket].state = state
                 /\ [d EXCEPT !.state = state, !.snapshot = NoTicket].ticket = d.ticket
                 /\ [d EXCEPT !.state = state, !.snapshot = NoTicket].snapshot = NoTicket
           /\ [d EXCEPT !.state = "ready"].ticket = d.ticket
           /\ [d EXCEPT !.state = "ready"].snapshot = d.snapshot
  BY DEF Draft

LEMMA NoDraftType ==
    /\ NoDraft \in Draft /\ [NoDraft EXCEPT !.state = "dropped"] \in Draft
    /\ [NoDraft EXCEPT !.state = "dropped"].snapshot = NoTicket
    /\ [NoDraft EXCEPT !.state = "dropped"].state = "dropped"
    /\ NoDraft.snapshot = NoTicket /\ NoDraft.state = "new"
    /\ \A t \in Ticket, s \in Snapshot : [state |-> "pending", ticket |-> t, snapshot |-> s] \in Draft
  BY DEF NoDraft, Draft

-----------------------------------------------------------------------------
(* Drafts that a step leaves alone.                                         *)

LEMMA UnsavedType ==
    ASSUME TicketTypeOK
    PROVE  Unsaved \subseteq Snapshot
  <1>1. \A e \in Drafts : drafts[e].snapshot \in Snapshot \cup {NoTicket}
    BY ZenonT(60), DraftFields DEF TicketTypeOK
  <1> QED
    BY <1>1 DEF Unsaved, TicketTypeOK

(* What is captured from the store has every ticket of the store.           *)
NewSnapshots == \A s \in Unsaved' : s \in Unsaved \/ issued \subseteq s.content.issued
StoreKept == \A t \in Ticket : InForce(t)' => InForce(t) /\ (t \in issued => t \in issued')

LEMMA InForceKept ==
    ASSUME TicketTypeOK, time' \in 0 .. MaxTime, time' >= time, NEW t \in Ticket, InForce(t)'
    PROVE  InForce(t)
  <1>1. t.expires \in Nat
    BY TicketAssumption DEF Ticket, Times
  <1> QED
    BY <1>1, TicketAssumption DEF InForce, TicketTypeOK

LEMMA IntentKept ==
    ASSUME TicketInv, StoreKept, NewSnapshots, revision' \in Nat, revision' >= revision,
           NEW d \in Drafts, drafts'[d] = drafts[d]
    PROVE  IntentHolds(d)'
  <1> DEFINE t == drafts[d].ticket
             n == drafts[d].snapshot
  <1>1. IntentHolds(d) /\ drafts[d] \in Draft /\ TicketTypeOK
    BY DEF TicketInv, TicketTypeOK
  <1>2. t \in Ticket \cup {NoTicket} /\ n \in Snapshot \cup {NoTicket}
    BY <1>1, DraftFields
  <1>3. ASSUME n # NoTicket
        PROVE  /\ drafts[d].state = "pending" /\ t # NoTicket
               /\ n.rev < revision' /\ t \in n.content.issued /\ InStore(t)'
               /\ InSnapshots(t, {s \in Unsaved : s.rev >= n.rev})'
    <2>1. /\ drafts[d].state = "pending" /\ t # NoTicket
          /\ n.rev < revision /\ t \in n.content.issued /\ InStore(t)
          /\ InSnapshots(t, {s \in Unsaved : s.rev >= n.rev})
      BY <1>1, <1>3 DEF IntentHolds
    <2>2. n.rev < revision'
      <3>1. n.rev \in Nat /\ revision \in Nat
        BY <1>1, <1>2, <1>3 DEF Snapshot, TicketTypeOK
      <3> QED
        BY <2>1, <3>1
    <2>3. InStore(t)'
      BY <1>2, <2>1 DEF StoreKept, InStore
    <2>4. ASSUME InForce(t)', NEW s \in Unsaved', s.rev >= n.rev
          PROVE  t \in s.content.issued
      <3>1. InForce(t) /\ t \in issued
        BY <1>2, <2>1, <2>4 DEF StoreKept, InStore
      <3> QED
        BY <2>1, <2>4, <3>1 DEF NewSnapshots, InSnapshots
    <2>5. InSnapshots(t, {s \in Unsaved : s.rev >= n.rev})'
      BY <2>4 DEF InSnapshots
    <2> QED
      BY <2>1, <2>2, <2>3, <2>5
  <1> QED
    BY <1>3 DEF IntentHolds

(* The file is left alone, or a snapshot that is not older was written.     *)
FileStep == ticketFile' = ticketFile \/ \E s \in Unsaved, o \in Outcomes : Writes(s, o)

LEMMA InFileStep ==
    ASSUME TicketInv, FileStep, NEW t \in Ticket, InForce(t), InFile(t),
           InSnapshots(t, {s \in Unsaved : ~Older(s)})
    PROVE  \A c \in ticketFile'.may \cup {ticketFile'.vis} : c # NoTicket /\ t \in c.issued
  <1>0. \A c \in ticketFile.may \cup {ticketFile.vis} : c # NoTicket /\ t \in c.issued
    BY DEF InFile
  <1>1. CASE ticketFile' = ticketFile
    BY <1>0, <1>1
  <1>2. ASSUME NEW s \in Unsaved, NEW o \in Outcomes, Writes(s, o)
        PROVE  \A c \in ticketFile'.may \cup {ticketFile'.vis} : c # NoTicket /\ t \in c.issued
    <2>1. s \in Snapshot /\ ~Older(s)
      BY <1>2, UnsavedType DEF Writes, TicketInv
    <2>2. t \in s.content.issued /\ s.content \in Content
      BY <2>1 DEF InSnapshots, Snapshot
    <2>3. s.content # NoTicket
      BY <2>2, NoTicketAssumption
    <2> QED
      BY <1>0, <1>2, <2>1, <2>2, <2>3, WriteFields DEF TicketInv
  <1> QED
    BY <1>1, <1>2 DEF FileStep

LEMMA TicketKept ==
    ASSUME TicketInv, StoreKept, NewSnapshots, FileStep,
           \A s \in Unsaved' : Older(s) => Older(s)',
           NEW d \in Drafts, drafts'[d].ticket = drafts[d].ticket,
           drafts[d].state \in {"ready", "signed"}
    PROVE  TicketHolds(d)'
  <1> DEFINE t == drafts[d].ticket
  <1>1. TicketHolds(d) /\ drafts[d] \in Draft /\ TicketTypeOK
    BY DEF TicketInv, TicketTypeOK
  <1>2. t \in Ticket \cup {NoTicket}
    BY <1>1, DraftFields
  <1>3. ASSUME t # NoTicket, InForce(t)'
        PROVE  /\ t \in issued'
               /\ \A c \in ticketFile'.may \cup {ticketFile'.vis} : c # NoTicket /\ t \in c.issued
               /\ \A s \in Unsaved' : ~Older(s)' => t \in s.content.issued
    <2>1. InStore(t) /\ InFile(t) /\ InSnapshots(t, {s \in Unsaved : ~Older(s)})
      BY <1>1, <1>3 DEF TicketHolds
    <2>2. InForce(t) /\ t \in issued /\ t \in issued'
      BY <1>2, <1>3, <2>1 DEF StoreKept, InStore
    <2>3. \A s \in Unsaved' : ~Older(s)' => t \in s.content.issued
      BY <2>1, <2>2 DEF NewSnapshots, InSnapshots
    <2> QED
      BY <1>2, <1>3, <2>1, <2>2, <2>3, InFileStep
  <1> QED
    BY <1>3 DEF TicketHolds, InStore, InFile, InSnapshots

-----------------------------------------------------------------------------
(* Steps.                                                                   *)

LEMMA StoreGrows ==
    ASSUME TicketTypeOK, TicketTypeOK', time' >= time, \A t \in issued : InForce(t)' => t \in issued'
    PROVE  StoreKept
  BY InForceKept DEF StoreKept, TicketTypeOK

(* A draft beside the one that the step is about.                           *)
LEMMA OtherDraft ==
    ASSUME TicketInv, StoreKept, NewSnapshots, FileStep, revision' \in Nat, revision' >= revision,
           \A s \in Unsaved' : Older(s) => Older(s)', NEW e \in Drafts, drafts'[e] = drafts[e]
    PROVE  /\ IntentHolds(e)' /\ TicketHolds(e)'
           /\ drafts'[e].state = "new" => drafts'[e] = NoDraft
  <1>1. IntentHolds(e)'
    BY IntentKept
  <1>2. CASE drafts[e].state \in {"ready", "signed"}
    BY <1>1, <1>2, TicketKept
  <1>3. CASE drafts[e].state \notin {"ready", "signed"}
    BY <1>1, <1>3 DEF TicketHolds, TicketInv
  <1> QED
    BY <1>2, <1>3

(* A step that leaves the file alone and at most ends an intent.            *)
LEMMA QuietStep ==
    ASSUME TicketInv, TicketTypeOK', StoreKept, NewSnapshots, revision' >= revision,
           UNCHANGED <<floor, ticketFile>>, \A s \in checkpoints' : s.rev < revision',
           \A d \in Drafts : \/ drafts'[d] = drafts[d]
                             \/ /\ drafts'[d].snapshot = NoTicket
                                /\ \/ drafts'[d].state = "dropped"
                                   \/ /\ drafts'[d].ticket = drafts[d].ticket
                                      /\ drafts[d].state \in {"ready", "signed"}
                                      /\ drafts'[d].state = "signed"
    PROVE  TicketInv'
  <1>1. \A s : Older(s)' = Older(s)
    BY DEF Older
  <1>2. FileStep /\ FloorHolds' /\ revision' \in Nat
    BY DEF FileStep, FloorHolds, TicketInv, TicketTypeOK
  <1>3. ASSUME NEW d \in Drafts
        PROVE  /\ IntentHolds(d)' /\ TicketHolds(d)'
               /\ drafts'[d].state = "new" => drafts'[d] = NoDraft
    <2>1. CASE drafts'[d] = drafts[d]
      BY <1>1, <1>2, <2>1, OtherDraft
    <2>2. CASE drafts'[d].snapshot = NoTicket /\ drafts'[d].state = "dropped"
      BY <2>2 DEF IntentHolds, TicketHolds
    <2>3. CASE /\ drafts'[d].snapshot = NoTicket /\ drafts'[d].ticket = drafts[d].ticket
               /\ drafts[d].state \in {"ready", "signed"} /\ drafts'[d].state = "signed"
      <3>1. IntentHolds(d)'
        BY <2>3 DEF IntentHolds
      <3> QED
        BY <1>1, <1>2, <2>3, <3>1, TicketKept
    <2> QED
      BY <2>1, <2>2, <2>3
  <1> QED
    BY <1>2, <1>3 DEF TicketInv

LEMMA CullStep ==
    ASSUME TicketInv, Cull
    PROVE  TicketInv'
  <1>1. TicketTypeOK /\ Memory \in Content
    BY DEF TicketInv, TicketTypeOK
  <1>2. Culled(Memory) \in Content /\ Restores(Culled(Memory))
    BY <1>1, CulledType DEF Cull
  <1>3. TicketTypeOK' /\ issued' = Culled(Memory).issued
    BY <1>1, <1>2, RestoresType DEF Cull, TicketTypeOK
  <1>4. \A t \in issued : InForce(t)' => t \in issued'
    BY <1>3 DEF Culled, CulledIssued, Memory, InForce, Cull
  <1>5. time' >= time /\ StoreKept
    BY <1>1, <1>3, <1>4, StoreGrows, TicketAssumption DEF Cull, TicketTypeOK
  <1>6. NewSnapshots /\ revision' >= revision
    BY <1>1 DEF NewSnapshots, Unsaved, Cull, TicketTypeOK
  <1> QED
    BY <1>3, <1>5, <1>6, QuietStep DEF Cull, TicketInv

LEMMA TimeStep ==
    ASSUME TicketInv, TimePasses
    PROVE  TicketInv'
  <1>1. TicketTypeOK /\ TicketTypeOK' /\ time' >= time /\ revision' >= revision
    BY TicketAssumption DEF TicketInv, TimePasses, TicketTypeOK, memory, Memory
  <1>2. StoreKept
    BY <1>1, StoreGrows DEF TimePasses, memory
  <1>3. NewSnapshots
    BY DEF NewSnapshots, Unsaved, TimePasses
  <1> QED
    BY <1>1, <1>2, <1>3, QuietStep DEF TimePasses, TicketInv

LEMMA CheckpointStep ==
    ASSUME TicketInv, Checkpoint
    PROVE  TicketInv'
  <1>0. TicketTypeOK /\ Memory \in Content /\ revision <= MaxRevision /\ revision' = revision + 1
    BY DEF TicketInv, TicketTypeOK, Checkpoint
  <1> DEFINE s == Captured(Memory)
  <1>1. s \in Snapshot /\ s.rev = revision /\ s.content.issued = issued
    BY <1>0, CapturedType DEF Memory
  <1> HIDE DEF s
  <1>2. checkpoints' = checkpoints \cup {s} /\ UNCHANGED <<time, memory, floor, ticketFile, drafts, ticketFaults>>
    BY DEF Checkpoint, s
  <1>3. TicketTypeOK'
    BY <1>0, <1>1, <1>2, TicketAssumption DEF TicketTypeOK, memory, Memory
  <1>4. StoreKept /\ revision' >= revision
    BY <1>0, <1>2, <1>3, StoreGrows DEF memory, TicketTypeOK
  <1>5. NewSnapshots
    BY <1>1, <1>2 DEF NewSnapshots, Unsaved
  <1>6. \A x \in checkpoints' : x.rev < revision'
    <2>1. \A x \in checkpoints : x.rev < revision /\ x.rev \in Nat
      BY <1>0 DEF TicketInv, TicketTypeOK, Snapshot
    <2> QED
      BY <1>0, <1>1, <1>2, <2>1 DEF TicketTypeOK
  <1> QED
    BY <1>2, <1>3, <1>4, <1>5, <1>6, QuietStep

LEMMA DraftStep ==
    ASSUME TicketInv, NEW d \in Drafts, Sign(d) \/ DropDraft(d) \/ Delivered(d)
    PROVE  TicketInv'
  <1> DEFINE signed == [drafts[d] EXCEPT !.state = "signed", !.snapshot = NoTicket]
             dropped == [NoDraft EXCEPT !.state = "dropped"]
  <1>0. TicketTypeOK /\ drafts[d] \in Draft /\ drafts \in [Drafts -> Draft]
    BY DEF TicketInv, TicketTypeOK
  <1>1. UNCHANGED <<time, issued, revision, checkpoints, floor, ticketFile, ticketFaults>>
    BY DEF Sign, DropDraft, Delivered, memory
  <1>2. /\ signed \in Draft /\ signed.state = "signed" /\ signed.ticket = drafts[d].ticket
        /\ signed.snapshot = NoTicket
        /\ dropped \in Draft /\ dropped.snapshot = NoTicket /\ dropped.state = "dropped"
    BY <1>0, DraftFields, NoDraftType
  <1>3. \/ drafts' = drafts
        \/ drafts[d].state = "ready" /\ drafts' = [drafts EXCEPT ![d] = signed]
        \/ drafts' = [drafts EXCEPT ![d] = dropped]
    BY <1>0 DEF Sign, DropDraft, Delivered
  <1> HIDE DEF signed, dropped
  <1>4. delivered' \in [Recipients -> Times \cup {NoTicket}]
    <2>1. delivered \in [Recipients -> Times \cup {NoTicket}]
      BY <1>0, ContentFields DEF TicketTypeOK, Memory
    <2>2. time \in Times
      BY <1>0, TicketAssumption DEF TicketTypeOK, Times
    <2> QED
      BY <2>1, <2>2 DEF Sign, DropDraft, Delivered, memory
  <1>5. Memory' \in Content
    <2>1. issued' \subseteq Ticket
      BY <1>0, <1>1, ContentFields DEF TicketTypeOK, Memory
    <2> QED
      BY <1>4, <2>1, ContentFields DEF Memory
  <1>6. drafts' \in [Drafts -> Draft]
    BY <1>0, <1>2, <1>3
  <1>7. TicketTypeOK'
    BY <1>0, <1>1, <1>5, <1>6 DEF TicketTypeOK
  <1>8. StoreKept /\ revision' >= revision
    BY <1>0, <1>1, <1>7, StoreGrows, TicketAssumption DEF TicketTypeOK
  <1>9. \A e \in Drafts : drafts'[e].snapshot \in {NoTicket, drafts[e].snapshot}
    BY <1>0, <1>2, <1>3
  <1>10. NewSnapshots
    BY <1>1, <1>9 DEF NewSnapshots, Unsaved
  <1>11. \A e \in Drafts : \/ drafts'[e] = drafts[e]
                           \/ /\ drafts'[e].snapshot = NoTicket
                              /\ \/ drafts'[e].state = "dropped"
                                 \/ /\ drafts'[e].ticket = drafts[e].ticket
                                    /\ drafts[e].state \in {"ready", "signed"}
                                    /\ drafts'[e].state = "signed"
    BY <1>0, <1>2, <1>3
  <1> QED
    BY <1>1, <1>7, <1>8, <1>10, <1>11, QuietStep DEF TicketInv

LEMMA PrepareStep ==
    ASSUME TicketInv, NEW d \in Drafts, NEW p \in Recipients, Prepare(d, p)
    PROVE  TicketInv'
  <1>0. /\ TicketTypeOK /\ drafts[d] = NoDraft /\ drafts \in [Drafts -> Draft]
        /\ revision <= MaxRevision /\ Memory \in Content /\ issued \subseteq Ticket
        /\ delivered \in [Recipients -> Times \cup {NoTicket}]
    BY ContentFields DEF TicketInv, TicketTypeOK, Prepare, Memory
  <1>1. UNCHANGED <<time, delivered, checkpoints, floor, ticketFile, ticketFaults>>
    BY DEF Prepare
  <1>2. \A e \in Drafts : drafts[e].snapshot = NoTicket
    BY DEF TicketInv, IntentHolds, Prepare
  <1> DEFINE with(t) == [Memory EXCEPT !.issued = @ \cup {t}]
  <1>3. ASSUME NEW t \in IssueFor(p), issued' = issued \cup {t}, revision' = revision + 1,
               drafts' = [drafts EXCEPT ![d] =
                            [state |-> "pending", ticket |-> t,
                             snapshot |-> Captured(with(t))]]
        PROVE  TicketInv'
    <2> DEFINE kept == with(t)
               n == Captured(kept)
               pending == [state |-> "pending", ticket |-> t, snapshot |-> n]
    <2>1. t \in Ticket
      BY <1>0, IssueType
    <2>2. kept = [issued |-> issued \cup {t}, delivered |-> delivered]
      BY DEF Memory
    <2>3. kept \in Content /\ kept.issued = issued \cup {t}
      BY <1>0, <2>1, <2>2, ContentFields
    <2>4. n \in Snapshot /\ n.rev = revision /\ n.content.issued = issued \cup {t} /\ n # NoTicket
      BY <1>0, <2>3, CapturedType, NoTicketAssumption
    <2>5. /\ pending \in Draft /\ pending.state = "pending" /\ pending.ticket = t
          /\ pending.snapshot = n
      BY <2>1, <2>4, NoDraftType
    <2>6. drafts' = [drafts EXCEPT ![d] = pending]
      BY <1>3
    <2> HIDE DEF pending, n, kept
    <2>7. Memory' \in Content
      BY <1>0, <1>1, <1>3, <2>1, ContentFields DEF Memory
    <2>8. drafts' \in [Drafts -> Draft] /\ drafts'[d] = pending /\ \A e \in Drafts \ {d} : drafts'[e] = drafts[e]
      BY <1>0, <2>5, <2>6
    <2>9. TicketTypeOK'
      BY <1>0, <1>1, <1>3, <2>7, <2>8, TicketAssumption DEF TicketTypeOK
    <2>10. StoreKept /\ revision' >= revision /\ revision' \in Nat
      BY <1>0, <1>1, <1>3, <2>9, StoreGrows, TicketAssumption DEF TicketTypeOK
    <2>11. Unsaved = checkpoints /\ Unsaved' = checkpoints \cup {n}
      BY <1>1, <1>2, <2>4, <2>5, <2>8 DEF Unsaved
    <2>12. NewSnapshots
      BY <2>4, <2>11 DEF NewSnapshots
    <2>13. \A s \in checkpoints : s.rev < revision /\ s.rev \in Nat
      BY <1>0 DEF TicketInv, TicketTypeOK, Snapshot
    <2>14. \A s \in checkpoints' : s.rev < revision'
      BY <1>0, <1>1, <1>3, <2>13 DEF TicketTypeOK
    <2>15. FileStep /\ FloorHolds' /\ \A s : Older(s)' = Older(s)
      BY <1>1 DEF FileStep, FloorHolds, Older, TicketInv
    <2>16. ASSUME NEW e \in Drafts \ {d}
           PROVE  /\ IntentHolds(e)' /\ TicketHolds(e)'
                  /\ drafts'[e].state = "new" => drafts'[e] = NoDraft
      BY <2>8, <2>10, <2>12, <2>15, OtherDraft
    <2>17. IntentHolds(d)'
      <3>1. revision < revision'
        BY <1>0, <1>3 DEF TicketTypeOK
      <3>2. \A s \in Unsaved' : s.rev >= revision => s = n
        BY <1>0, <2>11, <2>13 DEF TicketTypeOK
      <3>3. \A s \in Unsaved' : s.rev >= n.rev => t \in s.content.issued
        BY <2>4, <3>2
      <3>4. drafts'[d].ticket = t /\ drafts'[d].snapshot = n /\ drafts'[d].state = "pending"
        BY <2>5, <2>8
      <3>5. InSnapshots(drafts[d].ticket, {s \in Unsaved : s.rev >= drafts[d].snapshot.rev})'
        BY <3>3, <3>4 DEF InSnapshots
      <3>6. InStore(drafts[d].ticket)'
        BY <1>3, <3>4 DEF InStore
      <3> QED
        BY <1>3, <2>1, <2>4, <3>1, <3>4, <3>5, <3>6, NoTicketAssumption DEF IntentHolds
    <2>18. TicketHolds(d)' /\ drafts'[d].state # "new"
      BY <2>5, <2>8 DEF TicketHolds
    <2> QED
      BY <2>9, <2>14, <2>15, <2>16, <2>17, <2>18 DEF TicketInv
  <1>4. ASSUME drafts' = [drafts EXCEPT ![d].state = "ready"], UNCHANGED <<issued, revision>>
        PROVE  TicketInv'
    <2> DEFINE ready == [NoDraft EXCEPT !.state = "ready"]
    <2>1. ready \in Draft /\ ready.state = "ready" /\ ready.ticket = NoTicket /\ ready.snapshot = NoTicket
      BY DraftFields, NoDraftType DEF NoDraft
    <2>2. drafts' = [drafts EXCEPT ![d] = ready]
      BY <1>0, <1>4
    <2> HIDE DEF ready
    <2>3. drafts' \in [Drafts -> Draft] /\ drafts'[d] = ready /\ \A e \in Drafts \ {d} : drafts'[e] = drafts[e]
      BY <1>0, <2>1, <2>2
    <2>4. TicketTypeOK'
      BY <1>0, <1>1, <1>4, <2>3 DEF TicketTypeOK, Memory
    <2>5. StoreKept /\ revision' >= revision /\ revision' \in Nat
      BY <1>0, <1>1, <1>4, <2>4, StoreGrows, TicketAssumption DEF TicketTypeOK
    <2>6. Unsaved = checkpoints /\ Unsaved' = checkpoints
      BY <1>1, <1>2, <2>1, <2>3 DEF Unsaved
    <2>7. NewSnapshots
      BY <2>6 DEF NewSnapshots
    <2>8. \A s \in checkpoints' : s.rev < revision'
      BY <1>1, <1>4 DEF TicketInv
    <2>9. FileStep /\ FloorHolds' /\ \A s : Older(s)' = Older(s)
      BY <1>1 DEF FileStep, FloorHolds, Older, TicketInv
    <2>10. ASSUME NEW e \in Drafts \ {d}
           PROVE  /\ IntentHolds(e)' /\ TicketHolds(e)'
                  /\ drafts'[e].state = "new" => drafts'[e] = NoDraft
      BY <2>3, <2>5, <2>7, <2>9, OtherDraft
    <2>11. IntentHolds(d)' /\ TicketHolds(d)' /\ drafts'[d].state # "new"
      BY <2>1, <2>3 DEF IntentHolds, TicketHolds
    <2> QED
      BY <2>4, <2>8, <2>9, <2>10, <2>11 DEF TicketInv
  <1>5. \A t : with(t).issued = issued \cup {t}
    BY DEF Memory
  <1> QED
    BY <1>3, <1>4, <1>5 DEF Prepare

-----------------------------------------------------------------------------
(* Writes.                                                                  *)

(* A snapshot is written, whatever its outcome: what is older than the      *)
(* floor stays so.                                                          *)
LEMMA WriteKeeps ==
    ASSUME TicketInv, NEW s \in Unsaved, NEW o \in Outcomes, Writes(s, o)
    PROVE  /\ FileStep /\ FloorHolds'
           /\ \A x \in Unsaved : Older(x) => Older(x)'
           /\ \A x \in Unsaved : ~Older(x)' => x.rev >= s.rev
           /\ floor' \in Floor \cup {NoTicket} /\ ticketFaults' \in 0..MaxTicketFaults
           /\ ticketFile'.vis \in Content \cup {NoTicket} /\ ticketFile'.may \subseteq Content \cup {NoTicket}
  <1>1. TicketTypeOK /\ s \in Snapshot /\ Unsaved \subseteq Snapshot
    BY UnsavedType DEF TicketInv
  <1>2. /\ s.rev \in 1..MaxRevision /\ s.content \in Content
        /\ floor' \in Floor /\ floor'.rev = s.rev /\ floor'.committed = (o = "ok")
        /\ ticketFaults' \in 0..MaxTicketFaults
        /\ o \in {"ok", "notCommitted", "uncertain"}
        /\ o = "ok" => ticketFile'.vis = s.content /\ ticketFile'.may = {s.content}
        /\ o = "notCommitted" => ticketFile' = ticketFile
        /\ o = "uncertain" => ticketFile'.vis = s.content /\ ticketFile'.may = ticketFile.may \cup {s.content}
    BY <1>1, WriteFields
  <1>3. floor' # NoTicket /\ s.content # NoTicket
    BY <1>2, NoTicketAssumption
  <1>4. \A x \in Unsaved : x.rev \in Nat
    BY <1>1, TicketAssumption DEF Snapshot
  <1>5. ~Older(s) /\ (floor # NoTicket => floor.rev \in Nat)
    BY <1>1, TicketAssumption DEF Writes, TicketTypeOK, Floor
  <1>6. \A x \in Unsaved : Older(x) => Older(x)'
    BY <1>2, <1>3, <1>4, <1>5, TicketAssumption DEF Older
  <1>7. \A x \in Unsaved : ~Older(x)' => x.rev >= s.rev
    BY <1>2, <1>3, <1>4, TicketAssumption DEF Older
  <1>8. FileStep
    BY DEF FileStep
  <1>9. FloorHolds'
    BY <1>2, <1>3 DEF FloorHolds
  <1>10. /\ ticketFile'.vis \in Content \cup {NoTicket}
         /\ ticketFile'.may \subseteq Content \cup {NoTicket}
    BY <1>1, <1>2 DEF TicketTypeOK
  <1> QED
    BY <1>2, <1>6, <1>7, <1>8, <1>9, <1>10

LEMMA NoWriteKeeps ==
    ASSUME TicketInv, NoWrite
    PROVE  /\ FileStep /\ FloorHolds' /\ \A x : Older(x)' = Older(x)
           /\ floor' \in Floor \cup {NoTicket} /\ ticketFaults' \in 0..MaxTicketFaults
           /\ ticketFile'.vis \in Content \cup {NoTicket} /\ ticketFile'.may \subseteq Content \cup {NoTicket}
  BY DEF NoWrite, FileStep, FloorHolds, Older, TicketInv, TicketTypeOK

LEMMA SaveStep ==
    ASSUME TicketInv, NEW s \in checkpoints, SaveCheckpoint(s)
    PROVE  TicketInv'
  <1>0. TicketTypeOK /\ s \in Unsaved /\ Unsaved' \subseteq Unsaved
    BY DEF TicketInv, SaveCheckpoint, Unsaved
  <1>1. UNCHANGED <<time, memory, revision, drafts>> /\ checkpoints' \subseteq checkpoints
    BY DEF SaveCheckpoint
  <1>2. /\ FileStep /\ FloorHolds' /\ \A x \in Unsaved : Older(x) => Older(x)'
        /\ floor' \in Floor \cup {NoTicket} /\ ticketFaults' \in 0..MaxTicketFaults
        /\ ticketFile'.vis \in Content \cup {NoTicket} /\ ticketFile'.may \subseteq Content \cup {NoTicket}
    BY <1>0, WriteKeeps, NoWriteKeeps DEF SaveCheckpoint
  <1>3. TicketTypeOK'
    BY <1>0, <1>1, <1>2 DEF TicketTypeOK, memory, Memory
  <1>4. StoreKept /\ NewSnapshots /\ revision' \in Nat /\ revision' >= revision
    BY <1>0, <1>1, <1>3, StoreGrows, TicketAssumption DEF memory, NewSnapshots, TicketTypeOK
  <1>5. \A x \in checkpoints' : x.rev < revision'
    BY <1>1 DEF TicketInv
  <1> QED
    BY <1>0, <1>1, <1>2, <1>3, <1>4, <1>5, OtherDraft DEF TicketInv

LEMMA ThenFields ==
    ASSUME NEW d \in Draft, NEW state \in {"pending", "ready"}
    PROVE  /\ [d EXCEPT !.state = state, !.snapshot = NoTicket] \in Draft
           /\ [d EXCEPT !.state = state, !.snapshot = NoTicket].state = state
           /\ [d EXCEPT !.state = state, !.snapshot = NoTicket].ticket = d.ticket
           /\ [d EXCEPT !.state = state, !.snapshot = NoTicket].snapshot = NoTicket
  BY DEF Draft

LEMMA PersistStep ==
    ASSUME TicketInv, NEW d \in Drafts, Persist(d)
    PROVE  TicketInv'
  <1> DEFINE s == drafts[d].snapshot
             t == drafts[d].ticket
             then(state) == [drafts[d] EXCEPT !.state = state, !.snapshot = NoTicket]
  <1>0. /\ TicketTypeOK /\ drafts \in [Drafts -> Draft] /\ drafts[d] \in Draft
        /\ s # NoTicket /\ t \in Ticket \cup {NoTicket}
        /\ s \in Snapshot /\ s \in Unsaved
    <2>1. drafts \in [Drafts -> Draft] /\ drafts[d] \in Draft /\ s # NoTicket
      BY DEF TicketInv, TicketTypeOK, Persist
    <2>2. t \in Ticket \cup {NoTicket} /\ s \in Snapshot \cup {NoTicket}
      BY <2>1, DraftFields
    <2> QED
      BY <2>1, <2>2 DEF TicketInv, Unsaved
  <1>1. UNCHANGED <<time, memory, revision, checkpoints>>
    BY DEF Persist
  <1>2. PICK state \in {"pending", "ready"} : drafts' = [drafts EXCEPT ![d] = then(state)]
    BY <1>0 DEF Persist
  <1>3. /\ then(state) \in Draft /\ then(state).state = state /\ then(state).ticket = t
        /\ then(state).snapshot = NoTicket
    <2>1. drafts[d] \in Draft
      BY <1>0
    <2> QED
      BY <2>1, ThenFields
  <1> HIDE DEF then
  <1>4. /\ drafts' \in [Drafts -> Draft] /\ drafts'[d] = then(state)
        /\ \A e \in Drafts \ {d} : drafts'[e] = drafts[e]
    BY <1>0, <1>2, <1>3
  <1>5. Unsaved' \subseteq Unsaved
    BY <1>1, <1>3, <1>4 DEF Unsaved
  <1>6. /\ FileStep /\ FloorHolds' /\ \A x \in Unsaved : Older(x) => Older(x)'
        /\ floor' \in Floor \cup {NoTicket} /\ ticketFaults' \in 0..MaxTicketFaults
        /\ ticketFile'.vis \in Content \cup {NoTicket} /\ ticketFile'.may \subseteq Content \cup {NoTicket}
    BY <1>0, WriteKeeps, NoWriteKeeps DEF Persist
  <1>7. TicketTypeOK'
    BY <1>0, <1>1, <1>4, <1>6 DEF TicketTypeOK, memory, Memory
  <1>8. StoreKept /\ NewSnapshots /\ revision' \in Nat /\ revision' >= revision
    BY <1>0, <1>1, <1>5, <1>7, StoreGrows, TicketAssumption DEF memory, NewSnapshots, TicketTypeOK
  <1>9. \A x \in checkpoints' : x.rev < revision'
    BY <1>1 DEF TicketInv
  <1>10. \A e \in Drafts \ {d} : /\ IntentHolds(e)' /\ TicketHolds(e)'
                                 /\ drafts'[e].state = "new" => drafts'[e] = NoDraft
    BY <1>4, <1>5, <1>6, <1>8, OtherDraft
  <1>11. IntentHolds(d)' /\ drafts'[d].state # "new"
    BY <1>3, <1>4 DEF IntentHolds
  <1>12. ASSUME state = "ready"
         PROVE  /\ InStore(t)
                /\ InForce(t) => /\ \A c \in ticketFile'.may \cup {ticketFile'.vis} : c # NoTicket /\ t \in c.issued
                                 /\ \A x \in Unsaved' : ~Older(x)' => t \in x.content.issued
    <2>1. /\ t # NoTicket /\ t \in s.content.issued /\ InStore(t)
          /\ InForce(t) => \A x \in Unsaved : x.rev >= s.rev => t \in x.content.issued
      BY <1>0 DEF TicketInv, IntentHolds, InSnapshots
    <2>2. drafts'[d].state = "ready"
      BY <1>3, <1>4, <1>12
    <2>3. ASSUME Writes(s, "ok")
          PROVE  /\ \A c \in ticketFile'.may \cup {ticketFile'.vis} : c # NoTicket /\ t \in c.issued
                 /\ \A x \in Unsaved : ~Older(x)' => x.rev >= s.rev
      <3>1. "ok" \in Outcomes
        BY DEF Outcomes
      <3>2. ticketFile'.vis = s.content /\ ticketFile'.may = {s.content} /\ s.content # NoTicket
        BY <1>0, <2>3, <3>1, WriteFields, NoTicketAssumption
      <3> QED
        BY <1>0, <2>1, <2>3, <3>1, <3>2, WriteKeeps
    <2>4. ASSUME Superseded(s, t), NoWrite
          PROVE  /\ \A c \in ticketFile'.may \cup {ticketFile'.vis} : c # NoTicket /\ t \in c.issued
                 /\ \A x \in Unsaved : ~Older(x)' => x.rev >= s.rev
      <3>1. ticketFile.vis # NoTicket /\ ticketFile.may = {ticketFile.vis} /\ t \in ticketFile.vis.issued
        BY <2>1, <2>4 DEF Superseded, Older, TicketInv, FloorHolds
      <3>2. \A x \in Unsaved : x.rev \in Nat
        BY <1>0, UnsavedType, TicketAssumption DEF Snapshot
      <3>3. floor # NoTicket /\ s.rev < floor.rev /\ floor.rev \in Nat /\ s.rev \in Nat
        BY <1>0, <2>4, TicketAssumption DEF Superseded, Older, TicketTypeOK, Floor, Snapshot
      <3>4. \A x \in Unsaved : ~Older(x)' => x.rev >= s.rev
        BY <2>4, <3>2, <3>3 DEF NoWrite, Older
      <3> QED
        BY <2>4, <3>1, <3>4 DEF NoWrite
    <2>5. Writes(s, "ok") \/ (Superseded(s, t) /\ NoWrite)
      <3>1. \A x \in {"pending", "ready"} : drafts' = [drafts EXCEPT ![d].state = x, ![d].snapshot = NoTicket] =>
                                                x = "ready"
        <4> SUFFICES ASSUME drafts' = [drafts EXCEPT ![d].state = "pending", ![d].snapshot = NoTicket]
                     PROVE  FALSE
          OBVIOUS
        <4>1. drafts'[d] = [drafts[d] EXCEPT !.state = "pending", !.snapshot = NoTicket]
          BY <1>0
        <4>2. drafts'[d].state = "pending"
          <5>1. drafts[d] \in Draft
            BY <1>0
          <5> QED
            BY <4>1, <5>1, ThenFields
        <4> QED
          BY <2>2, <4>2
      <3> QED
        BY <3>1 DEF Persist
    <2> QED
      BY <1>5, <2>1, <2>3, <2>4, <2>5
  <1>13. TicketHolds(d)'
    <2>1. drafts'[d].ticket = t /\ drafts'[d].state = state
      BY <1>3, <1>4
    <2> QED
      BY <1>1, <1>12, <2>1 DEF TicketHolds, InStore, InFile, InSnapshots, InForce, memory
  <1> QED
    BY <1>6, <1>7, <1>9, <1>10, <1>11, <1>13 DEF TicketInv

-----------------------------------------------------------------------------
(* A restart reads one of the contents that the file can have: each has the *)
(* tickets that were sent.                                                  *)
LEMMA RestartStep ==
    ASSUME TicketInv, NEW file, file = ticketFile \/ \E v \in ticketFile.may : file = Durable!Settled(v),
           Restart(file)
    PROVE  TicketInv'
  <1>0. TicketTypeOK /\ drafts \in [Drafts -> Draft]
    BY DEF TicketInv, TicketTypeOK
  <1>1. /\ file.vis \in ticketFile.may \cup {ticketFile.vis}
        /\ file.may \subseteq ticketFile.may
        /\ file.vis \in Content \cup {NoTicket} /\ file.may \subseteq Content \cup {NoTicket}
    BY <1>0 DEF Durable!Settled, TicketTypeOK
  <1>2. /\ time' = time /\ revision' = 1 /\ floor' = NoTicket /\ checkpoints' = {}
        /\ ticketFile' = file /\ ticketFaults' = ticketFaults + 1 /\ ticketFaults < MaxTicketFaults
        /\ drafts' = [d \in Drafts |-> Lost(d)]
    BY DEF Restart
  <1>3. /\ Memory' \in Content
        /\ file.vis # NoTicket => issued' = CulledIssued(file.vis)
    <2>1. CASE file.vis = NoTicket
      BY <2>1, EmptyType, RestoresType DEF Restart
    <2>2. CASE file.vis # NoTicket
      <3>1. file.vis \in Content /\ Restores(Culled(file.vis))
        BY <1>1, <2>2 DEF Restart
      <3>2. Memory' \in Content /\ issued' = Culled(file.vis).issued
        BY <3>1, CulledType, RestoresType
      <3> QED
        BY <3>2 DEF Culled
    <2> QED
      BY <2>1, <2>2
  <1>4. ASSUME NEW d \in Drafts
        PROVE  /\ drafts'[d] \in Draft /\ drafts'[d].snapshot = NoTicket
               /\ drafts'[d].state # "new"
               /\ \/ drafts'[d].state = "dropped"
                  \/ drafts'[d] = drafts[d] /\ drafts[d].state = "signed"
    <2>1. drafts'[d] = Lost(d)
      BY <1>2
    <2>2. CASE drafts[d].state = "signed"
      <3>1. drafts[d].snapshot = NoTicket
        BY <2>2 DEF TicketInv, IntentHolds
      <3> QED
        BY <1>0, <2>1, <2>2, <3>1 DEF Lost
    <2>3. CASE drafts[d].state # "signed"
      BY <2>1, <2>3, NoDraftType DEF Lost
    <2> QED
      BY <2>2, <2>3
  <1>5. drafts' \in [Drafts -> Draft]
    BY <1>2, <1>4
  <1>6. TicketTypeOK'
    BY <1>0, <1>1, <1>2, <1>3, <1>5, TicketAssumption DEF TicketTypeOK
  <1>7. Unsaved' = {}
    BY <1>2, <1>4 DEF Unsaved
  <1>8. ASSUME NEW d \in Drafts
        PROVE  IntentHolds(d)' /\ TicketHolds(d)'
    <2>1. IntentHolds(d)'
      BY <1>4 DEF IntentHolds
    <2>2. CASE drafts'[d].state = "dropped"
      BY <2>1, <2>2 DEF TicketHolds
    <2>3. CASE drafts'[d] = drafts[d] /\ drafts[d].state = "signed"
      <3> DEFINE t == drafts[d].ticket
      <3>1. ASSUME t # NoTicket, InForce(t)
            PROVE  /\ \A c \in file.may \cup {file.vis} : c # NoTicket /\ t \in c.issued
                   /\ t \in issued'
        <4>1. \A c \in ticketFile.may \cup {ticketFile.vis} : c # NoTicket /\ t \in c.issued
          BY <2>3, <3>1 DEF TicketInv, TicketHolds, InFile
        <4>2. \A c \in file.may \cup {file.vis} : c # NoTicket /\ t \in c.issued
          BY <1>1, <4>1
        <4>3. t \in CulledIssued(file.vis)
          BY <3>1, <4>2 DEF CulledIssued, InForce
        <4> QED
          BY <1>3, <4>2, <4>3
      <3>2. drafts'[d].ticket = t /\ time' = time /\ ticketFile' = file
        BY <1>2, <2>3
      <3>3. InForce(drafts[d].ticket)' <=> InForce(t)
        BY <3>2 DEF InForce
      <3>4. (InStore(drafts[d].ticket)' /\ InFile(drafts[d].ticket)') \/ t = NoTicket
        BY <3>1, <3>2, <3>3 DEF InStore, InFile
      <3>5. InSnapshots(drafts[d].ticket, {s \in Unsaved : ~Older(s)})'
        BY <1>7 DEF InSnapshots
      <3> QED
        BY <2>1, <3>2, <3>4, <3>5 DEF TicketHolds
    <2> QED
      BY <1>4, <2>1, <2>2, <2>3
  <1> QED
    BY <1>2, <1>4, <1>6, <1>8 DEF TicketInv, FloorHolds

LEMMA TicketStep ==
    ASSUME TicketInv, [TicketNext]_ticketVars
    PROVE  TicketInv'
  <1>1. CASE UNCHANGED ticketVars
    <2>1. TicketTypeOK /\ TicketTypeOK'
      BY <1>1 DEF TicketInv, TicketTypeOK, ticketVars, memory, Memory
    <2>2. StoreKept /\ NewSnapshots /\ revision' >= revision
      BY <1>1, <2>1, StoreGrows, TicketAssumption DEF ticketVars, memory, NewSnapshots, Unsaved, TicketTypeOK
    <2> QED
      BY <1>1, <2>1, <2>2, QuietStep DEF ticketVars, TicketInv
  <1>2. CASE Dies
    BY <1>2, RestartStep DEF Dies
  <1>3. CASE PowerLoss
    BY <1>3, RestartStep DEF PowerLoss
  <1> QED
    BY <1>1, <1>2, <1>3, CullStep, CheckpointStep, TimeStep, DraftStep, PersistStep, PrepareStep, SaveStep
       DEF TicketNext

LEMMA TicketStart ==
    ASSUME TicketInit
    PROVE  TicketInv
  <1>1. TicketTypeOK
    <2>1. Memory \in Content
      BY EmptyType, ContentFields DEF TicketInit, Memory, Empty
    <2>2. ticketFile.vis = NoTicket /\ ticketFile.may = {NoTicket}
      BY DEF TicketInit, Durable!Settled
    <2>3. drafts \in [Drafts -> Draft]
      BY NoDraftType DEF TicketInit
    <2> QED
      BY <2>1, <2>2, <2>3, TicketAssumption DEF TicketInit, TicketTypeOK
  <1>2. \A d \in Drafts : /\ IntentHolds(d) /\ TicketHolds(d)
                          /\ drafts[d].state = "new" => drafts[d] = NoDraft
    BY NoDraftType DEF TicketInit, IntentHolds, TicketHolds
  <1> QED
    BY <1>1, <1>2 DEF TicketInv, FloorHolds, TicketInit

(* Every reachable state is of its type.                                    *)
THEOREM TicketTypes == TicketSpec => []TicketTypeOK
  <1>1. TicketInit => TicketInv
    BY TicketStart
  <1>2. TicketInv => TicketTypeOK
    BY DEF TicketInv
  <1> QED
    BY <1>1, <1>2, TicketStep, PTL DEF TicketSpec

(* A ticket that left in a signed message is kept, in the store and in      *)
(* every content its file can be left with, until its grace period is over  *)
(* (and accepted until it expires), for any number of checkpoints, intents, *)
(* failed writes and restarts.                                              *)
THEOREM SentTicketsHonoured == TicketSpec => []TicketsHonoured
  <1>1. TicketInit => TicketInv
    BY TicketStart
  <1>2. TicketInv => TicketsHonoured
    BY DEF TicketInv, TicketHolds, InStore, InFile, TicketsHonoured, Carries
  <1> QED
    BY <1>1, <1>2, TicketStep, PTL DEF TicketSpec


-----------------------------------------------------------------------------
(* Delivery ratchets, for every length of the ring, interval, clock, kind   *)
(* of fault and bound.                                                      *)
USE RotationIntervalAssumption, RetainAssumption, WallAssumption, FaultAssumption, BoundAssumption,
    NoneAssumption

RingContent == Ring \cup {None, Damaged}

(* Contents whose keys are numbered from the newest of `n` down.            *)
Numbered(n) ==
    {c \in RingContent : c \in Ring => \A i \in 1 .. Len(c) : c[i] <= n + 1 - i}

(* Contents that hold the ratchets in `rs` as far as Retain reaches.        *)
Recent(n) == {r \in Ratchet : n - r < Retain}
Holding(rs, n) == {c \in RingContent : c # Damaged => rs \cap Recent(n) \subseteq Keys(c)}

(* What a stored ring must hold: announced ratchets, and those in memory,   *)
(* which an announce may still name.                                        *)
Wanted == advertised \cup (IF ringTrusted THEN Keys(ring) ELSE {})

(* The control record on disk, and in memory, is not behind the announces.  *)
OrderInv ==
    /\ controlFile.vis \in controlFile.may
    /\ \A c \in controlFile.may \cap Control : c.wire >= emitted.wire
    /\ emitted.wire # Unknown => None \notin controlFile.may
    /\ controlTrusted => control.wire >= emitted.wire
    /\ controlTrusted => up

KeptInv ==
    /\ advertised \subseteq 1 .. made
    /\ ringTrusted => up
    /\ ~ringTrusted => ring = <<>>
    /\ ring \in Numbered(made)
    /\ ringFile.may \subseteq Numbered(made)
    /\ ringFile.vis \in ringFile.may
    /\ readBack # "lost" =>
        /\ ringTrusted => ring \in Holding(advertised, made)
        /\ ringFile.vis \in Holding(Wanted, made)
        /\ readBack = "settled" => ringFile.may \subseteq Holding(Wanted, made)

-----------------------------------------------------------------------------
(* Rings.                                                                   *)

LEMMA RingType ==
    ASSUME NEW r \in Ring
    PROVE  /\ Len(r) \in 0 .. Retain
           /\ \A i \in 1 .. Len(r) : r[i] \in Ratchet
           /\ r # None /\ r # Damaged
           /\ Keys(r) = {r[i] : i \in 1 .. Len(r)}
           /\ Keys(r) \subseteq Ratchet
  <1>1. r \in Seq(Ratchet) /\ Len(r) <= Retain
    BY DEF Ring
  <1>2. Len(r) \in Nat /\ \A i \in 1 .. Len(r) : r[i] \in Ratchet
    BY <1>1, LenProperties, ElementOfSeq
  <1>3. r # None /\ r # Damaged
    BY DEF Ring
  <1> QED
    BY <1>1, <1>2, <1>3 DEF Keys

LEMMA EmptyRing ==
    /\ <<>> \in Ring
    /\ Keys(<<>>) = {}
    /\ \A n : <<>> \in Numbered(n)
  <1>1. <<>> \in Seq(Ratchet) /\ Len(<<>>) = 0
    BY EmptySeq
  <1>2. <<>> \in Ring
    BY <1>1 DEF Ring
  <1>3. Keys(<<>>) = {}
    BY <1>1, <1>2, RingType
  <1> QED
    BY <1>1, <1>2, <1>3 DEF Numbered, RingContent

(* A rotation puts the new ratchet first and drops what is beyond Retain.   *)
LEMMA RotatedElements ==
    ASSUME NEW r \in Ring, made \in 0 .. MaxMade, made < MaxMade
    PROVE  /\ Rotated(r) \in Ring
           /\ Len(Rotated(r)) = IF Len(r) < Retain THEN Len(r) + 1 ELSE Retain
           /\ \A i \in 1 .. Len(Rotated(r)) :
                Rotated(r)[i] = IF i = 1 THEN made + 1 ELSE r[i - 1]
  <1> DEFINE s == <<made + 1>> \o r
             n == IF Len(r) < Retain THEN Len(r) + 1 ELSE Retain
  <1>1. Len(r) \in 0 .. Retain /\ r \in Seq(Ratchet)
    BY RingType DEF Ring
  <1>2. <<made + 1>> \in Seq(Ratchet) /\ Len(<<made + 1>>) = 1 /\ <<made + 1>>[1] = made + 1
    BY DEF Ratchet
  <1>3. /\ s \in Seq(Ratchet) /\ Len(s) = 1 + Len(r)
        /\ \A i \in 1 .. 1 + Len(r) : s[i] = IF i <= 1 THEN <<made + 1>>[i] ELSE r[i - 1]
    BY <1>1, <1>2, ConcatProperties
  <1>4. n \in Nat /\ n >= 1 /\ n <= Retain /\ n <= Len(r) + 1
    BY <1>1
  <1>5. \A i \in 1 .. n : s[i] = IF i = 1 THEN made + 1 ELSE r[i - 1]
    <2> TAKE i \in 1 .. n
    <2>1. i \in 1 .. 1 + Len(r)
      BY <1>1, <1>4
    <2>2. s[i] = IF i <= 1 THEN <<made + 1>>[i] ELSE r[i - 1]
      BY <2>1, <1>3
    <2> QED
      BY <2>1, <2>2, <1>2
  <1>6. \A i \in 1 .. n : s[i] \in Ratchet
    BY <1>3, <1>4, <1>1, ElementOfSeq
  <1> HIDE DEF s, n
  <1>7. /\ SubSeq(s, 1, n) \in Seq(Ratchet)
        /\ Len(SubSeq(s, 1, n)) = n
        /\ \A i \in 1 .. n : SubSeq(s, 1, n)[i] = s[i]
    <2>1. /\ SubSeq(s, 1, n) \in Seq(Ratchet)
          /\ Len(SubSeq(s, 1, n)) = IF 1 <= n THEN n - 1 + 1 ELSE 0
          /\ \A i \in 1 .. n - 1 + 1 : SubSeq(s, 1, n)[i] = s[1 + i - 1]
      BY <1>4, <1>6, SubSeqProperties
    <2> QED
      BY <2>1, <1>4
  <1>8. Rotated(r) = SubSeq(s, 1, n)
    BY DEF Rotated, s, n
  <1> QED
    BY <1>4, <1>5, <1>7, <1>8 DEF Ring, n

LEMMA RotatedNumbered ==
    ASSUME NEW r \in Ring, made \in 0 .. MaxMade, made < MaxMade, r \in Numbered(made)
    PROVE  Rotated(r) \in Numbered(made + 1)
  <1> DEFINE t == Rotated(r)
  <1>1. /\ t \in Ring
        /\ Len(t) = IF Len(r) < Retain THEN Len(r) + 1 ELSE Retain
        /\ \A i \in 1 .. Len(t) : t[i] = IF i = 1 THEN made + 1 ELSE r[i - 1]
    BY RotatedElements
  <1>2. Len(r) \in 0 .. Retain /\ \A i \in 1 .. Len(r) : r[i] \in Ratchet
    BY RingType
  <1> HIDE DEF t
  <1>3. \A i \in 1 .. Len(r) : r[i] <= made + 1 - i
    BY DEF Numbered
  <1>4. \A i \in 1 .. Len(t) : t[i] <= made + 1 + 1 - i
    <2> TAKE i \in 1 .. Len(t)
    <2>1. CASE i = 1
      BY <2>1, <1>1
    <2>2. CASE i # 1
      <3>1. i - 1 \in 1 .. Len(r) /\ t[i] = r[i - 1]
        BY <2>2, <1>1, <1>2
      <3>2. r[i - 1] <= made + 1 - (i - 1) /\ r[i - 1] \in Ratchet
        BY <3>1, <1>2, <1>3
      <3> QED
        BY <3>1, <3>2 DEF Ratchet
    <2> QED
      BY <2>1, <2>2
  <1> QED
    BY <1>1, <1>4 DEF Numbered, RingContent, t

(* ... and holds what the ring held, as far as Retain reaches now.          *)
LEMMA RotatedHolds ==
    ASSUME NEW r \in Ring, made \in 0 .. MaxMade, made < MaxMade,
           NEW rs, r \in Numbered(made), r \in Holding(rs, made), rs \subseteq Ratchet
    PROVE  /\ Rotated(r) \in Numbered(made + 1)
           /\ Rotated(r) \in Holding(rs \cup Keys(r) \cup {made + 1} \cup Keys(Rotated(r)), made + 1)
           /\ Keys(Rotated(r)) \subseteq Keys(r) \cup {made + 1}
  <1> DEFINE t == Rotated(r)
  <1>1. /\ t \in Ring
        /\ Len(t) = IF Len(r) < Retain THEN Len(r) + 1 ELSE Retain
        /\ \A i \in 1 .. Len(t) : t[i] = IF i = 1 THEN made + 1 ELSE r[i - 1]
    BY RotatedElements
  <1>2. /\ Len(r) \in 0 .. Retain /\ \A i \in 1 .. Len(r) : r[i] \in Ratchet
        /\ Keys(r) = {r[i] : i \in 1 .. Len(r)}
        /\ Keys(r) \subseteq Ratchet
    BY RingType
  <1>3. /\ Len(t) \in 1 .. Retain
        /\ Keys(t) = {t[i] : i \in 1 .. Len(t)}
    BY <1>1, <1>2, RingType
  <1> HIDE DEF t
  <1>4. \A i \in 1 .. Len(r) : r[i] <= made + 1 - i
    BY DEF Numbered
  <1>6. made + 1 \in Keys(t)
    BY <1>1, <1>3
  <1>7. ASSUME NEW k \in Keys(r) \cap Recent(made + 1)
        PROVE  k \in Keys(t)
    <2>1. PICK i \in 1 .. Len(r) : k = r[i]
      BY <1>2
    <2>2. k <= made + 1 - i /\ k \in Ratchet
      BY <2>1, <1>2, <1>4
    <2>3. i < Retain
      BY <2>2, <1>7, <2>1, <1>2 DEF Ratchet, Recent
    <2>4. i + 1 \in 1 .. Len(t) /\ t[i + 1] = r[i]
      <3>1. i + 1 \in 1 .. Len(t) /\ i + 1 # 1 /\ i + 1 - 1 = i
        BY SMTT(30), <2>1, <2>3, <1>1, <1>2
      <3>2. t[i + 1] = IF i + 1 = 1 THEN made + 1 ELSE r[i + 1 - 1]
        BY <3>1, <1>1
      <3> QED
        BY <3>1, <3>2
    <2> QED
      BY <2>1, <2>4, <1>3
  <1>8. ASSUME NEW k \in rs \cap Recent(made + 1)
        PROVE  k \in Keys(t)
    <2>1. k \in Recent(made)
      BY <1>8 DEF Ratchet, Recent
    <2>2. k \in Keys(r)
      BY <2>1, RingType DEF Holding
    <2> QED
      BY <2>2, <1>7, <1>8
  <1>9. Keys(t) \subseteq Keys(r) \cup {made + 1}
    <2> SUFFICES ASSUME NEW i \in 1 .. Len(t) PROVE t[i] \in Keys(r) \cup {made + 1}
      BY <1>3
    <2>1. CASE i = 1
      BY <2>1, <1>1
    <2>2. CASE i # 1
      <3>1. i - 1 \in 1 .. Len(r) /\ t[i] = r[i - 1]
        BY <2>2, <1>1, <1>2
      <3> QED
        BY <3>1, <1>2
    <2> QED
      BY <2>1, <2>2
  <1>10. t \in Numbered(made + 1)
    BY RotatedNumbered DEF t
  <1>11. t \in Holding(rs \cup Keys(r) \cup {made + 1} \cup Keys(t), made + 1)
    <2>1. (rs \cup Keys(r) \cup {made + 1} \cup Keys(t)) \cap Recent(made + 1) \subseteq Keys(t)
      BY <1>6, <1>7, <1>8
    <2>2. t \in RingContent
      BY <1>1 DEF RingContent
    <2> QED
      BY <2>1, <2>2 DEF Holding
  <1> QED
    BY <1>9, <1>10, <1>11 DEF t

(* What is numbered and held stays so when ratchets are added and fewer     *)
(* are wanted.                                                              *)
LEMMA Monotonic ==
    ASSUME NEW m \in Nat, NEW n \in Nat, m <= n, NEW rs \in SUBSET Ratchet, NEW ts \in SUBSET rs
    PROVE  Numbered(m) \subseteq Numbered(n) /\ Holding(rs, m) \subseteq Holding(ts, n)
  <1>1. ASSUME NEW c \in Numbered(m)
        PROVE  c \in Numbered(n)
    <2>1. ASSUME c \in Ring, NEW i \in 1 .. Len(c)
          PROVE  c[i] <= n + 1 - i
      <3>1. c[i] <= m + 1 - i /\ c[i] \in Ratchet
        BY <2>1, RingType DEF Numbered
      <3> QED
        BY <3>1, <2>1, RingType DEF Ratchet
    <2> QED
      BY <2>1 DEF Numbered
  <1>2. Recent(n) \subseteq Recent(m)
    BY DEF Recent, Ratchet
  <1>3. Holding(rs, m) \subseteq Holding(ts, n)
    BY <1>2 DEF Holding
  <1> QED
    BY <1>1, <1>3

-----------------------------------------------------------------------------
(* Types.                                                                   *)

LEMMA WrittenType ==
    ASSUME NEW C, NEW f \in File(C), NEW v \in C \cup {None}, NEW o
    PROVE  Written(f, v, o) \in File(C)
  BY DEF Written, Settled, File

LEMMA EndsType ==
    ASSUME NEW or, NEW oc, NEW r \in Ring, NEW c \in Control, NEW rt \in BOOLEAN,
           NEW ct \in BOOLEAN, ratchetFaults \in 0 .. MaxFaults, Ends(or, oc, r, c, rt, ct)
    PROVE  /\ up' \in BOOLEAN /\ ring' \in Ring /\ control' \in Control
           /\ ringTrusted' \in BOOLEAN /\ controlTrusted' \in BOOLEAN
           /\ ratchetFaults' \in 0 .. MaxFaults
  BY EmptyRing DEF Ends, Failures, Control, Fresh

LEMMA GeneratedType ==
    ASSUME NEW or, made \in 0 .. MaxMade, Generated(or),
           or \in {"ok", "uncertain", "torn"} => made < MaxMade
    PROVE  made' \in 0 .. MaxMade
  BY DEF Generated

LEMMA ControlType ==
    ASSUME NEW c \in Control, NEW wall \in Wall
    PROVE  /\ RotationAt(c, wall) \in Control /\ Anchored(c, wall) \in Control
           /\ AnnounceAt(c, wall) \in Control
           /\ RotationAt(c, wall).wire = c.wire /\ Anchored(c, wall).wire = c.wire
           /\ AnnounceAt(c, wall).wire = wall
  BY DEF Control, RotationAt, Anchored, AnnounceAt

LEMMA CurrentType ==
    ASSUME ring \in Ring
    PROVE  Current \in Ratchet \cup {None} /\ (Current # None => Current \in Keys(ring))
  <1>1. CASE ring = <<>>
    BY <1>1 DEF Current
  <1>2. CASE ring # <<>>
    <2>1. Len(ring) \in Nat \ {0}
      BY <1>2, EmptySeq DEF Ring
    <2> QED
      BY <1>2, <2>1, RingType DEF Current
  <1> QED
    BY <1>1, <1>2

LEMMA SettledType ==
    ASSUME NEW C, NEW v \in C \cup {None}
    PROVE  Settled(v) \in File(C)
  BY DEF Settled, File

LEMMA TypeInit == RatchetInit => RatchetTypeOK
  <1> SUFFICES ASSUME RatchetInit PROVE RatchetTypeOK
    OBVIOUS
  <1>1. ringFile \in File(Ring \cup {Damaged}) /\ controlFile \in File(Control \cup {Damaged})
    BY SettledType DEF RatchetInit
  <1>2. ring \in Ring /\ control \in Control
    BY EmptyRing DEF RatchetInit, Control, Fresh
  <1>3. emitted \in [wire: Wall \cup {Unknown}, ratchet: Ratchet \cup {None}]
    BY DEF RatchetInit
  <1>4. made \in 0 .. MaxMade /\ ratchetFaults \in 0 .. MaxFaults
    BY DEF RatchetInit
  <1> QED
    BY <1>1, <1>2, <1>3, <1>4, Zenon DEF RatchetInit, RatchetTypeOK

LEMMA TypeLoad ==
    ASSUME RatchetTypeOK, NEW wall \in Wall, NEW or \in WriteOutcome, NEW oc \in WriteOutcome,
           LoadOrInitialize(wall, or, oc)
    PROVE  RatchetTypeOK'
  <1> DEFINE rt == Loads(ringFile)
             ct == Loads(controlFile)
             stored == IF ringFile.vis \in {None, Damaged} THEN <<>> ELSE ringFile.vis
             known == IF controlFile.vis \in {None, Damaged} THEN Fresh ELSE controlFile.vis
             initializes == stored = <<>> /\ rt /\ ct
             c == IF ~ct THEN known
                  ELSE IF or = "ok" THEN RotationAt(known, wall) ELSE Anchored(known, wall)
  <1>1. stored \in Ring /\ known \in Control
    BY EmptyRing DEF RatchetTypeOK, File, Control, Fresh
  <1>2. c \in Control
    BY <1>1, ControlType
  <1>3. /\ ~up
        /\ Reached(or, initializes) /\ (initializes => made < MaxMade)
        /\ ringFile' = Written(ringFile, Rotated(stored), or)
        /\ controlFile' = Written(controlFile, c, oc)
        /\ Generated(or)
        /\ Ends(or, oc, IF or = "ok" THEN Rotated(stored) ELSE stored, c, rt, ct)
        /\ readBack' \in {"settled", "unsettled", "lost"}
        /\ emitted' = emitted /\ advertised' = advertised
    BY DEF LoadOrInitialize, RatchetTypeOK
  <1>4. rt \in BOOLEAN /\ ct \in BOOLEAN
    BY DEF Loads
  <1> HIDE DEF rt, ct, known, c
  <1>5. or # "none" => made < MaxMade /\ Rotated(stored) \in Ring
    BY <1>1, <1>3, RotatedElements DEF Reached, RatchetTypeOK
  <1>6. ringFile' \in File(Ring \cup {Damaged})
    <2>1. CASE or = "none"
      BY <2>1, <1>3 DEF Written, RatchetTypeOK
    <2>2. CASE or # "none"
      BY <2>2, <1>3, <1>5, WrittenType DEF RatchetTypeOK
    <2> QED
      BY <2>1, <2>2
  <1>7. controlFile' \in File(Control \cup {Damaged})
    BY <1>2, <1>3, WrittenType DEF RatchetTypeOK
  <1>8. (IF or = "ok" THEN Rotated(stored) ELSE stored) \in Ring
    BY <1>1, <1>5
  <1>9. /\ up' \in BOOLEAN /\ ring' \in Ring /\ control' \in Control
        /\ ringTrusted' \in BOOLEAN /\ controlTrusted' \in BOOLEAN
        /\ ratchetFaults' \in 0 .. MaxFaults
    BY <1>2, <1>3, <1>4, <1>8, EndsType DEF RatchetTypeOK
  <1>10. made' \in 0 .. MaxMade
    BY <1>3, <1>5, GeneratedType DEF RatchetTypeOK
  <1> QED
    BY <1>3, <1>6, <1>7, <1>9, <1>10 DEF RatchetTypeOK

LEMMA TypeAnnounce ==
    ASSUME RatchetTypeOK, NEW wall \in Wall, NEW or \in WriteOutcome, NEW oc \in WriteOutcome,
           CreateAnnounce(wall, or, oc)
    PROVE  RatchetTypeOK'
  <1> DEFINE c == AnnounceAt(IF or = "ok" THEN RotationAt(control, wall) ELSE control, wall)
             due == (ring = <<>> \/ RotationDue(wall)) /\ ringTrusted
  <1>1. c \in Control
    BY ControlType DEF RatchetTypeOK
  <1>2. /\ Reached(or, due) /\ (due => made < MaxMade)
        /\ ringFile' = Written(ringFile, Rotated(ring), or)
        /\ controlFile' = Written(controlFile, c, oc)
        /\ Generated(or)
        /\ Ends(or, oc, IF Announced(oc) /\ or = "ok" THEN Rotated(ring) ELSE ring,
                IF Announced(oc) THEN c ELSE control, ringTrusted, controlTrusted)
        /\ emitted' = IF Announced(oc) THEN [wire |-> wall, ratchet |-> AnnouncedRatchet(or)]
                      ELSE emitted
        /\ advertised' = IF Announced(oc) THEN advertised \cup ({AnnouncedRatchet(or)} \ {None})
                         ELSE advertised
        /\ readBack' \in {"settled", "unsettled", "lost"}
    BY DEF CreateAnnounce, RatchetTypeOK
  <1> HIDE DEF c, due
  <1>3. or # "none" => made < MaxMade /\ Rotated(ring) \in Ring
    BY <1>2, RotatedElements DEF Reached, RatchetTypeOK
  <1>4. ringFile' \in File(Ring \cup {Damaged})
    <2>1. CASE or = "none"
      BY <2>1, <1>2 DEF Written, RatchetTypeOK
    <2>2. CASE or # "none"
      BY <2>2, <1>2, <1>3, WrittenType DEF RatchetTypeOK
    <2> QED
      BY <2>1, <2>2
  <1>5. controlFile' \in File(Control \cup {Damaged})
    BY <1>1, <1>2, WrittenType DEF RatchetTypeOK
  <1>6. /\ (IF Announced(oc) /\ or = "ok" THEN Rotated(ring) ELSE ring) \in Ring
        /\ (IF Announced(oc) THEN c ELSE control) \in Control
    BY <1>1, <1>3 DEF RatchetTypeOK
  <1>7. /\ up' \in BOOLEAN /\ ring' \in Ring /\ control' \in Control
        /\ ringTrusted' \in BOOLEAN /\ controlTrusted' \in BOOLEAN
        /\ ratchetFaults' \in 0 .. MaxFaults
    BY <1>2, <1>6, EndsType DEF RatchetTypeOK
  <1>8. made' \in 0 .. MaxMade
    BY <1>2, <1>3, GeneratedType DEF RatchetTypeOK
  <1>9. AnnouncedRatchet(or) \in Ratchet \cup {None}
    BY <1>3, CurrentType DEF AnnouncedRatchet, RatchetTypeOK, Ratchet
  <1>10. /\ emitted' \in [wire: Wall \cup {Unknown}, ratchet: Ratchet \cup {None}]
         /\ advertised' \subseteq Ratchet
    BY <1>2, <1>9 DEF RatchetTypeOK
  <1> QED
    BY <1>2, <1>4, <1>5, <1>7, <1>8, <1>10 DEF RatchetTypeOK

LEMMA TypeSaves ==
    ASSUME RatchetTypeOK, NEW or \in WriteOutcome, NEW oc \in WriteOutcome,
           Save(or, oc) \/ SaveDurable(or, oc)
    PROVE  RatchetTypeOK'
  <1>1. /\ ringFile' = Written(ringFile, ring, or)
        /\ controlFile' = Written(controlFile, control, oc)
        /\ Ends(or, oc, ring, control, ringTrusted, controlTrusted)
        /\ readBack' \in {"settled", "unsettled", "lost"}
        /\ made' = made /\ emitted' = emitted /\ advertised' = advertised
    BY DEF Save, SaveDurable, RatchetTypeOK
  <1>2. ringFile' \in File(Ring \cup {Damaged}) /\ controlFile' \in File(Control \cup {Damaged})
    BY <1>1, WrittenType DEF RatchetTypeOK
  <1>3. /\ up' \in BOOLEAN /\ ring' \in Ring /\ control' \in Control
        /\ ringTrusted' \in BOOLEAN /\ controlTrusted' \in BOOLEAN
        /\ ratchetFaults' \in 0 .. MaxFaults
    BY <1>1, EndsType DEF RatchetTypeOK
  <1> QED
    BY <1>1, <1>2, <1>3 DEF RatchetTypeOK

LEMMA TypeStep == RatchetTypeOK /\ [RatchetNext]_ratchetVars => RatchetTypeOK'
  <1> SUFFICES ASSUME RatchetTypeOK, [RatchetNext]_ratchetVars PROVE RatchetTypeOK'
    OBVIOUS
  <1>1. ASSUME NEW wall \in Wall, NEW or \in WriteOutcome, NEW oc \in WriteOutcome,
               LoadOrInitialize(wall, or, oc) \/ CreateAnnounce(wall, or, oc)
        PROVE  RatchetTypeOK'
    BY <1>1, TypeLoad, TypeAnnounce
  <1>2. ASSUME NEW or \in WriteOutcome, NEW oc \in WriteOutcome, Save(or, oc) \/ SaveDurable(or, oc)
        PROVE  RatchetTypeOK'
    BY <1>2, TypeSaves
  <1>3. CASE Kill
    BY <1>3, EmptyRing
    DEF Kill, Stopped, RatchetTypeOK, Control, Fresh, ratchetFiles, ratchetHistory
  <1>4. ASSUME NEW r \in ringFile.may, NEW c \in controlFile.may, PowerLost(r, c)
        PROVE  RatchetTypeOK'
    <2>1. /\ ringFile' \in File(Ring \cup {Damaged})
          /\ controlFile' \in File(Control \cup {Damaged})
      <3>1. r \in Ring \cup {Damaged} \cup {None} /\ c \in Control \cup {Damaged} \cup {None}
        BY DEF RatchetTypeOK, File
      <3> QED
        BY <1>4, <3>1, SettledType DEF PowerLost
    <2>2. up' \in BOOLEAN /\ ring' \in Ring /\ control' \in Control
      BY <1>4, EmptyRing DEF PowerLost, Stopped, Control, Fresh
    <2>3. ratchetFaults' \in 0 .. MaxFaults
      BY <1>4 DEF PowerLost, RatchetTypeOK
    <2> QED
      BY <1>4, <2>1, <2>2, <2>3 DEF PowerLost, Stopped, RatchetTypeOK
  <1>5. CASE DamageRing
    BY <1>5 DEF DamageRing, RatchetTypeOK, File, Settled, ratchetState, ratchetHistory
  <1>6. CASE DamageControl
    BY <1>6 DEF DamageControl, RatchetTypeOK, File, Settled, ratchetState, ratchetHistory
  <1>7. CASE UNCHANGED ratchetVars
    BY <1>7 DEF ratchetVars, ratchetFiles, ratchetState, ratchetHistory, RatchetTypeOK
  <1> QED
    BY <1>1, <1>2, <1>3, <1>4, <1>5, <1>6, <1>7 DEF RatchetNext

(* The types of the ring, the control record, their files and the history,  *)
(* for rings and clocks of any size and however often writes fail.          *)
THEOREM RatchetTypeCorrect == RatchetSpec => []RatchetTypeOK
  BY TypeInit, TypeStep, PTL DEF RatchetSpec
-----------------------------------------------------------------------------
(* The order of announces.                                                  *)

LEMMA WireType ==
    /\ \A wall \in Wall \cup {Unknown} : wall \in Nat
    /\ \A c \in Control : c.wire \in Nat
    /\ RatchetTypeOK => emitted.wire \in Nat
  <1>1. \A wall \in Wall \cup {Unknown} : wall \in Nat
    BY DEF Unknown
  <1>2. ASSUME NEW c \in Control PROVE c.wire \in Nat
    BY <1>1 DEF Control
  <1>3. ASSUME RatchetTypeOK PROVE emitted.wire \in Nat
    <2>1. emitted.wire \in Wall \cup {Unknown}
      BY <1>3 DEF RatchetTypeOK
    <2> QED
      BY <1>1, <2>1
  <1> QED
    BY <1>1, <1>2, <1>3

(* A write of a control record that is not behind the announces keeps the   *)
(* file so; the announce that follows a whole write is not ahead of it.     *)
LEMMA ControlWritten ==
    ASSUME RatchetTypeOK, OrderInv, NEW c \in Control, NEW oc,
           controlFile' = Written(controlFile, c, oc),
           oc # "none" => c.wire >= emitted.wire,
           \/ emitted' = emitted
           \/ oc = "ok" /\ emitted'.wire = c.wire
    PROVE  /\ controlFile'.vis \in controlFile'.may
           /\ \A d \in controlFile'.may \cap Control : d.wire >= emitted'.wire
           /\ emitted'.wire # Unknown => None \notin controlFile'.may
  <1>1. c.wire \in Nat /\ emitted.wire \in Nat /\ c # None
    BY WireType
  <1>2. CASE oc = "ok"
    <2>1. controlFile'.vis = c /\ controlFile'.may = {c}
      BY <1>2 DEF Written, Settled
    <2> QED
      BY <1>1, <1>2, <2>1
  <1>3. CASE oc \in {"uncertain", "torn"}
    <2>1. controlFile'.vis = c /\ controlFile'.may = controlFile.may \cup {c} /\ emitted' = emitted
      BY <1>3 DEF Written
    <2> QED
      BY <1>1, <1>3, <2>1 DEF OrderInv
  <1>4. CASE oc \notin {"ok", "uncertain", "torn"}
    <2>1. controlFile' = controlFile /\ emitted' = emitted
      BY <1>4 DEF Written
    <2> QED
      BY <2>1 DEF OrderInv
  <1> QED
    BY <1>2, <1>3, <1>4

LEMMA OrderInit == RatchetInit => OrderInv
  BY DEF RatchetInit, OrderInv, Settled, Unknown, Control

LEMMA OrderLoad ==
    ASSUME RatchetTypeOK, OrderInv, NEW wall \in Wall, NEW or \in WriteOutcome, NEW oc \in WriteOutcome,
           LoadOrInitialize(wall, or, oc)
    PROVE  OrderInv'
  <1> DEFINE ct == Loads(controlFile)
             known == IF controlFile.vis \in {None, Damaged} THEN Fresh ELSE controlFile.vis
             c == IF ~ct THEN known
                  ELSE IF or = "ok" THEN RotationAt(known, wall) ELSE Anchored(known, wall)
  <1>1. PICK r, rt :
          /\ oc # "none" => ct
          /\ controlFile' = Written(controlFile, c, oc)
          /\ Ends(or, oc, r, c, rt, ct)
          /\ emitted' = emitted
    BY DEF LoadOrInitialize, Reached
  <1>2. known \in Control
    BY DEF RatchetTypeOK, File, Control, Fresh
  <1>3. c \in Control /\ c.wire = known.wire
    BY <1>2, ControlType
  <1>4. ct => known.wire >= emitted.wire
    <2>1. emitted.wire \in Nat
      BY WireType
    <2>2. CASE controlFile.vis = None
      BY <2>1, <2>2 DEF OrderInv, Fresh, Unknown
    <2>3. CASE controlFile.vis \in Control
      BY <2>3 DEF OrderInv
    <2> QED
      BY <2>2, <2>3 DEF RatchetTypeOK, File, Loads
  <1> HIDE DEF c, known, ct
  <1>5. /\ controlFile'.vis \in controlFile'.may
        /\ \A d \in controlFile'.may \cap Control : d.wire >= emitted'.wire
        /\ emitted'.wire # Unknown => None \notin controlFile'.may
    BY <1>1, <1>3, <1>4, ControlWritten
  <1>6. controlTrusted' => up' /\ ct /\ control' = c
    BY <1>1 DEF Ends
  <1> QED
    BY <1>1, <1>3, <1>4, <1>5, <1>6 DEF OrderInv

LEMMA OrderAnnounce ==
    ASSUME RatchetTypeOK, OrderInv, NEW wall \in Wall, NEW or \in WriteOutcome, NEW oc \in WriteOutcome,
           CreateAnnounce(wall, or, oc)
    PROVE  /\ OrderInv'
           /\ emitted' # emitted => emitted'.wire > emitted.wire
  <1> DEFINE c == AnnounceAt(IF or = "ok" THEN RotationAt(control, wall) ELSE control, wall)
  <1>1. PICK r :
          /\ up /\ controlTrusted /\ wall > control.wire
          /\ controlFile' = Written(controlFile, c, oc)
          /\ Ends(or, oc, r, IF Announced(oc) THEN c ELSE control, ringTrusted, controlTrusted)
          /\ emitted' = IF Announced(oc) THEN [wire |-> wall, ratchet |-> AnnouncedRatchet(or)]
                        ELSE emitted
    BY DEF CreateAnnounce
  <1>2. c \in Control /\ c.wire = wall
    BY ControlType DEF RatchetTypeOK
  <1>3. wall > emitted.wire /\ control.wire >= emitted.wire
    <2>1. control.wire >= emitted.wire
      BY <1>1 DEF OrderInv
    <2>2. wall \in Nat /\ control.wire \in Nat /\ emitted.wire \in Nat
      BY WireType DEF RatchetTypeOK
    <2> QED
      BY <1>1, <2>1, <2>2
  <1> HIDE DEF c
  <1>4. \/ emitted' = emitted
        \/ oc = "ok" /\ emitted'.wire = wall
    BY <1>1 DEF Announced
  <1>5. c.wire >= emitted.wire
    BY <1>2, <1>3, WireType
  <1>6. /\ controlFile'.vis \in controlFile'.may
        /\ \A d \in controlFile'.may \cap Control : d.wire >= emitted'.wire
        /\ emitted'.wire # Unknown => None \notin controlFile'.may
    BY <1>1, <1>2, <1>4, <1>5, ControlWritten
  <1>7. controlTrusted' => up' /\ control' = IF Announced(oc) THEN c ELSE control
    BY <1>1 DEF Ends
  <1>8. controlTrusted' => control'.wire >= emitted'.wire
    BY <1>1, <1>2, <1>3, <1>4, <1>7, WireType DEF Announced
  <1> QED
    BY <1>3, <1>4, <1>6, <1>7, <1>8 DEF OrderInv

LEMMA OrderSaves ==
    ASSUME RatchetTypeOK, OrderInv, NEW or \in WriteOutcome, NEW oc \in WriteOutcome,
           Save(or, oc) \/ SaveDurable(or, oc)
    PROVE  OrderInv'
  <1>1. /\ oc # "none" => controlTrusted
        /\ controlFile' = Written(controlFile, control, oc)
        /\ Ends(or, oc, ring, control, ringTrusted, controlTrusted)
        /\ emitted' = emitted
    BY DEF Save, SaveDurable, Reached
  <1>2. /\ controlFile'.vis \in controlFile'.may
        /\ \A d \in controlFile'.may \cap Control : d.wire >= emitted'.wire
        /\ emitted'.wire # Unknown => None \notin controlFile'.may
    BY <1>1, ControlWritten DEF OrderInv, RatchetTypeOK
  <1>3. controlTrusted' => controlTrusted /\ up' /\ control' = control
    BY <1>1 DEF Ends
  <1> QED
    BY <1>1, <1>2, <1>3 DEF OrderInv

LEMMA OrderStep ==
    RatchetTypeOK /\ OrderInv /\ [RatchetNext]_ratchetVars =>
        /\ OrderInv'
        /\ emitted' # emitted => emitted'.wire > emitted.wire
  <1> SUFFICES ASSUME RatchetTypeOK, OrderInv, [RatchetNext]_ratchetVars
               PROVE  /\ OrderInv'
                      /\ emitted' # emitted => emitted'.wire > emitted.wire
    OBVIOUS
  <1>1. ASSUME NEW wall \in Wall, NEW or \in WriteOutcome, NEW oc \in WriteOutcome,
               LoadOrInitialize(wall, or, oc)
        PROVE  OrderInv' /\ emitted' = emitted
    BY <1>1, OrderLoad DEF LoadOrInitialize
  <1>2. ASSUME NEW wall \in Wall, NEW or \in WriteOutcome, NEW oc \in WriteOutcome,
               CreateAnnounce(wall, or, oc)
        PROVE  OrderInv' /\ (emitted' # emitted => emitted'.wire > emitted.wire)
    BY <1>2, OrderAnnounce
  <1>3. ASSUME NEW or \in WriteOutcome, NEW oc \in WriteOutcome, Save(or, oc) \/ SaveDurable(or, oc)
        PROVE  OrderInv' /\ emitted' = emitted
    BY <1>3, OrderSaves DEF Save, SaveDurable
  <1>4. CASE Kill
    BY <1>4 DEF Kill, Stopped, OrderInv, ratchetFiles, ratchetHistory
  <1>5. ASSUME NEW r \in ringFile.may, NEW c \in controlFile.may, PowerLost(r, c)
        PROVE  OrderInv' /\ emitted' = emitted
    BY <1>5 DEF PowerLost, Stopped, OrderInv, Settled
  <1>6. CASE DamageRing
    BY <1>6 DEF DamageRing, OrderInv, ratchetState, ratchetHistory
  <1>7. CASE DamageControl
    <2>1. controlFile' = Settled(Damaged) /\ ~up /\ Damaged # None /\ Damaged \notin Control
      BY <1>7 DEF DamageControl
    <2>2. UNCHANGED <<up, control, controlTrusted, emitted>>
      BY <1>7 DEF DamageControl, ratchetState, ratchetHistory
    <2> QED
      BY <2>1, <2>2 DEF OrderInv, Settled
  <1>8. CASE UNCHANGED ratchetVars
    BY <1>8 DEF ratchetVars, ratchetFiles, ratchetState, ratchetHistory, OrderInv
  <1> QED
    BY <1>1, <1>2, <1>3, <1>4, <1>5, <1>6, <1>7, <1>8 DEF RatchetNext

(* Announces leave in increasing wire order over restarts, power losses and *)
(* a clock that goes back, whatever write fails.                            *)
THEOREM AnnouncesInOrder == RatchetSpec => AnnouncesOrdered
  <1>1. OrderInv /\ RatchetTypeOK /\ [RatchetNext]_ratchetVars => [emitted' # emitted => emitted'.wire > emitted.wire]_emitted
    BY OrderStep
  <1> QED
    BY <1>1, TypeInit, OrderInit, TypeStep, OrderStep, PTL DEF RatchetSpec, AnnouncesOrdered
-----------------------------------------------------------------------------
(* What the ring and its file hold.                                         *)

LEMMA NumberedKeys ==
    ASSUME NEW n \in Nat, NEW r \in Ring, r \in Numbered(n)
    PROVE  Keys(r) \subseteq 1 .. n
  <1> SUFFICES ASSUME NEW i \in 1 .. Len(r) PROVE r[i] \in 1 .. n
    BY RingType
  <1>1. r[i] <= n + 1 - i /\ r[i] \in Ratchet
    BY RingType DEF Numbered
  <1> QED
    BY <1>1, RingType DEF Ratchet

(* A ring holds its own keys beside what else it holds, and fewer of all.   *)
LEMMA OwnKeys ==
    ASSUME NEW r, NEW rs, NEW n, r \in Holding(rs, n), NEW ts, ts \subseteq rs \cup Keys(r)
    PROVE  r \in Holding(ts, n)
  BY DEF Holding

LEMMA WantedType == RatchetTypeOK => Wanted \subseteq Ratchet /\ advertised \subseteq Ratchet
  BY RingType DEF RatchetTypeOK, Wanted

(* One write of a ring that is numbered and holds what is wanted.           *)
LEMMA RingWritten ==
    ASSUME KeptInv, RatchetTypeOK, made' \in Nat, made <= made', NEW v, NEW or,
           ringFile' = Written(ringFile, v, or),
           or \in {"ok", "uncertain", "torn"} =>
               /\ v \in Numbered(made')
               /\ readBack' # "lost" => v \in Holding(Wanted', made'),
           readBack' # "lost" /\ or # "ok" => ringFile.vis \in Holding(Wanted', made'),
           readBack' = "settled" /\ or # "ok" => ringFile.may \subseteq Holding(Wanted', made')
    PROVE  /\ ringFile'.may \subseteq Numbered(made')
           /\ ringFile'.vis \in ringFile'.may
           /\ readBack' # "lost" => ringFile'.vis \in Holding(Wanted', made')
           /\ readBack' = "settled" => ringFile'.may \subseteq Holding(Wanted', made')
  <1>1. ringFile.may \subseteq Numbered(made')
    <2>1. Numbered(made) \subseteq Numbered(made')
      BY Monotonic DEF RatchetTypeOK
    <2> QED
      BY <2>1 DEF KeptInv
  <1>2. CASE or = "ok"
    <2>1. ringFile'.vis = v /\ ringFile'.may = {v}
      BY <1>2 DEF Written, Settled
    <2> QED
      BY <1>2, <2>1
  <1>3. CASE or \in {"uncertain", "torn"}
    <2>1. ringFile'.vis = v /\ ringFile'.may = ringFile.may \cup {v}
      BY <1>3 DEF Written
    <2> QED
      BY <1>1, <1>3, <2>1
  <1>4. CASE or \notin {"ok", "uncertain", "torn"}
    <2>1. ringFile' = ringFile
      BY <1>4 DEF Written
    <2> QED
      BY <1>1, <1>4, <2>1 DEF KeptInv
  <1> QED
    BY <1>2, <1>3, <1>4

LEMMA KeptInit == RatchetInit => KeptInv
  <1> SUFFICES ASSUME RatchetInit PROVE KeptInv
    OBVIOUS
  <1>1. None \in RingContent /\ None \notin Ring
    BY DEF RingContent
  <1>2. None \in Numbered(0) /\ Wanted = {}
    BY <1>1 DEF RatchetInit, Numbered, Wanted
  <1>3. None \in Holding({}, 0)
    BY <1>1 DEF Holding
  <1> QED
    BY <1>2, <1>3, EmptyRing DEF RatchetInit, KeptInv, Settled

LEMMA KeptLoad ==
    ASSUME RatchetTypeOK, KeptInv, NEW wall \in Wall, NEW or \in WriteOutcome, NEW oc \in WriteOutcome,
           LoadOrInitialize(wall, or, oc)
    PROVE  KeptInv'
  <1> DEFINE rt == Loads(ringFile)
             stored == IF ringFile.vis \in {None, Damaged} THEN <<>> ELSE ringFile.vis
             initializes == stored = <<>> /\ rt /\ Loads(controlFile)
  <1>1. PICK c, ct :
          /\ ~up
          /\ Reached(or, initializes) /\ (initializes => made < MaxMade)
          /\ ringFile' = Written(ringFile, Rotated(stored), or)
          /\ Generated(or)
          /\ Ends(or, oc, IF or = "ok" THEN Rotated(stored) ELSE stored, c, rt, ct)
          /\ readBack' = IF readBack = "lost" THEN "lost"
                         ELSE IF or = "ok" \/ ringFile.may = {ringFile.vis} THEN "settled"
                         ELSE "unsettled"
          /\ advertised' = advertised
    BY DEF LoadOrInitialize
  <1>2. stored \in Ring /\ stored \in Numbered(made) /\ ringFile.vis \in RingContent
    <2>1. ringFile.vis \in RingContent /\ ringFile.vis \in Numbered(made)
      BY DEF RatchetTypeOK, File, RingContent, KeptInv
    <2> QED
      BY <2>1, EmptyRing DEF RingContent
  <1>3. Wanted = advertised /\ advertised \subseteq Ratchet /\ made \in Nat
    BY <1>1, WantedType DEF KeptInv, Wanted, RatchetTypeOK
  <1>4. readBack # "lost" /\ rt => stored \in Holding(advertised, made)
    <2> SUFFICES ASSUME readBack # "lost", rt PROVE stored \in Holding(advertised, made)
      OBVIOUS
    <2>1. ringFile.vis \in Holding(advertised, made)
      BY <1>3 DEF KeptInv
    <2>2. CASE ringFile.vis = None
      <3>1. Keys(None) = {} /\ stored = <<>> /\ None # Damaged
        BY <2>2 DEF Keys
      <3> QED
        BY <1>2, <2>1, <2>2, <3>1, EmptyRing DEF Holding, RingContent
    <2>3. CASE ringFile.vis # None
      BY <2>1, <2>3 DEF Loads
    <2> QED
      BY <2>2, <2>3
  <1>5. ringTrusted' => up' /\ rt
    BY <1>1 DEF Ends
  <1>6. ring' = IF ~up' THEN <<>> ELSE IF or = "ok" THEN Rotated(stored) ELSE stored
    BY <1>1 DEF Ends
  <1>7. ~ringTrusted' => ring' = <<>>
    <2>1. up' /\ ~rt => or = "none" /\ stored = <<>>
      BY <1>1 DEF Reached, Loads
    <2> QED
      BY <1>1, <1>6, <2>1 DEF Ends
  <1>8. CASE or \in {"ok", "uncertain", "torn"}
    <2>1. stored = <<>> /\ rt /\ made < MaxMade /\ made' = made + 1
      BY <1>1, <1>8 DEF Reached, Generated
    <2>2. Rotated(stored) \in Numbered(made') /\ Rotated(stored) \in Ring
      BY <1>2, <2>1, RotatedElements, RotatedNumbered DEF RatchetTypeOK
    <2>3. readBack' # "lost" =>
            /\ Rotated(stored) \in Holding(advertised \cup Keys(Rotated(stored)), made')
            /\ stored \in Holding(advertised, made')
            /\ ringFile.vis \in Holding(advertised, made')
      <3> SUFFICES ASSUME readBack' # "lost"
                   PROVE  /\ Rotated(stored) \in Holding(advertised \cup Keys(Rotated(stored)), made')
                          /\ stored \in Holding(advertised, made')
                          /\ ringFile.vis \in Holding(advertised, made')
        OBVIOUS
      <3>1. readBack # "lost" /\ stored \in Holding(advertised, made)
        BY <1>1, <1>4, <2>1
      <3>2. Rotated(stored) \in
              Holding(advertised \cup Keys(stored) \cup {made + 1} \cup Keys(Rotated(stored)), made + 1)
        BY <1>2, <1>3, <2>1, <3>1, RotatedHolds DEF RatchetTypeOK
      <3>3. Rotated(stored) \in Holding(advertised \cup Keys(Rotated(stored)), made + 1)
        BY <3>2, OwnKeys
      <3>4. ringFile.vis \in Holding(advertised, made)
        BY <1>3, <3>1 DEF KeptInv
      <3>5. Holding(advertised, made) \subseteq Holding(advertised, made + 1)
        BY <1>3, Monotonic
      <3> QED
        BY <2>1, <3>1, <3>3, <3>4, <3>5
    <2>4. ring' \in Numbered(made')
      BY <1>6, <2>1, <2>2, EmptyRing
    <2>5. readBack' # "lost" /\ ringTrusted' => ring' \in Holding(advertised', made')
      <3>1. Rotated(stored) \in Holding(advertised \cup Keys(Rotated(stored)), made') =>
              Rotated(stored) \in Holding(advertised, made')
        BY OwnKeys
      <3> QED
        BY <1>1, <1>5, <1>6, <2>3, <3>1
    <2>6. Wanted' \subseteq advertised \cup Keys(Rotated(stored))
      BY <1>1, <1>5, <1>6, <2>1, EmptyRing DEF Wanted
    <2>7. or # "ok" => Wanted' = advertised
      BY <1>1, <1>5, <1>6, <2>1, EmptyRing DEF Wanted
    <2>8. readBack' # "lost" => Rotated(stored) \in Holding(Wanted', made')
      BY <2>3, <2>6, OwnKeys
    <2>9. /\ ringFile'.may \subseteq Numbered(made')
          /\ ringFile'.vis \in ringFile'.may
          /\ readBack' # "lost" => ringFile'.vis \in Holding(Wanted', made')
          /\ readBack' = "settled" => ringFile'.may \subseteq Holding(Wanted', made')
      <3>1. readBack' = "settled" /\ or # "ok" => ringFile.may = {ringFile.vis}
        BY <1>1
      <3> QED
        BY <1>1, <1>3, <2>1, <2>2, <2>3, <2>7, <2>8, <3>1, RingWritten
    <2>10. advertised' \subseteq 1 .. made'
      BY <1>1, <1>3, <2>1 DEF KeptInv
    <2> QED
      BY <1>5, <1>7, <2>4, <2>5, <2>9, <2>10 DEF KeptInv
  <1>9. CASE or \notin {"ok", "uncertain", "torn"}
    <2>1. made' = made /\ ringFile' = ringFile
      BY <1>1, <1>9 DEF Generated, Written
    <2>2. ring' = IF up' THEN stored ELSE <<>>
      BY <1>6, <1>9
    <2>3. Wanted' \subseteq advertised \cup Keys(stored)
      BY <1>1, <2>2, EmptyRing DEF Wanted
    <2>4. readBack' # "lost" => ringFile.vis \in Holding(Wanted', made)
      <3> SUFFICES ASSUME readBack # "lost" PROVE ringFile.vis \in Holding(Wanted', made)
        BY <1>1
      <3>1. ringFile.vis \in Holding(advertised, made)
        BY <1>3 DEF KeptInv
      <3>2. Wanted' \subseteq advertised \cup Keys(ringFile.vis)
        BY <2>3, EmptyRing
      <3> QED
        BY <3>1, <3>2, OwnKeys
    <2>5. readBack' = "settled" => ringFile.may \subseteq Holding(Wanted', made)
      BY <1>1, <1>9, <2>4
    <2>6. readBack' # "lost" /\ ringTrusted' => ring' \in Holding(advertised', made')
      BY <1>1, <1>4, <1>5, <2>1, <2>2
    <2>7. ring' \in Numbered(made')
      BY <1>2, <2>1, <2>2, EmptyRing
    <2> QED
      BY <1>1, <1>5, <1>7, <2>1, <2>4, <2>5, <2>6, <2>7 DEF KeptInv
  <1> QED
    BY <1>8, <1>9

LEMMA KeptAnnounce ==
    ASSUME RatchetTypeOK, KeptInv, NEW wall \in Wall, NEW or \in WriteOutcome, NEW oc \in WriteOutcome,
           CreateAnnounce(wall, or, oc)
    PROVE  KeptInv'
  <1> DEFINE due == (ring = <<>> \/ RotationDue(wall)) /\ ringTrusted
             whole == Announced(oc) /\ or = "ok"
             stores == or \in {"ok", "uncertain", "torn"}
  <1>1. PICK c :
          /\ up
          /\ Reached(or, due) /\ (due => made < MaxMade)
          /\ ringFile' = Written(ringFile, Rotated(ring), or)
          /\ Generated(or)
          /\ Ends(or, oc, IF whole THEN Rotated(ring) ELSE ring, c, ringTrusted, controlTrusted)
          /\ advertised' = IF Announced(oc) THEN advertised \cup ({AnnouncedRatchet(or)} \ {None})
                           ELSE advertised
          /\ readBack' = IF or = "ok" /\ readBack = "unsettled" THEN "settled" ELSE readBack
    BY DEF CreateAnnounce
  <1>2. /\ ring \in Ring /\ ring \in Numbered(made) /\ ring \in RingContent
        /\ made \in Nat /\ made \in 0 .. MaxMade
        /\ advertised \subseteq Ratchet /\ Wanted \subseteq Ratchet
    BY WantedType DEF RatchetTypeOK, KeptInv, Numbered
  <1>3. /\ ringTrusted' => up' /\ ringTrusted
        /\ ring' = IF ~up' THEN <<>> ELSE IF whole THEN Rotated(ring) ELSE ring
        /\ ~up' => ~ringTrusted'
        /\ up' /\ ringTrusted => ringTrusted'
    BY <1>1 DEF Ends
  <1>4. or # "none" => ringTrusted /\ made < MaxMade
    BY <1>1 DEF Reached
  <1>5. made' = (IF stores THEN made + 1 ELSE made) /\ made' \in Nat /\ made <= made'
    BY <1>1, <1>2 DEF Generated
  <1>6. ~ringTrusted => Current = None /\ ring = <<>>
    BY DEF KeptInv, Current
  <1>7. Current \in Keys(ring) \cup {None}
    BY <1>2, CurrentType
  <1>8. ringTrusted' \/ ring' = <<>>
    BY <1>3, <1>4, <1>6
  <1> HIDE DEF due
  <1>9. stores => /\ Rotated(ring) \in Ring /\ Rotated(ring) \in Numbered(made')
                  /\ made' = made + 1
    <2> SUFFICES ASSUME stores
                 PROVE  Rotated(ring) \in Ring /\ Rotated(ring) \in Numbered(made')
      BY <1>5
    <2>1. made < MaxMade
      BY <1>4
    <2>2. Rotated(ring) \in Ring /\ Rotated(ring) \in Numbered(made + 1)
      BY <1>2, <2>1, RotatedElements, RotatedNumbered
    <2> QED
      BY <1>5, <2>2
  <1>10. readBack' = "lost" <=> readBack = "lost"
    BY <1>1
  <1>11. advertised' \subseteq advertised \cup Keys(ring) \cup (IF or = "ok" THEN {made + 1} ELSE {})
    BY <1>1, <1>7 DEF AnnouncedRatchet
  <1>12. Wanted' \subseteq advertised' \cup Keys(ring) \cup (IF whole THEN Keys(Rotated(ring)) ELSE {})
    BY <1>3, EmptyRing DEF Wanted
  <1>13. advertised \cup Keys(ring) = Wanted
    BY <1>6, EmptyRing DEF Wanted
  <1>14. advertised' \subseteq 1 .. made'
    BY <1>2, <1>5, <1>11, NumberedKeys DEF KeptInv
  <1>15. ring' \in Numbered(made')
    <2>1. Numbered(made) \subseteq Numbered(made')
      BY <1>2, <1>5, Monotonic
    <2> QED
      BY <1>2, <1>3, <1>9, <2>1, EmptyRing
  <1>16. ASSUME readBack # "lost"
         PROVE  /\ ringTrusted' => ring' \in Holding(advertised', made')
                /\ stores => Rotated(ring) \in Holding(Wanted', made')
                /\ or # "ok" => ringFile.vis \in Holding(Wanted', made')
                /\ readBack = "settled" /\ or # "ok" =>
                     ringFile.may \subseteq Holding(Wanted', made')
    <2>1. ringTrusted => ring \in Holding(Wanted, made)
      <3>1. ringTrusted => ring \in Holding(advertised, made)
        BY <1>16 DEF KeptInv
      <3> QED
        BY <1>13, <3>1, OwnKeys
    <2>2. Holding(Wanted, made) \subseteq Holding(Wanted, made')
      BY <1>2, <1>5, Monotonic
    <2>3. stores => Rotated(ring) \in Holding(Wanted \cup {made + 1} \cup Keys(Rotated(ring)), made')
      <3> SUFFICES ASSUME stores
                   PROVE  Rotated(ring) \in Holding(Wanted \cup {made + 1} \cup Keys(Rotated(ring)), made')
        OBVIOUS
      <3>1. made < MaxMade /\ ring \in Holding(Wanted, made) /\ made' = made + 1
        BY <1>4, <1>5, <2>1
      <3>2. Rotated(ring) \in
              Holding(Wanted \cup Keys(ring) \cup {made + 1} \cup Keys(Rotated(ring)), made + 1)
        BY <1>2, <3>1, RotatedHolds
      <3> QED
        BY <3>1, <3>2, OwnKeys
    <2>4. Wanted' \subseteq Wanted \cup {made + 1} \cup Keys(Rotated(ring))
      BY <1>11, <1>12, <1>13
    <2>5. or # "ok" => Wanted' \subseteq Wanted /\ advertised' \subseteq Wanted
      BY <1>11, <1>12, <1>13
    <2>6. stores => Rotated(ring) \in Holding(Wanted', made')
      BY <2>3, <2>4, OwnKeys
    <2>7. /\ or # "ok" => ringFile.vis \in Holding(Wanted', made')
          /\ readBack = "settled" /\ or # "ok" => ringFile.may \subseteq Holding(Wanted', made')
      <3>1. or # "ok" => Holding(Wanted, made') \subseteq Holding(Wanted', made')
        BY <2>5 DEF Holding
      <3> QED
        BY <1>16, <2>2, <3>1 DEF KeptInv
    <2>8. ringTrusted' => ring' \in Holding(advertised', made')
      <3> SUFFICES ASSUME ringTrusted' PROVE ring' \in Holding(advertised', made')
        OBVIOUS
      <3>1. CASE whole
        <4>1. ring' = Rotated(ring) /\ stores
          BY <1>3, <3>1
        <4>2. advertised' \subseteq Wanted \cup {made + 1}
          BY <1>11, <1>13
        <4> QED
          BY <2>3, <4>1, <4>2, OwnKeys
      <3>2. CASE ~whole
        <4>1. ring' = ring /\ ring \in Holding(Wanted, made')
          BY <1>3, <2>1, <2>2, <3>2
        <4>2. advertised' \subseteq Wanted
          BY <1>1, <1>13, <2>5, <3>2
        <4> QED
          BY <4>1, <4>2, OwnKeys
      <3> QED
        BY <3>1, <3>2
    <2> QED
      BY <2>6, <2>7, <2>8
  <1>17. /\ ringFile'.may \subseteq Numbered(made')
         /\ ringFile'.vis \in ringFile'.may
         /\ readBack' # "lost" => ringFile'.vis \in Holding(Wanted', made')
         /\ readBack' = "settled" => ringFile'.may \subseteq Holding(Wanted', made')
    <2>1. readBack' = "settled" /\ or # "ok" => readBack = "settled"
      BY <1>1
    <2> QED
      BY <1>1, <1>5, <1>9, <1>10, <1>16, <2>1, RingWritten
  <1>18. ringTrusted' => up'
    BY <1>3
  <1>19. readBack' # "lost" /\ ringTrusted' => ring' \in Holding(advertised', made')
    BY <1>10, <1>16
  <1> QED
    BY <1>8, <1>14, <1>15, <1>17, <1>18, <1>19 DEF KeptInv

LEMMA KeptSaves ==
    ASSUME RatchetTypeOK, KeptInv, NEW or \in WriteOutcome, NEW oc \in WriteOutcome,
           Save(or, oc) \/ SaveDurable(or, oc)
    PROVE  KeptInv'
  <1>1. /\ or # "none" => ringTrusted
        /\ ringFile' = Written(ringFile, ring, or)
        /\ Ends(or, oc, ring, control, ringTrusted, controlTrusted)
        /\ made' = made /\ advertised' = advertised
        /\ readBack' = IF or = "ok" /\ readBack = "unsettled" THEN "settled" ELSE readBack
    BY DEF Save, SaveDurable, Reached
  <1>2. /\ ringTrusted' => up' /\ ringTrusted
        /\ ring' = IF up' THEN ring ELSE <<>>
        /\ ~ringTrusted' => ~up' \/ ~ringTrusted
    BY <1>1 DEF Ends
  <1>3. ring' \in Numbered(made') /\ (~ringTrusted' => ring' = <<>>)
    BY <1>1, <1>2, EmptyRing DEF KeptInv
  <1>4. Wanted' \subseteq Wanted /\ Wanted \subseteq advertised \cup Keys(ring)
    BY <1>1, <1>2, EmptyRing DEF Wanted
  <1>5. Holding(Wanted, made) \subseteq Holding(Wanted', made')
    BY <1>1, <1>4 DEF Holding
  <1>6. readBack # "lost" /\ ringTrusted => ring \in Holding(Wanted', made')
    <2>1. readBack # "lost" /\ ringTrusted => ring \in Holding(advertised, made)
      BY DEF KeptInv
    <2> QED
      BY <1>1, <1>4, <2>1, OwnKeys
  <1>7. /\ ringFile'.may \subseteq Numbered(made')
        /\ ringFile'.vis \in ringFile'.may
        /\ readBack' # "lost" => ringFile'.vis \in Holding(Wanted', made')
        /\ readBack' = "settled" => ringFile'.may \subseteq Holding(Wanted', made')
    <2>1. made' \in Nat /\ made <= made' /\ ring \in Numbered(made')
      BY <1>1 DEF RatchetTypeOK, KeptInv
    <2>2. readBack' # "lost" => readBack # "lost" /\ ringFile.vis \in Holding(Wanted', made')
      BY <1>1, <1>5 DEF KeptInv
    <2>3. readBack' = "settled" /\ or # "ok" => ringFile.may \subseteq Holding(Wanted', made')
      BY <1>1, <1>5 DEF KeptInv
    <2> QED
      BY <1>1, <1>6, <2>1, <2>2, <2>3, RingWritten
  <1>8. readBack' # "lost" /\ ringTrusted' => ring' \in Holding(advertised', made')
    BY <1>1, <1>2 DEF KeptInv
  <1> QED
    BY <1>1, <1>2, <1>3, <1>7, <1>8 DEF KeptInv

(* The steps that are not the module's: the process is gone, or it never    *)
(* had what was damaged.                                                    *)
LEMMA KeptStopped ==
    ASSUME RatchetTypeOK, KeptInv, Stopped, made' = made, advertised' = advertised,
           ringFile'.may \subseteq ringFile.may, ringFile'.vis \in ringFile'.may,
           readBack' # "lost" => readBack # "lost" /\ ringFile'.vis \in Holding(Wanted, made),
           readBack' = "settled" => readBack = "settled"
    PROVE  KeptInv'
  <1>1. Wanted' \subseteq Wanted
    BY DEF Stopped, Wanted
  <1>2. Holding(Wanted, made) \subseteq Holding(Wanted', made')
    BY <1>1 DEF Holding
  <1> QED
    BY <1>2, EmptyRing DEF KeptInv, Stopped

LEMMA KeptStep == RatchetTypeOK /\ KeptInv /\ [RatchetNext]_ratchetVars => KeptInv'
  <1> SUFFICES ASSUME RatchetTypeOK, KeptInv, [RatchetNext]_ratchetVars PROVE KeptInv'
    OBVIOUS
  <1>1. ASSUME NEW wall \in Wall, NEW or \in WriteOutcome, NEW oc \in WriteOutcome,
               LoadOrInitialize(wall, or, oc) \/ CreateAnnounce(wall, or, oc)
        PROVE  KeptInv'
    BY <1>1, KeptLoad, KeptAnnounce
  <1>2. ASSUME NEW or \in WriteOutcome, NEW oc \in WriteOutcome, Save(or, oc) \/ SaveDurable(or, oc)
        PROVE  KeptInv'
    BY <1>2, KeptSaves
  <1>3. CASE Kill
    <2>1. /\ Stopped /\ made' = made /\ advertised' = advertised
          /\ ringFile' = ringFile /\ readBack' = readBack
      BY <1>3 DEF Kill, ratchetFiles, ratchetHistory
    <2> QED
      BY <2>1, KeptStopped DEF KeptInv
  <1>4. ASSUME NEW r \in ringFile.may, NEW c \in controlFile.may, PowerLost(r, c)
        PROVE  KeptInv'
    <2>1. /\ Stopped /\ made' = made /\ advertised' = advertised
          /\ ringFile'.vis = r /\ ringFile'.may = {r}
          /\ readBack' = IF readBack = "unsettled" THEN "lost" ELSE readBack
      BY <1>4 DEF PowerLost, Settled
    <2>2. readBack' # "lost" => readBack = "settled"
      BY <2>1 DEF RatchetTypeOK
    <2>3. readBack' # "lost" => r \in Holding(Wanted, made)
      BY <2>2 DEF KeptInv
    <2> QED
      BY <2>1, <2>2, <2>3, KeptStopped
  <1>5. CASE DamageRing
    <2>1. /\ ringFile'.vis = Damaged /\ ringFile'.may = {Damaged}
          /\ UNCHANGED <<up, ring, ringTrusted, made, advertised, readBack>>
      BY <1>5 DEF DamageRing, Settled, ratchetState, ratchetHistory
    <2>2. Damaged \in Numbered(made) /\ Damaged \in Holding(Wanted', made)
      BY DEF Numbered, Holding, RingContent
    <2> QED
      BY <2>1, <2>2 DEF KeptInv
  <1>6. CASE DamageControl
    BY <1>6 DEF DamageControl, ratchetState, ratchetHistory, KeptInv, Wanted
  <1>7. CASE UNCHANGED ratchetVars
    BY <1>7 DEF ratchetVars, ratchetFiles, ratchetState, ratchetHistory, KeptInv, Wanted
  <1> QED
    BY <1>1, <1>2, <1>3, <1>4, <1>5, <1>6, <1>7 DEF RatchetNext

LEMMA KeptImplies == RatchetTypeOK /\ KeptInv => AdvertisedKept
  <1> SUFFICES ASSUME RatchetTypeOK, KeptInv, readBack # "lost"
               PROVE  /\ ringTrusted => Holds(ring)
                      /\ ringFile.vis # Damaged => Holds(ringFile.vis)
                      /\ readBack = "settled" =>
                           \A c \in ringFile.may : c # Damaged => Holds(c)
    BY DEF AdvertisedKept
  <1>1. advertised \subseteq Wanted /\ advertised \subseteq Ratchet
    BY WantedType DEF Wanted
  <1>2. ASSUME NEW rs, advertised \subseteq rs, NEW c \in Holding(rs, made), c # Damaged
        PROVE  Holds(c)
    BY <1>1, <1>2 DEF Holding, Holds, Recent
  <1>3. ringTrusted => Holds(ring)
    <2>1. ring # Damaged
      BY RingType DEF RatchetTypeOK
    <2> QED
      BY <1>2, <2>1 DEF KeptInv
  <1>4. ringFile.vis # Damaged => Holds(ringFile.vis)
    BY <1>1, <1>2 DEF KeptInv
  <1>5. readBack = "settled" => \A c \in ringFile.may : c # Damaged => Holds(c)
    BY <1>1, <1>2 DEF KeptInv
  <1> QED
    BY <1>3, <1>4, <1>5

(* Every announced ratchet is in memory and in whatever file a restart or a *)
(* power loss can leave, until Retain newer ones were stored, with the one  *)
(* exception AdvertisedKept names.                                          *)
THEOREM AdvertisedRatchetsKept == RatchetSpec => []AdvertisedKept
  BY TypeInit, KeptInit, TypeStep, KeptStep, KeptImplies, PTL DEF RatchetSpec

-----------------------------------------------------------------------------
(* A rejected file.                                                         *)

(* What a checkpoint could replace was not rejected, and a file that is was *)
(* damaged while no daemon ran: nothing else can be left of it.             *)
RejectInv ==
    /\ ringFile.vis = Damaged => ringFile = Settled(Damaged) /\ ~ringTrusted
    /\ controlFile.vis = Damaged => controlFile = Settled(Damaged) /\ ~controlTrusted
    /\ ringTrusted \/ controlTrusted => up

LEMMA RejectWritten ==
    ASSUME NEW f, NEW v, NEW o,
           f.vis = Damaged => f = Settled(Damaged) /\ o = "none",
           o # "none" => v # Damaged
    PROVE  /\ f.vis = Damaged => Written(f, v, o) = f
           /\ Written(f, v, o).vis = Damaged => f.vis = Damaged
  BY DEF Written, Settled

(* Of every operation: it writes a file only if it was not rejected, and    *)
(* afterwards trusts only such a file.                                      *)
LEMMA RejectOperation ==
    ASSUME RejectInv, NEW or, NEW oc, NEW r, NEW c,
           ringFile' = Written(ringFile, r, or), controlFile' = Written(controlFile, c, oc),
           or # "none" => r # Damaged, oc # "none" => c # Damaged,
           ringFile.vis = Damaged => or = "none", controlFile.vis = Damaged => oc = "none",
           ringTrusted' => ringFile.vis # Damaged, controlTrusted' => controlFile.vis # Damaged,
           ringTrusted' \/ controlTrusted' => up'
    PROVE  /\ RejectInv'
           /\ ringFile.vis = Damaged => ringFile' = ringFile
           /\ controlFile.vis = Damaged => controlFile' = controlFile
  <1>1. /\ ringFile.vis = Damaged => ringFile' = ringFile
        /\ ringFile'.vis = Damaged => ringFile.vis = Damaged
    BY RejectWritten DEF RejectInv
  <1>2. /\ controlFile.vis = Damaged => controlFile' = controlFile
        /\ controlFile'.vis = Damaged => controlFile.vis = Damaged
    BY RejectWritten DEF RejectInv
  <1>. QED
    BY <1>1, <1>2 DEF RejectInv, Settled

LEMMA RejectInit == RatchetInit => RejectInv
  BY NoneAssumption DEF RatchetInit, RejectInv, Settled

(* What a step may not do, as RejectedPreserved says it.                    *)
Untouched == /\ ringFile.vis = Damaged => ringFile' = ringFile
             /\ controlFile.vis = Damaged => controlFile' = controlFile

LEMMA RejectStep ==
    ASSUME RatchetTypeOK, RejectInv, [RatchetNext]_ratchetVars
    PROVE  RejectInv' /\ Untouched
  <1>0. /\ ring \in Ring /\ control \in Control
        /\ \A r \in Ring : r # Damaged /\ \A c \in Control : c # Damaged
        /\ ringTrusted \in BOOLEAN /\ controlTrusted \in BOOLEAN
    BY NoneAssumption DEF RatchetTypeOK
  <1>1. ASSUME NEW wall \in Wall, NEW or \in WriteOutcome, NEW oc \in WriteOutcome,
               LoadOrInitialize(wall, or, oc)
        PROVE  RejectInv' /\ Untouched
    <2>. DEFINE rt == Loads(ringFile)
                ct == Loads(controlFile)
                stored == IF ringFile.vis \in {None, Damaged} THEN <<>> ELSE ringFile.vis
                known == IF controlFile.vis \in {None, Damaged} THEN Fresh ELSE controlFile.vis
                initializes == stored = <<>> /\ rt /\ ct
                c == IF ~ct THEN known
                     ELSE IF or = "ok" THEN RotationAt(known, wall) ELSE Anchored(known, wall)
    <2>1. stored \in Ring /\ known \in Control
      BY EmptyRing DEF RatchetTypeOK, File, Control, Fresh
    <2>2. c \in Control
      BY <2>1, ControlType
    <2>3. /\ Reached(or, initializes) /\ (initializes => made < MaxMade)
          /\ Reached(oc, or \notin Deadly /\ ct /\ (or = "ok" \/ c # controlFile.vis))
          /\ ringFile' = Written(ringFile, Rotated(stored), or)
          /\ controlFile' = Written(controlFile, c, oc)
          /\ ringTrusted' = (up' /\ rt) /\ controlTrusted' = (up' /\ ct)
          /\ up' \in BOOLEAN
      BY <1>1 DEF LoadOrInitialize, Ends
    <2>4. (rt <=> ringFile.vis # Damaged) /\ (ct <=> controlFile.vis # Damaged)
      BY DEF Loads
    <2>. HIDE DEF rt, ct, known, c
    <2>5. /\ or # "none" => Rotated(stored) # Damaged
          /\ ringFile.vis = Damaged => or = "none"
      BY <1>0, <2>1, <2>3, <2>4, RotatedElements DEF Reached, RatchetTypeOK
    <2>6. /\ oc # "none" => c # Damaged
          /\ controlFile.vis = Damaged => oc = "none"
      BY <1>0, <2>2, <2>3, <2>4 DEF Reached
    <2>. QED
      BY <2>3, <2>4, <2>5, <2>6, RejectOperation DEF Untouched
  <1>2. ASSUME NEW wall \in Wall, NEW or \in WriteOutcome, NEW oc \in WriteOutcome,
               CreateAnnounce(wall, or, oc)
        PROVE  RejectInv' /\ Untouched
    <2>. DEFINE c == AnnounceAt(IF or = "ok" THEN RotationAt(control, wall) ELSE control, wall)
                due == (ring = <<>> \/ RotationDue(wall)) /\ ringTrusted
    <2>1. c \in Control
      BY <1>0, ControlType
    <2>2. /\ Reached(or, due) /\ (due => made < MaxMade)
          /\ ringFile' = Written(ringFile, Rotated(ring), or)
          /\ controlFile' = Written(controlFile, c, oc) /\ controlTrusted
          /\ ringTrusted' = (up' /\ ringTrusted) /\ controlTrusted' = (up' /\ controlTrusted)
          /\ up' \in BOOLEAN
      BY <1>2 DEF CreateAnnounce, Ends
    <2>3. /\ or # "none" => Rotated(ring) # Damaged
          /\ ringFile.vis = Damaged => or = "none"
      BY <1>0, <2>2, RotatedElements DEF Reached, RatchetTypeOK, RejectInv
    <2>. HIDE DEF c
    <2>. QED
      BY <1>0, <2>1, <2>2, <2>3, RejectOperation DEF RejectInv, Untouched
  <1>3. ASSUME NEW or \in WriteOutcome, NEW oc \in WriteOutcome, Save(or, oc) \/ SaveDurable(or, oc)
        PROVE  RejectInv' /\ Untouched
    <2>1. /\ ringFile' = Written(ringFile, ring, or)
          /\ controlFile' = Written(controlFile, control, oc)
          /\ or # "none" => ringTrusted
          /\ oc # "none" => controlTrusted
          /\ ringTrusted' = (up' /\ ringTrusted) /\ controlTrusted' = (up' /\ controlTrusted)
          /\ up' \in BOOLEAN
      BY <1>3 DEF Save, SaveDurable, Reached, Ends
    <2>2. /\ ringFile.vis = Damaged => ~ringTrusted
          /\ controlFile.vis = Damaged => ~controlTrusted
          /\ ringTrusted \/ controlTrusted => up
      BY DEF RejectInv
    <2>3. ring # Damaged /\ control # Damaged
      BY <1>0
    <2>. QED
      BY <2>1, <2>2, <2>3, RejectOperation DEF Untouched
  <1>4.ASSUME Kill
        PROVE  RejectInv' /\ Untouched
    BY <1>4 DEF Untouched, Kill, Stopped, RejectInv, ratchetFiles
  <1>5. ASSUME NEW r \in ringFile.may, NEW c \in controlFile.may, PowerLost(r, c)
        PROVE  RejectInv' /\ Untouched
    <2>1. /\ ringFile' = Settled(r) /\ controlFile' = Settled(c)
          /\ ringTrusted' = FALSE /\ controlTrusted' = FALSE
      BY <1>5 DEF PowerLost, Stopped
    <2>2. /\ ringFile.vis = Damaged => ringFile = Settled(Damaged) /\ r = Damaged
          /\ controlFile.vis = Damaged => controlFile = Settled(Damaged) /\ c = Damaged
      BY <1>5 DEF RejectInv, Settled
    <2>3. Untouched
      BY <2>1, <2>2 DEF Untouched
    <2>4. /\ ringFile'.vis = Damaged => ringFile' = Settled(Damaged)
          /\ controlFile'.vis = Damaged => controlFile' = Settled(Damaged)
      BY <2>1 DEF Settled
    <2>. QED
      BY <2>1, <2>3, <2>4 DEF RejectInv
  <1>6.ASSUME DamageRing \/ DamageControl
        PROVE  RejectInv' /\ Untouched
    BY <1>6 DEF Untouched, DamageRing, DamageControl, RejectInv, ratchetState, Settled
  <1>7.ASSUME UNCHANGED ratchetVars
        PROVE  RejectInv' /\ Untouched
    BY <1>7 DEF Untouched, ratchetVars, ratchetFiles, ratchetState, RejectInv
  <1>. QED
    BY <1>1, <1>2, <1>3, <1>4, <1>5, <1>6, <1>7 DEF RatchetNext

(* A file that does not verify stays as it is for the operator, through     *)
(* every load, announce, checkpoint, kill and power loss.                   *)
THEOREM RejectedFilesPreserved == RatchetSpec => RejectedPreserved
  <1>1. RejectInv /\ RatchetTypeOK /\ [RatchetNext]_ratchetVars =>
          [/\ ringFile.vis = Damaged => ringFile' = ringFile
           /\ controlFile.vis = Damaged => controlFile' = controlFile]_ratchetFiles
    BY RejectStep DEF Untouched
  <1>2. RejectInv /\ RatchetTypeOK /\ [RatchetNext]_ratchetVars => RejectInv'
    BY RejectStep
  <1>. QED
    BY <1>1, <1>2, TypeInit, RejectInit, TypeStep, PTL DEF RatchetSpec, RejectedPreserved

-----------------------------------------------------------------------------
(***************************************************************************)
(* The exchange with the node.  The invariant Good of the client's record: *)
(* each lemma says what one helper or one call makes of it.                *)
(***************************************************************************)
(* The part of the record that the invariant looks at; the queue to the     *)
(* transport and what is registered there are left out.                     *)
Fields == {"state", "link", "linkState", "endpoint", "asking", "released", "request", "made", "links",
           "staged", "room", "sends", "cleanups", "destinations", "unheard"}

Kinds == {"Request", "Upload", "Plain", "Keepalive", "Proof", "Final"}
Mail == [type : Kinds, link : Nat, seg : Nat, gen : Nat]

Query ==
    [gen : Requests, sender : BOOLEAN, clock : BOOLEAN, outbound : BOOLEAN,
     response : [total : Nat, next : Nat \ {0}, parts : SUBSET (Nat \X Nat), current : Nat,
                 fetching : BOOLEAN] \cup {NoResponse}]

Shaped(c) ==
    /\ DOMAIN c = Fields
    /\ c.request \in Query \cup {NoRequest}
    /\ c.made \in 0 .. MaxRequests /\ c.link \in Nat /\ c.links \in Nat
    /\ c.sends \subseteq Mail

(* The answer so far.                                                       *)
InTurn(c) ==
    Answering(c) =>
        /\ c.request.response.parts = {c.request.gen} \X (1 .. c.request.response.next - 1)
        /\ c.request.response.current \in {0, c.request.response.next}
        /\ c.request.response.next <= c.request.response.total + 1
        /\ c.request.response.current # 0 => c.request.response.next <= c.request.response.total
        /\ c.request.response.total = TotalSegments[c.request.gen]
        /\ c.request.response.fetching => c.request.response.current = c.request.response.next

(* A proof on its way is of the segment that waits for it, or of a request  *)
(* that is over.                                                            *)
Proving(c) ==
    \A m \in c.sends :
        /\ m.type = "Request" => m.gen # 0
        /\ m.type = "Proof" =>
             /\ m.gen \in 1 .. c.made
             /\ Asking(c) /\ m.gen = c.request.gen =>
                  /\ Answering(c) /\ m.link = c.link
                  /\ c.request.response.current = m.seg /\ c.request.response.next = m.seg
                  /\ ~c.request.response.fetching

Counted(c) == Asking(c) => c.request.gen <= c.made

(* What the wait for an answer runs on.                                     *)
Timing(c) ==
    Asking(c) =>
        /\ ~c.request.sender => c.request.clock \/ Answering(c)
        /\ c.state # "Failed" =>
             \/ c.request.clock \/ c.request.outbound \/ Answering(c)
             \/ Message(c, "Request", 0) \in c.sends

(* Which states have a request, and when the endpoint is being bound.       *)
Phases(c) ==
    /\ c.state \in {"Requested", "Receiving"} => Asking(c)
    /\ c.state \in {"Idle", "LinkEstablishing"} => ~Asking(c)
    /\ c.endpoint = "binding" => ~Asking(c) /\ c.state \in {"LinkEstablishing", "Failed"}

Sound(c) == Shaped(c) /\ InTurn(c) /\ Proving(c) /\ Counted(c) /\ Phases(c)
Good(c) == Sound(c) /\ Timing(c)

(* Nothing differs that the invariant looks at.                             *)
Same(c, d) ==
    /\ DOMAIN d = DOMAIN c
    /\ d.state = c.state /\ d.link = c.link /\ d.endpoint = c.endpoint
    /\ d.request = c.request /\ d.made = c.made /\ d.links = c.links /\ d.sends = c.sends

LEMMA SameGood ==
    ASSUME NEW c, NEW d, Good(c), Same(c, d) PROVE Good(d)
  <1>1. Asking(d) <=> Asking(c)
    BY DEF Same, Asking
  <1>2. Answering(d) <=> Answering(c)
    BY <1>1 DEF Same, Answering
  <1>3. Message(d, "Request", 0) = Message(c, "Request", 0)
    BY DEF Same, Message
  <1> QED BY <1>1, <1>2, <1>3 DEF Good, Sound, Same, Shaped, InTurn, Proving, Counted, Timing, Phases

LEMMA QueuedSame ==
    ASSUME NEW c, DOMAIN c = Fields, NEW m PROVE Same(c, Queued(c, m))
  BY DEF Queued, Same, Fields

LEMMA FlushedSame ==
    ASSUME NEW c, DOMAIN c = Fields PROVE Same(c, Flushed(c))
  BY DEF Flushed, Same, Fields

LEMMA RoomSame ==
    ASSUME NEW c, DOMAIN c = Fields, NEW r PROVE Same(c, [c EXCEPT !.room = r])
  BY DEF Same, Fields

LEMMA FailsAre ==
    ASSUME NEW c, DOMAIN c = Fields
    PROVE  LET d == Fails(c)
           IN  /\ DOMAIN d = Fields /\ d.state = "Failed" /\ d.request = c.request
               /\ d.made = c.made /\ d.link = c.link /\ d.links = c.links /\ d.sends = c.sends
               /\ d.endpoint = c.endpoint /\ d.linkState = c.linkState
  BY DEF Fails, Fields

(* A failure only asks that a request without its sender has its answer.    *)
Sent(c) == Asking(c) => (~c.request.sender => c.request.clock \/ Answering(c))

LEMMA FailsGood ==
    ASSUME NEW c, Sound(c), Sent(c) PROVE Good(Fails(c)) /\ Fails(c).state = "Failed"
  <1> DEFINE d == Fails(c)
  <1>1. /\ DOMAIN d = Fields /\ d.state = "Failed" /\ d.request = c.request /\ d.made = c.made
        /\ d.link = c.link /\ d.links = c.links /\ d.sends = c.sends /\ d.endpoint = c.endpoint
    BY FailsAre DEF Sound, Shaped
  <1>2. Asking(d) <=> Asking(c)
    BY <1>1 DEF Asking
  <1>3. Answering(d) <=> Answering(c)
    BY <1>1, <1>2 DEF Answering
  <1> HIDE DEF d
  <1> QED
    BY <1>1, <1>2, <1>3 DEF Good, Sound, Shaped, InTurn, Proving, Counted, Timing, Phases, Sent, d

LEMMA GoodSent == ASSUME NEW c, Good(c) PROVE Sent(c)
  BY DEF Good, Timing, Sent

(* A message put with those whose results are awaited.                      *)
Adds(c, d, m) ==
    /\ DOMAIN d = Fields
    /\ d.state = c.state /\ d.link = c.link /\ d.endpoint = c.endpoint
    /\ d.request = c.request /\ d.made = c.made /\ d.links = c.links /\ d.sends = c.sends \cup {m}

LEMMA AddsSound ==
    ASSUME NEW c, Sound(c), NEW d, NEW m, Adds(c, d, m),
           m \in Mail, m.type # "Proof", m.type = "Request" => m.gen # 0
    PROVE  Sound(d) /\ (Timing(c) => Timing(d)) /\ (Sent(c) => Sent(d))
  <1>1. Asking(d) <=> Asking(c)
    BY DEF Adds, Asking
  <1>2. Answering(d) <=> Answering(c)
    BY <1>1 DEF Adds, Answering
  <1>3. Message(d, "Request", 0) = Message(c, "Request", 0)
    BY DEF Adds, Message
  <1> QED
    BY <1>1, <1>2, <1>3 DEF Sound, Adds, Shaped, InTurn, Proving, Counted, Timing, Phases, Sent

LEMMA SendsAre ==
    ASSUME NEW c, DOMAIN c = Fields, NEW type, NEW seg
    PROVE  \/ Adds(c, Sends(c, type, seg), Message(c, type, seg))
           \/ Sends(c, type, seg) = Fails(c)
  <1> DEFINE m == Message(c, type, seg)
             e == Queued(c, m)
             d == [e EXCEPT !.sends = c.sends \cup {m}]
  <1>1. Same(c, e)
    BY QueuedSame
  <1>2. Sends(c, type, seg) = d \/ Sends(c, type, seg) = Fails(c)
    BY DEF Sends
  <1> HIDE DEF e
  <1>3. Adds(c, d, m)
    BY <1>1 DEF Adds, Same, Fields
  <1> QED BY <1>2, <1>3

LEMMA MessageTyped ==
    ASSUME NEW c, Shaped(c), NEW type \in Kinds, NEW seg \in Nat
    PROVE  /\ Message(c, type, seg) \in Mail
           /\ Message(c, type, seg).type = type
  BY DEF Message, Shaped, Query, NoRequest, Requests, Mail

LEMMA SendsGood ==
    ASSUME NEW c, Good(c), NEW type \in Kinds, NEW seg \in Nat, type \notin {"Proof", "Request"}
    PROVE  LET d == Sends(c, type, seg)
           IN  /\ Good(d) /\ d.request = c.request /\ d.endpoint = c.endpoint /\ d.link = c.link
               /\ d.made = c.made /\ d.state \in {c.state, "Failed"}
  <1>1. DOMAIN c = Fields
    BY DEF Good, Sound, Shaped
  <1>a. /\ Message(c, type, seg) \in Mail
        /\ Message(c, type, seg).type = type
    BY MessageTyped DEF Good, Sound
  <1>2. CASE Adds(c, Sends(c, type, seg), Message(c, type, seg))
    <2>1. Good(Sends(c, type, seg))
      BY <1>2, <1>a, AddsSound DEF Good
    <2> QED BY <1>2, <2>1 DEF Adds
  <1>3. CASE Sends(c, type, seg) = Fails(c)
    <2>1. Good(Fails(c))
      BY FailsGood, GoodSent DEF Good
    <2> QED BY <1>1, <1>3, <2>1, FailsAre
  <1> QED BY <1>1, <1>2, <1>3, SendsAre

LEMMA SendsFinalGood ==
    ASSUME NEW c, Good(c)
    PROVE  LET d == SendsFinal(c)
           IN  Good(d) /\ Adds(c, d, Message(c, "Final", 0))
  <1> DEFINE m == Message(c, "Final", 0)
             e == Queued(c, m)
             d == [e EXCEPT !.sends = c.sends \cup {m}, !.released = TRUE]
  <1>1. DOMAIN c = Fields
    BY DEF Good, Sound, Shaped
  <1>2. Same(c, e)
    BY <1>1, QueuedSame
  <1>3. SendsFinal(c) = d
    BY DEF SendsFinal
  <1>4. m \in Mail /\ m.type = "Final"
    BY MessageTyped DEF Good, Sound, Kinds
  <1> HIDE DEF e
  <1>5. Adds(c, d, m)
    BY <1>1, <1>2 DEF Adds, Same, Fields
  <1> HIDE DEF d, m
  <1>6. Good(d)
    BY <1>4, <1>5, AddsSound DEF Good
  <1> QED BY <1>3, <1>5, <1>6 DEF m

LEMMA UnbindsSame ==
    ASSUME NEW c, DOMAIN c = Fields, NEW l PROVE Same(c, Unbinds(c, l))
  <1> DEFINE e == Queued(c, [type |-> "Unbind", link |-> l, seg |-> 0, gen |-> 0])
  <1>1. Same(c, e)
    BY QueuedSame
  <1>2. Unbinds(c, l) = [e EXCEPT !.cleanups = c.cleanups \cup {l}]
        \/ Unbinds(c, l) = [c EXCEPT !.unheard = c.unheard \cup {l}]
    BY DEF Unbinds
  <1> HIDE DEF e
  <1> QED BY <1>1, <1>2 DEF Same, Fields

(* What cleanup leaves.                                                     *)
Bare(c, d) ==
    /\ DOMAIN d = Fields /\ d.request = NoRequest /\ d.link = 0
    /\ d.endpoint = "none" /\ d.made = c.made /\ d.links = c.links
    /\ \A m \in d.sends : m \in c.sends \/ m = Message(c, "Final", 0)

LEMMA CleanedBare ==
    ASSUME NEW c, DOMAIN c = Fields 
    PROVE  Bare(c, Cleaned(c)) /\ Cleaned(c).state = c.state
  <1> DEFINE keeps(m) == m.type # "LinkRequest" /\ ~(m.type \in EndpointTypes /\ m.link = c.link)
             d == [c EXCEPT !.asking = FALSE, !.request = NoRequest,
                            !.staged = SelectSeq(c.staged, keeps)]
             f == SendsFinal(d)
             g == Unbinds(d, c.link)
  <1>1. /\ DOMAIN d = Fields /\ d.request = NoRequest /\ d.state = c.state /\ d.made = c.made
        /\ d.links = c.links /\ d.sends = c.sends /\ d.link = c.link
    BY DEF Fields
  <1>2. PICK e : /\ e \in {d, f, g}
                 /\ Cleaned(c) = [e EXCEPT !.link = 0, !.linkState = "none", !.endpoint = "none",
                                           !.released = FALSE]
    BY DEF Cleaned
  <1> HIDE DEF d
  <1>3. Same(d, g)
    BY <1>1, UnbindsSame
  <1>4. Message(d, "Final", 0) = Message(c, "Final", 0)
    BY <1>1 DEF Message, EndpointTypes, SenderTypes
  <1>5. /\ DOMAIN f = Fields /\ f.request = d.request /\ f.state = d.state /\ f.made = d.made
        /\ f.links = d.links /\ f.sends = d.sends \cup {Message(d, "Final", 0)}
    <2> DEFINE h == Queued(d, Message(d, "Final", 0))
    <2>1. Same(d, h)
      BY <1>1, QueuedSame
    <2>2. f = [h EXCEPT !.sends = d.sends \cup {Message(d, "Final", 0)}, !.released = TRUE]
      BY DEF SendsFinal
    <2> HIDE DEF h, f
    <2> QED BY <1>1, <2>1, <2>2 DEF Same, Fields
  <1> HIDE DEF f, g
  <1>6. /\ DOMAIN e = Fields /\ e.request = NoRequest /\ e.state = c.state /\ e.made = c.made
        /\ e.links = c.links /\ \A m \in e.sends : m \in c.sends \/ m = Message(c, "Final", 0)
    BY <1>1, <1>2, <1>3, <1>4, <1>5 DEF Same
  <1> QED BY <1>2, <1>6 DEF Bare, Fields

LEMMA BareGood ==
    ASSUME NEW c, Sound(c), NEW d, Bare(c, d), d.state \notin {"Requested", "Receiving"}
    PROVE  Good(d)
  <1>1. ~Asking(d) /\ ~Answering(d)
    BY DEF Asking, Answering, Bare
  <1>2. /\ Message(c, "Final", 0) \in Mail
        /\ Message(c, "Final", 0).type = "Final"
    BY MessageTyped DEF Sound, Kinds
  <1>3. d.sends \subseteq Mail
    BY <1>2 DEF Bare, Sound, Shaped
  <1>4. Proving(d)
    BY <1>1, <1>2 DEF Bare, Sound, Proving
  <1> QED BY <1>1, <1>3, <1>4 DEF Good, Sound, Bare, Shaped, InTurn, Counted, Timing, Phases

-----------------------------------------------------------------------------
(* Requests.                                                                *)

LEMMA RetiredAre ==
    ASSUME NEW c, DOMAIN c = Fields, c.request \in Query \cup {NoRequest}
    PROVE  LET d == Retired(c)
           IN  /\ DOMAIN d = Fields /\ d.state = c.state /\ d.link = c.link
               /\ d.linkState = c.linkState /\ d.endpoint = c.endpoint /\ d.made = c.made
               /\ d.links = c.links /\ d.sends = c.sends /\ (Asking(d) <=> Asking(c))
               /\ Asking(c) =>
                    /\ d.request \in Query /\ d.request.gen = c.request.gen
                    /\ d.request.response = c.request.response
                    /\ d.request.clock = c.request.clock /\ ~d.request.sender
  <1>1. CASE ~Asking(c)
    BY <1>1 DEF Retired
  <1>2. CASE Asking(c)
    <2> DEFINE keeps(m) == ~(m.type \in SenderTypes /\ m.link = c.link)
               q == [c.request EXCEPT !.sender = FALSE, !.outbound = FALSE]
               d == [c EXCEPT !.request = q, !.staged = SelectSeq(c.staged, keeps)]
    <2>1. Retired(c) = d
      BY <1>2 DEF Retired
    <2>2. c.request \in Query
      BY <1>2 DEF Asking
    <2>3. /\ q \in Query /\ q.gen = c.request.gen /\ q.response = c.request.response
          /\ q.clock = c.request.clock /\ ~q.sender
      BY <2>2 DEF Query
    <2>4. q # NoRequest
      BY <2>3, <2>2 DEF Query, NoRequest, Requests
    <2> HIDE DEF q
    <2>5. /\ DOMAIN d = Fields /\ d.state = c.state /\ d.link = c.link
          /\ d.linkState = c.linkState /\ d.endpoint = c.endpoint /\ d.made = c.made
          /\ d.links = c.links /\ d.sends = c.sends /\ d.request = q
      BY DEF Fields
    <2> QED BY <1>2, <2>1, <2>3, <2>4, <2>5 DEF Asking
  <1> QED BY <1>1, <1>2

(* The client between two requests.                                         *)
Ready(c) == Shaped(c) /\ Proving(c) /\ c.request = NoRequest /\ c.endpoint # "binding"

LEMMA FinishedReady ==
    ASSUME NEW c, Good(c), c.endpoint # "binding"
    PROVE  Ready(Finished(c)) /\ Finished(c).made = c.made
  <1> DEFINE d == Retired(c)
             e == [d EXCEPT !.request = NoRequest]
  <1>1. /\ DOMAIN d = Fields /\ d.link = c.link /\ d.endpoint = c.endpoint /\ d.made = c.made
        /\ d.links = c.links /\ d.sends = c.sends
    BY RetiredAre DEF Good, Sound, Shaped
  <1>2. Finished(c) = e
    BY DEF Finished
  <1> HIDE DEF d
  <1>3. /\ DOMAIN e = Fields /\ e.link = c.link /\ e.endpoint = c.endpoint /\ e.made = c.made
        /\ e.links = c.links /\ e.sends = c.sends /\ e.request = NoRequest
    BY <1>1 DEF Fields
  <1> HIDE DEF e
  <1> QED BY <1>2, <1>3 DEF Good, Sound, Shaped, Proving, Ready, Asking

LEMMA ReadyGood ==
    ASSUME NEW c, Ready(c), NEW d, DOMAIN d = Fields, d.link = c.link, d.endpoint = c.endpoint,
           d.made = c.made, d.links = c.links, d.sends = c.sends, d.request = c.request,
           d.state \notin {"Requested", "Receiving"}
    PROVE  Good(d)
  <1>1. ~Asking(d) /\ ~Answering(d) /\ ~Asking(c)
    BY DEF Asking, Answering, Ready
  <1> QED
    BY <1>1 DEF Good, Sound, Ready, Shaped, InTurn, Proving, Counted, Timing, Phases

LEMMA ReadyFails == ASSUME NEW c, Ready(c) PROVE Good(Fails(c))
  BY FailsAre, ReadyGood DEF Ready, Shaped

LEMMA Readied ==
    ASSUME NEW c, Good(c), ~Asking(c), c.endpoint # "binding" PROVE Ready(c)
  BY DEF Good, Sound, Ready, Asking

LEMMA RequestedGood ==
    ASSUME NEW c, Ready(c) \/ (Good(c) /\ c.endpoint # "binding"), NEW form \in Forms,
           MayAsk(c, form)
    PROVE  Good(Requested(c, form))
  <1> DEFINE q == [gen |-> c.made + 1, sender |-> TRUE, clock |-> FALSE,
                   outbound |-> form = "resource", response |-> NoResponse]
             d == [c EXCEPT !.state = "Requested", !.made = c.made + 1, !.request = q]
  <1>1. CASE Requested(c, form) = Fails(c)
    BY <1>1, ReadyFails, FailsGood, GoodSent DEF Good
  <1>2. CASE Requested(c, form) # Fails(c)
    <2>1. /\ ~Asking(c) /\ form \in {"packet", "resource"}
          /\ Requested(c, form) = Sends(d, IF form = "packet" THEN "Request" ELSE "Upload", 0)
      BY <1>2 DEF Requested, Forms
    <2>2. Ready(c)
      BY <2>1, Readied
    <2>3. c.made \in Nat /\ c.made + 1 \in Requests /\ c.request = NoRequest
      BY <2>1, <2>2, ExchangeAssumption DEF Ready, Shaped, MayAsk, Requests
    <2>4. q \in Query /\ q # NoRequest
      BY <2>3 DEF Query, NoRequest, Requests
    <2>5. q.gen = c.made + 1 /\ q.sender /\ q.response = NoResponse
          /\ q.outbound = (form = "resource")
      OBVIOUS
    <2> HIDE DEF q
    <2>6. /\ DOMAIN d = Fields /\ d.state = "Requested" /\ d.made = c.made + 1 /\ d.request = q
          /\ d.link = c.link /\ d.links = c.links /\ d.sends = c.sends /\ d.endpoint = c.endpoint
      BY <2>2 DEF Ready, Shaped, Fields
    <2>7. Asking(d) /\ ~Answering(d)
      BY <2>4, <2>5, <2>6 DEF Asking, Answering
    <2> HIDE DEF d
    <2>8. Sound(d) /\ Sent(d)
      <3>1. Shaped(d)
        BY <2>2, <2>3, <2>4, <2>6, ExchangeAssumption DEF Ready, Shaped, Requests
      <3>2. Proving(d)
        BY <2>2, <2>3, <2>5, <2>6 DEF Ready, Proving
      <3> QED
        BY <3>1, <3>2, <2>2, <2>3, <2>5, <2>6, <2>7 DEF Sound, Ready, InTurn, Counted, Phases, Sent
    <2>9. CASE form = "resource"
      <3>1. Good(d)
        BY <2>5, <2>6, <2>8, <2>9 DEF Good, Timing, Sent
      <3> QED BY <2>1, <2>9, <3>1, SendsGood DEF Kinds
    <2>10. CASE form = "packet"
      <3> DEFINE m == Message(d, "Request", 0)
                 e == Sends(d, "Request", 0)
      <3>1. m \in Mail /\ m.type = "Request"
        BY <2>8, MessageTyped DEF Sound, Kinds
      <3>2. CASE Adds(d, e, m)
        <4>0. m.gen # 0
          BY <2>3, <2>5, <2>6 DEF Message, EndpointTypes, SenderTypes
        <4>1. Sound(e) /\ Sent(e)
          BY <2>8, <3>1, <3>2, <4>0, AddsSound
        <4>2. Message(e, "Request", 0) = m /\ m \in e.sends
          BY <3>2 DEF Adds, Message
        <4> HIDE DEF e, m
        <4>3. Timing(e)
          BY <4>1, <4>2 DEF Timing, Sent
        <4> QED BY <2>1, <2>10, <4>1, <4>3 DEF Good, e
      <3>3. CASE e = Fails(d)
        BY <2>1, <2>8, <2>10, <3>3, FailsGood
      <3> QED BY <2>6, <3>2, <3>3, SendsAre
    <2> QED BY <2>1, <2>9, <2>10
  <1> QED BY <1>1, <1>2

LEMMA ContinuesGood ==
    ASSUME NEW c, Ready(c) \/ (Good(c) /\ c.endpoint # "binding" /\ c.state # "Failed"),
           NEW next \in Forms \cup {"await", "done"}, MayAsk(c, next)
    PROVE  Good(Continues(c, next))
  <1>1. CASE next \in Forms
    <2>1. Continues(c, next) = Requested(c, next)
      BY <1>1 DEF Continues, Forms
    <2>2. Ready(c) \/ (Good(c) /\ c.endpoint # "binding")
      OBVIOUS
    <2>3. Good(Requested(c, next))
      BY <1>1, <2>2, RequestedGood
    <2> QED BY <2>1, <2>3
  <1>2. CASE next \notin Forms
    <2> DEFINE s == IF next = "await" THEN "AwaitingAdmission" ELSE "Complete"
               d == [c EXCEPT !.state = s]
    <2>1. Continues(c, next) = d
      BY <1>2 DEF Continues
    <2>2. s \in {"AwaitingAdmission", "Complete"}
      OBVIOUS
    <2>3. Shaped(c)
      BY DEF Ready, Good, Sound
    <2> HIDE DEF s
    <2>4. /\ DOMAIN d = Fields /\ d.state = s /\ d.made = c.made /\ d.request = c.request
          /\ d.link = c.link /\ d.links = c.links /\ d.sends = c.sends /\ d.endpoint = c.endpoint
      BY <2>3 DEF Shaped, Fields
    <2> HIDE DEF d
    <2>5. CASE Ready(c)
      BY <2>1, <2>2, <2>4, <2>5, ReadyGood
    <2>6. CASE Good(c) /\ c.endpoint # "binding" /\ c.state # "Failed"
      <3>1. (Asking(d) <=> Asking(c)) /\ (Answering(d) <=> Answering(c))
        BY <2>4 DEF Asking, Answering
      <3>2. Message(d, "Request", 0) = Message(c, "Request", 0)
        BY <2>4 DEF Message
      <3> QED
        BY <2>1, <2>2, <2>4, <2>6, <3>1, <3>2
        DEF Good, Sound, Shaped, InTurn, Proving, Counted, Timing, Phases
    <2> QED BY <2>5, <2>6
  <1> QED BY <1>1, <1>2

LEMMA AnsweredGood ==
    ASSUME NEW c, Good(c), c.endpoint # "binding", NEW next \in Answers, MayAsk(c, next)
    PROVE  Good(Answered(c, next))
  <1>1. CASE next = "unreadable"
    BY <1>1, FailsGood, GoodSent DEF Answered, Good
  <1>2. CASE next # "unreadable"
    <2>1. Ready(Finished(c)) /\ MayAsk(Finished(c), next)
      BY FinishedReady DEF MayAsk
    <2>2. Good(Continues(Finished(c), next))
      BY <1>2, <2>1, ContinuesGood DEF Answers
    <2> QED BY <1>2, <2>2 DEF Answered
  <1> QED BY <1>1, <1>2

LEMMA AwaitedGood ==
    ASSUME NEW c, Sound(c), Asking(c) PROVE Good(Awaited(c))
  <1> DEFINE q == [c.request EXCEPT !.clock = TRUE]
             d == [c EXCEPT !.request = q]
  <1>1. c.request \in Query
    BY DEF Sound, Shaped, Asking
  <1>2. /\ q \in Query /\ q.gen = c.request.gen /\ q.response = c.request.response /\ q.clock
    BY <1>1 DEF Query
  <1>3. q # NoRequest
    BY <1>2, <1>1 DEF Query, NoRequest, Requests
  <1> HIDE DEF q
  <1>4. /\ DOMAIN d = Fields /\ d.state = c.state /\ d.made = c.made /\ d.request = q
        /\ d.link = c.link /\ d.links = c.links /\ d.sends = c.sends /\ d.endpoint = c.endpoint
    BY DEF Sound, Shaped, Fields
  <1>5. Awaited(c) = d
    BY DEF Awaited, q
  <1> HIDE DEF d
  <1>6. Asking(d) /\ (Answering(d) <=> Answering(c))
    BY <1>2, <1>3, <1>4 DEF Asking, Answering
  <1> QED
    BY <1>2, <1>4, <1>5, <1>6
    DEF Good, Sound, Shaped, InTurn, Proving, Counted, Timing, Phases

(* A result that was read is forgotten.                                     *)
LEMMA ForgetSound ==
    ASSUME NEW c, Sound(c), NEW m
    PROVE  LET d == [c EXCEPT !.sends = c.sends \ {m}]
           IN  /\ Sound(d) /\ d.made = c.made /\ d.request = c.request /\ d.link = c.link /\ d.state = c.state
               /\ d.sends = c.sends \ {m} /\ d.endpoint = c.endpoint
               /\ (Asking(d) <=> Asking(c)) /\ (Answering(d) <=> Answering(c))
               /\ (Good(c) => Sent(d))
               /\ Good(c) /\ (Asking(c) /\ c.state # "Failed" /\ m = Message(c, "Request", 0) =>
                                 c.request.clock \/ Answering(c)) => Good(d)
  <1> DEFINE d == [c EXCEPT !.sends = c.sends \ {m}]
  <1>1. /\ DOMAIN d = Fields /\ d.state = c.state /\ d.made = c.made /\ d.request = c.request
        /\ d.link = c.link /\ d.links = c.links /\ d.sends = c.sends \ {m}
        /\ d.endpoint = c.endpoint
    BY DEF Sound, Shaped, Fields
  <1> HIDE DEF d
  <1>2. (Asking(d) <=> Asking(c)) /\ (Answering(d) <=> Answering(c))
    BY <1>1 DEF Asking, Answering
  <1>3. Message(d, "Request", 0) = Message(c, "Request", 0)
    BY <1>1 DEF Message
  <1>4. Sound(d)
    BY <1>1, <1>2 DEF Sound, Shaped, InTurn, Proving, Counted, Phases
  <1>5. Good(c) => Sent(d)
    BY <1>1, <1>2 DEF Good, Timing, Sent
  <1>6. Good(c) /\ (Asking(c) /\ c.state # "Failed" /\ m = Message(c, "Request", 0) =>
                       c.request.clock \/ Answering(c)) => Good(d)
    BY <1>1, <1>2, <1>3, <1>4 DEF Good, Timing
  <1> QED BY <1>1, <1>2, <1>4, <1>5, <1>6 DEF d

LEMMA HeardGood ==
    ASSUME NEW c, Good(c) PROVE Good(Heard(c))
  <1> DEFINE S == {m \in c.sends : m.type = "Final" \/ Concerns(c, m)}
             d == [c EXCEPT !.sends = S, !.room = 0]
  <1>1. /\ DOMAIN d = Fields /\ d.state = c.state /\ d.made = c.made /\ d.request = c.request
        /\ d.link = c.link /\ d.links = c.links /\ d.sends = S /\ d.endpoint = c.endpoint
    BY DEF Good, Sound, Shaped, Fields
  <1>2. Heard(c) = d
    BY DEF Heard
  <1> HIDE DEF d
  <1>3. (Asking(d) <=> Asking(c)) /\ (Answering(d) <=> Answering(c))
    BY <1>1 DEF Asking, Answering
  <1>4. Message(d, "Request", 0) = Message(c, "Request", 0)
    BY <1>1 DEF Message
  <1>5. S \subseteq c.sends
    OBVIOUS
  <1>6. Asking(c) /\ c.request.sender /\ Message(c, "Request", 0) \in c.sends =>
            Message(c, "Request", 0) \in S
    BY DEF Concerns, Message, EndpointTypes, SenderTypes
  <1> HIDE DEF S
  <1>7. Sound(d)
    BY <1>1, <1>3, <1>5 DEF Good, Sound, Shaped, InTurn, Proving, Counted, Phases
  <1>8. Timing(d)
    BY <1>1, <1>3, <1>4, <1>6 DEF Good, Sound, Shaped, Query, Asking, Timing
  <1> QED BY <1>2, <1>7, <1>8 DEF Good

LEMMA SegmentKeptGood ==
    ASSUME NEW c, Good(c), c.state # "Failed", NEW m \in c.sends, m.type = "Proof", Concerns(c, m),
           NEW next \in Answers \cup {"short"}, MayAsk(c, next)
    PROVE  Good(SegmentKept([c EXCEPT !.sends = c.sends \ {m}], m, next))
  <1> DEFINE b == [c EXCEPT !.sends = c.sends \ {m}]
             r == b.request.response
             parts == r.parts \cup {<<m.gen, m.seg>>}
             kept == [r EXCEPT !.current = 0, !.next = r.next + 1, !.parts = parts]
             q == [b.request EXCEPT !.response = kept]
             d == [b EXCEPT !.request = q]
  <1> SUFFICES Good(SegmentKept(b, m, next))
    OBVIOUS
  <1>1. m.gen # 0 /\ m.gen = c.request.gen /\ m.link = c.link
    BY DEF Concerns, Good, Sound, Proving, Shaped, Mail
  <1>2. Asking(c)
    BY <1>1 DEF Asking, NoRequest
  <1>3. /\ Answering(c) /\ c.request.response.current = m.seg /\ c.request.response.next = m.seg
        /\ ~c.request.response.fetching
    BY <1>1, <1>2 DEF Good, Sound, Proving
  <1>4. c.endpoint # "binding"
    BY <1>2 DEF Good, Sound, Phases
  <1>5. /\ Good(b) /\ b.request = c.request /\ b.link = c.link /\ b.state = c.state
        /\ b.sends = c.sends \ {m} /\ b.endpoint = c.endpoint /\ Asking(b) /\ Answering(b)
        /\ b.made = c.made
    BY <1>2, <1>3, ForgetSound DEF Good, Answering
  <1> HIDE DEF b
  <1>6. CASE next = "short"
    BY <1>5, <1>6, FailsGood, GoodSent DEF SegmentKept, Good
  <1>9. b.request.response.next \in Nat /\ b.request.response.total \in Nat
    BY <1>5 DEF Answering, Asking, Good, Sound, Shaped, Query, NoResponse
  <1>10. Good(d) /\ d.endpoint = b.endpoint /\ d.made = b.made
    <2>2. /\ b.request \in Query /\ r # NoResponse
          /\ r \in [total : Nat, next : Nat \ {0}, parts : SUBSET (Nat \X Nat), current : Nat,
                    fetching : BOOLEAN]
      BY <1>5 DEF Answering, Asking, Good, Sound, Shaped, Query
    <2>3. m.gen \in Nat /\ m.seg \in Nat
      BY DEF Good, Sound, Shaped, Mail
    <2>a. parts \in SUBSET (Nat \X Nat) /\ r.next + 1 \in Nat \ {0}
      BY <2>2, <2>3
    <2> HIDE DEF parts
    <2>4. /\ kept \in [total : Nat, next : Nat \ {0}, parts : SUBSET (Nat \X Nat), current : Nat,
                       fetching : BOOLEAN]
          /\ kept.next = r.next + 1 /\ kept.current = 0 /\ kept.total = r.total
          /\ kept.parts = parts /\ kept.fetching = r.fetching
      BY <2>2, <2>a
    <2>5. kept # NoResponse
      BY <2>4, <2>2 DEF NoResponse
    <2> HIDE DEF kept
    <2>6. /\ q \in Query /\ q.gen = b.request.gen /\ q.response = kept /\ q.clock = b.request.clock
          /\ q.sender = b.request.sender /\ q.outbound = b.request.outbound
      BY <2>2, <2>4 DEF Query
    <2>7. q # NoRequest
      BY <2>6, <2>2 DEF Query, NoRequest, Requests
    <2> HIDE DEF q
    <2>8. /\ DOMAIN d = Fields /\ d.state = b.state /\ d.made = b.made /\ d.request = q
          /\ d.link = b.link /\ d.links = b.links /\ d.sends = b.sends /\ d.endpoint = b.endpoint
      BY <1>5 DEF Good, Sound, Shaped, Fields
    <2> HIDE DEF d
    <2>9. Asking(d) /\ Answering(d)
      BY <2>5, <2>6, <2>7, <2>8 DEF Asking, Answering
    <2>10. InTurn(d)
      <3>1. /\ r.parts = {m.gen} \X (1 .. r.next - 1) /\ m.seg = r.next /\ r.next \in Nat \ {0}
            /\ r.total \in Nat /\ ~r.fetching /\ r.next <= r.total
            /\ r.total = TotalSegments[b.request.gen]
        BY <1>1, <1>3, <1>5, <2>2 DEF Good, Sound, InTurn
      <3>2. 1 .. r.next + 1 - 1 = (1 .. r.next - 1) \cup {r.next}
        BY <3>1
      <3>3. kept.parts = {m.gen} \X (1 .. kept.next - 1)
        BY <3>1, <3>2, <2>4 DEF parts
      <3> QED BY <1>1, <1>5, <2>4, <2>6, <2>8, <3>1, <3>3 DEF InTurn
    <2>11. Proving(d)
      <3> SUFFICES ASSUME NEW n \in d.sends, n.type = "Proof"
                   PROVE  n.gen \in 1 .. d.made /\ n.gen # d.request.gen
        BY <1>5, <2>8 DEF Good, Sound, Proving
      <3>1. n \in c.sends /\ n # m /\ n.gen \in 1 .. d.made
        BY <1>5, <2>8 DEF Good, Sound, Proving
      <3>2. CASE n.gen = c.request.gen
        <4>1. n.link = m.link /\ n.seg = m.seg /\ n.gen = m.gen /\ n.type = m.type
          BY <1>1, <1>2, <1>3, <3>1, <3>2 DEF Good, Sound, Proving
        <4>2. n \in Mail /\ m \in Mail
          BY <3>1 DEF Good, Sound, Shaped
        <4>3. n = m
          BY <4>1, <4>2 DEF Mail
        <4> QED BY <3>1, <4>3
      <3> QED BY <1>5, <2>6, <2>8, <3>1, <3>2
    <2> QED
      BY <1>5, <1>9, <2>6, <2>8, <2>9, <2>10, <2>11
      DEF Good, Sound, Shaped, Counted, Timing, Phases
  <1>11. WithSegment(b, m) = d
    BY DEF WithSegment
  <1> HIDE DEF d
  <1>7. CASE next # "short" /\ r.next >= r.total
    <2>1. SegmentKept(b, m, next) = Answered(d, next)
      BY <1>5, <1>9, <1>11, <1>7 DEF SegmentKept
    <2>2. MayAsk(d, next)
      BY <1>5, <1>10 DEF MayAsk
    <2> QED BY <1>4, <1>5, <1>10, <1>7, <2>1, <2>2, AnsweredGood
  <1>8. CASE next # "short" /\ r.next < r.total
    BY <1>5, <1>9, <1>10, <1>11, <1>8 DEF SegmentKept
  <1> QED BY <1>6, <1>9, <1>7, <1>8

-----------------------------------------------------------------------------
(* Calls.                                                                   *)

LEMMA FoundGood ==
    ASSUME Good(exchange), NEW c \in Found
    PROVE  Good(c) /\ Same(exchange, c)
  BY RoomSame, SameGood DEF Found, Good, Sound, Shaped

LEMMA CalledGood ==
    ASSUME NEW d, Good(d), Called(d) PROVE Good(exchange')
  BY HeardGood DEF Called

LEMMA StartDownloadGood == Good(exchange) /\ StartDownload => Good(exchange')
  <1> SUFFICES ASSUME Good(exchange), StartDownload PROVE Good(exchange')
    OBVIOUS
  <1>1. PICK c \in Found :
          LET b == IF c.state = "Idle" THEN c ELSE Cleaned(c)
              d == Flushed(b)
              l == d.links + 1
              register == [type |-> "Register", link |-> l, seg |-> 0, gen |-> 0]
              e == Queued(d, register)
              f == Queued(e, [register EXCEPT !.type = "LinkRequest"])
          IN  /\ c.state \in Over
              /\ \/ Called(d)
                 \/ Called([e EXCEPT !.staged = <<>>])
                 \/ Called([f EXCEPT !.state = "LinkEstablishing", !.link = l, !.links = l,
                                     !.linkState = "pending", !.asking = TRUE,
                                     !.endpoint = "none", !.released = FALSE])
    BY DEF StartDownload
  <1> DEFINE b == IF c.state = "Idle" THEN c ELSE Cleaned(c)
             d == Flushed(b)
             l == d.links + 1
             register == [type |-> "Register", link |-> l, seg |-> 0, gen |-> 0]
             e == Queued(d, register)
             f == Queued(e, [register EXCEPT !.type = "LinkRequest"])
             g == [f EXCEPT !.state = "LinkEstablishing", !.link = l, !.links = l,
                            !.linkState = "pending", !.asking = TRUE,
                            !.endpoint = "none", !.released = FALSE]
  <1>2. Good(c)
    BY FoundGood
  <1>3. Good(b) /\ b.request = NoRequest
    <2>1. CASE c.state = "Idle"
      BY <1>2, <2>1 DEF Good, Sound, Phases, Asking
    <2>2. CASE c.state # "Idle"
      <3>1. c.state \notin {"Requested", "Receiving"}
        BY <1>1 DEF Over
      <3> QED BY <1>2, <2>2, <3>1, CleanedBare, BareGood DEF Good, Sound, Shaped, Bare
    <2> QED BY <2>1, <2>2
  <1> HIDE DEF b
  <1>4. Good(d) /\ d.request = NoRequest
    BY <1>3, FlushedSame, SameGood DEF Good, Sound, Shaped, Same
  <1> HIDE DEF d
  <1>5. Good(e) /\ e.request = NoRequest
    BY <1>4, QueuedSame, SameGood DEF Good, Sound, Shaped, Same
  <1>6. Good(f) /\ f.request = NoRequest
    BY <1>5, QueuedSame, SameGood DEF Good, Sound, Shaped, Same
  <1>7. l \in Nat
    BY <1>4 DEF Good, Sound, Shaped
  <1> HIDE DEF f, l
  <1>8. /\ DOMAIN g = Fields /\ g.state = "LinkEstablishing" /\ g.made = f.made
        /\ g.request = f.request /\ g.link = l /\ g.links = l /\ g.sends = f.sends
        /\ g.endpoint = "none"
    BY <1>6 DEF Good, Sound, Shaped, Fields
  <1>9. Good(g)
    <2> HIDE DEF g
    <2>1. ~Asking(g) /\ ~Answering(g) /\ ~Asking(f)
      BY <1>6, <1>8 DEF Asking, Answering
    <2> QED
      BY <1>6, <1>7, <1>8, <2>1
      DEF Good, Sound, Shaped, InTurn, Proving, Counted, Timing, Phases
  <1>10. Good([e EXCEPT !.staged = <<>>])
    <2> HIDE DEF e
    <2>1. Same(e, [e EXCEPT !.staged = <<>>])
      BY <1>5 DEF Good, Sound, Shaped, Same, Fields
    <2> QED BY <1>5, <2>1, SameGood
  <1>11. Called(d) \/ Called([e EXCEPT !.staged = <<>>]) \/ Called(g)
    BY <1>1 DEF d, b, f, l
  <1> HIDE DEF e, g
  <1> QED BY <1>4, <1>9, <1>10, <1>11, CalledGood

LEMMA CancelDownloadGood == Good(exchange) /\ CancelDownload => Good(exchange')
  <1> SUFFICES ASSUME Good(exchange), NEW c \in Found, Called([Cleaned(c) EXCEPT !.state = "Idle"])
               PROVE  Good(exchange')
    BY DEF CancelDownload
  <1> DEFINE b == Cleaned(c)
             d == [b EXCEPT !.state = "Idle"]
  <1>1. Good(c) /\ Bare(c, b)
    BY FoundGood, CleanedBare DEF Good, Sound, Shaped
  <1> HIDE DEF b
  <1>2. Bare(c, d) /\ d.state = "Idle"
    BY <1>1 DEF Bare, Fields
  <1>3. Good(d)
    BY <1>1, <1>2, BareGood DEF Good
  <1> QED BY <1>3, CalledGood DEF b

(* A step of tick that only sends, or fails.                                *)
Steps(c, d) ==
    Good(d) /\ d.made = c.made /\ d.endpoint = c.endpoint /\ d.state \in {c.state, "Failed"}

LEMMA SendsSteps ==
    ASSUME NEW c, Good(c), NEW type \in Kinds, type \notin {"Proof", "Request"}
    PROVE  Steps(c, Sends(c, type, 0))
  BY SendsGood DEF Steps

LEMMA FailsSteps == ASSUME NEW c, Good(c) PROVE Steps(c, Fails(c))
  BY FailsGood, GoodSent, FailsAre DEF Steps, Good, Sound, Shaped

LEMMA LinkTickedSteps ==
    ASSUME NEW c, Good(c), NEW link \in {"none", "keepalive", "stale", "closed"}
    PROVE  Steps(c, LinkTicked(c, link))
  <1>1. CASE link = "none"
    BY <1>1 DEF LinkTicked, Steps
  <1>2. CASE link = "keepalive"
    BY <1>2, SendsSteps DEF LinkTicked, Kinds
  <1>3. CASE link \in {"stale", "closed"}
    <2> DEFINE b == IF link = "stale" /\ Accepts(c) THEN SendsFinal(c) ELSE c
               d == [b EXCEPT !.linkState = "closed"]
    <2>1. /\ Good(b) /\ b.made = c.made /\ b.endpoint = c.endpoint /\ b.state = c.state
      BY SendsFinalGood DEF Adds
    <2>2. LinkTicked(c, link) = Fails(d)
      BY <1>3 DEF LinkTicked
    <2> HIDE DEF b
    <2>3. Same(b, d)
      BY <2>1 DEF Good, Sound, Shaped, Same, Fields
    <2>4. Good(d)
      BY <2>1, <2>3, SameGood
    <2> HIDE DEF d
    <2> QED BY <2>1, <2>2, <2>3, <2>4, FailsSteps DEF Steps, Same
  <1> QED BY <1>1, <1>2, <1>3

LEMMA DrivenSteps ==
    ASSUME NEW c, Good(c), NEW upload \in {"none", "again", "fails"}
    PROVE  Steps(c, Driven(c, upload))
  <1>1. Driven(c, upload) \in {c, Sends(c, "Upload", 0), Fails(c)}
    <2>1. Asking(c) => c.request.outbound \in BOOLEAN
      BY DEF Good, Sound, Shaped, Query, Asking
    <2> QED BY <2>1 DEF Driven
  <1>2. Steps(c, c) /\ Steps(c, Sends(c, "Upload", 0)) /\ Steps(c, Fails(c))
    BY SendsSteps, FailsSteps DEF Steps, Kinds
  <1> QED BY <1>1, <1>2

LEMMA WatchedSteps ==
    ASSUME NEW c, Good(c), NEW fetch \in {"none", "again", "fails"}
    PROVE  Steps(c, Watched(c, fetch))
  <1>1. Watched(c, fetch) \in {c, Sends(c, "Plain", 0), Fails(c)}
    BY DEF Watched
  <1>2. Steps(c, c) /\ Steps(c, Sends(c, "Plain", 0)) /\ Steps(c, Fails(c))
    BY SendsSteps, FailsSteps DEF Steps, Kinds
  <1> QED BY <1>1, <1>2

LEMMA RequestedState ==
    ASSUME NEW c, Shaped(c), NEW form \in Forms
    PROVE  Requested(c, form).state \in {"Requested", "Failed"}
  <1> DEFINE q == [gen |-> c.made + 1, sender |-> TRUE, clock |-> FALSE,
                   outbound |-> form = "resource", response |-> NoResponse]
             d == [c EXCEPT !.state = "Requested", !.made = c.made + 1, !.request = q]
  <1>1. Requested(c, form) \in {Fails(c), Sends(d, "Request", 0), Sends(d, "Upload", 0)}
    BY DEF Requested, Forms
  <1>2. DOMAIN d = Fields /\ d.state = "Requested"
    BY DEF Shaped, Fields
  <1> HIDE DEF d
  <1>3. ASSUME NEW type PROVE Sends(d, type, 0).state \in {"Requested", "Failed"}
    BY <1>2, SendsAre, FailsAre DEF Adds
  <1> QED BY <1>1, <1>3, FailsAre DEF Shaped

LEMMA AdmittedGood ==
    ASSUME NEW c, Good(c), NEW next \in Answers, MayAsk(c, next)
    PROVE  LET d == Admitted(c, next)
           IN  Good(d) /\ (d.state = "LinkEstablished" => d.made = c.made)
  <1>1. CASE c.state # "AwaitingAdmission" \/ next = "await"
    <2>1. Admitted(c, next) = c
      BY <1>1 DEF Admitted, Forms
    <2> QED BY <2>1
  <1>2. CASE c.state = "AwaitingAdmission" /\ next = "unreadable"
    <2>1. Admitted(c, next) = Fails(c)
      BY <1>2 DEF Admitted, Forms
    <2> QED BY <2>1, FailsGood, GoodSent DEF Good
  <1>3. CASE c.state = "AwaitingAdmission" /\ next \in Forms \cup {"done"}
    <2>1. Admitted(c, next) = Continues(c, next)
      BY <1>3 DEF Admitted, Forms
    <2>2. c.endpoint # "binding"
      BY <1>3 DEF Good, Sound, Phases
    <2>3. Good(Continues(c, next))
      BY <1>3, <2>2, ContinuesGood
    <2>4. Continues(c, next).state # "LinkEstablished"
      <3>1. CASE next \in Forms
        BY <3>1, RequestedState DEF Continues, Forms, Good, Sound
      <3>2. CASE next = "done"
        BY <3>2 DEF Continues, Forms, Good, Sound, Shaped, Fields
      <3> QED BY <1>3, <3>1, <3>2
    <2> QED BY <2>1, <2>3, <2>4
  <1> QED BY <1>1, <1>2, <1>3 DEF Answers

LEMMA AdvancedGood ==
    ASSUME NEW c, Good(c), NEW form \in Forms, c.state = "LinkEstablished" => MayAsk(c, form)
    PROVE  Good(Advanced(c, form))
  <1>1. CASE c.state = "LinkEstablished"
    <2> DEFINE d == IF c.linkState = "active" THEN Sends(c, "Plain", 0) ELSE c
    <2>1. Steps(c, d)
      BY SendsSteps DEF Steps, Kinds
    <2>2. Advanced(c, form) = IF d.state = "Failed" THEN d ELSE Requested(d, form)
      BY <1>1 DEF Advanced
    <2> HIDE DEF d
    <2>3. d.endpoint # "binding" /\ MayAsk(d, form) /\ Good(d)
      BY <1>1, <2>1 DEF Good, Sound, Phases, Steps, MayAsk
    <2>4. Good(Requested(d, form))
      BY <2>3, RequestedGood
    <2> QED BY <2>2, <2>3, <2>4
  <1>2. CASE c.state \in {"Complete", "Failed"}
    BY <1>2, CleanedBare, BareGood DEF Advanced, Good, Sound, Shaped
  <1>3. CASE c.state \notin {"LinkEstablished", "Complete", "Failed"}
    BY <1>3 DEF Advanced
  <1> QED BY <1>1, <1>2, <1>3

LEMMA TickGood == Good(exchange) /\ Tick => Good(exchange')
  <1> SUFFICES ASSUME Good(exchange), Tick PROVE Good(exchange')
    OBVIOUS
  <1>1. PICK f \in Found :
          LET c == Flushed(f)
          IN  \/ c.state = "Failed" /\ Called(Cleaned(c))
              \/ c.state = "LinkEstablishing" /\ Called(Fails(Cleaned(c)))
              \/ Called(Cleaned(Fails(c)))
              \/ \E next \in Answers, link \in {"none", "keepalive", "stale", "closed"},
                    upload \in {"none", "again", "fails"}, fetch \in {"none", "again", "fails"} :
                   /\ MayAsk(c, next)
                   /\ LET d == Driven(LinkTicked(Admitted(c, next), link), upload)
                          e == Watched(d, fetch)
                      IN  Called(Advanced(e, IF next \in Forms THEN next ELSE "unfit"))
    BY DEF Tick, Only, Answers
  <1> DEFINE c == Flushed(f)
  <1>2. Good(c)
    BY FoundGood, FlushedSame, SameGood DEF Good, Sound, Shaped
  <1> HIDE DEF c
  <1>3. CASE c.state = "Failed" /\ Called(Cleaned(c))
    <2>1. Good(Cleaned(c))
      BY <1>2, <1>3, CleanedBare, BareGood DEF Good, Sound, Shaped
    <2> QED BY <1>3, <2>1, CalledGood
  <1>4. CASE c.state = "LinkEstablishing" /\ Called(Fails(Cleaned(c)))
    <2>1. Good(Cleaned(c))
      BY <1>2, <1>4, CleanedBare, BareGood DEF Good, Sound, Shaped
    <2>2. Good(Fails(Cleaned(c)))
      BY <2>1, FailsSteps DEF Steps
    <2> QED BY <1>4, <2>2, CalledGood
  <1>5. CASE Called(Cleaned(Fails(c)))
    <2>1. Good(Fails(c)) /\ Fails(c).state = "Failed"
      BY <1>2, FailsGood, GoodSent DEF Good
    <2>2. Good(Cleaned(Fails(c)))
      BY <2>1, CleanedBare, BareGood DEF Good, Sound, Shaped
    <2> QED BY <1>5, <2>2, CalledGood
  <1>6. ASSUME NEW next \in Answers, NEW link \in {"none", "keepalive", "stale", "closed"},
               NEW upload \in {"none", "again", "fails"}, NEW fetch \in {"none", "again", "fails"},
               MayAsk(c, next),
               Called(Advanced(Watched(Driven(LinkTicked(Admitted(c, next), link), upload), fetch),
                               IF next \in Forms THEN next ELSE "unfit"))
        PROVE  Good(exchange')
    <2> DEFINE a == Admitted(c, next)
               b == LinkTicked(a, link)
               d == Driven(b, upload)
               e == Watched(d, fetch)
               form == IF next \in Forms THEN next ELSE "unfit"
    <2>1. Good(a) /\ (a.state = "LinkEstablished" => a.made = c.made)
      BY <1>2, <1>6, AdmittedGood
    <2> HIDE DEF a
    <2>2. Steps(a, b)
      BY <2>1, LinkTickedSteps
    <2> HIDE DEF b
    <2>3. Steps(b, d)
      BY <2>2, DrivenSteps DEF Steps
    <2> HIDE DEF d
    <2>4. Steps(d, e)
      BY <2>3, WatchedSteps DEF Steps
    <2> HIDE DEF e
    <2>5. Good(e) /\ (e.state = "LinkEstablished" => e.made = c.made)
      BY <2>1, <2>2, <2>3, <2>4 DEF Steps
    <2>6. form \in Forms /\ (e.state = "LinkEstablished" => MayAsk(e, form))
      BY <1>6, <2>5 DEF MayAsk, Forms
    <2> HIDE DEF form
    <2>7. Good(Advanced(e, form))
      BY <2>5, <2>6, AdvancedGood
    <2> QED BY <1>6, <2>7, CalledGood DEF e, d, b, a, form
  <1> QED BY <1>1, <1>3, <1>4, <1>5, <1>6 DEF c

-----------------------------------------------------------------------------
(* Results of the transport.                                                *)

LEMMA LinkRequestResultGood == Good(exchange) /\ LinkRequestResult => Good(exchange')
  <1> SUFFICES ASSUME Good(exchange), NEW c \in Found,
                      \/ Called([c EXCEPT !.asking = FALSE])
                      \/ Called(Fails([c EXCEPT !.asking = FALSE]))
               PROVE  Good(exchange')
    BY DEF LinkRequestResult
  <1> DEFINE d == [c EXCEPT !.asking = FALSE]
  <1>1. Good(c)
    BY FoundGood
  <1>2. Same(c, d)
    BY <1>1 DEF Good, Sound, Shaped, Same, Fields
  <1>3. Good(d)
    BY <1>1, <1>2, SameGood
  <1> HIDE DEF d
  <1>4. Good(Fails(d))
    BY <1>3, FailsSteps DEF Steps
  <1> QED BY <1>3, <1>4, CalledGood DEF d

(* A result that concerns nothing any more leaves nothing open.             *)
LEMMA StaleGood ==
    ASSUME NEW c, Good(c), NEW m \in c.sends,
           ~Concerns(c, m) \/ c.state = "Failed" \/ m.type # "Request"
    PROVE  Good([c EXCEPT !.sends = c.sends \ {m}])
  <1>1. ASSUME Asking(c), c.state # "Failed", m = Message(c, "Request", 0)
        PROVE  c.request.clock \/ Answering(c)
    <2>1. m.type = "Request" /\ m.link = c.link /\ m.gen = c.request.gen
      BY <1>1 DEF Message, EndpointTypes, SenderTypes
    <2>2. ~c.request.sender
      BY <1>1, <2>1 DEF Concerns
    <2> QED BY <1>1, <2>2 DEF Good, Timing
  <1> QED BY <1>1, ForgetSound DEF Good

LEMMA SendTakenGood == Good(exchange) /\ SendTaken => Good(exchange')
  <1> SUFFICES ASSUME Good(exchange), SendTaken PROVE Good(exchange')
    OBVIOUS
  <1>1. PICK c \in Found, m \in exchange.sends :
          LET d == [c EXCEPT !.sends = c.sends \ {m}]
          IN  \/ /\ m.type = "Final" \/ ~(Concerns(c, m) /\ Alive /\ m.type = "Request")
                 /\ Called(d) \/ Called([d EXCEPT !.destinations = c.destinations \ {m.link}])
              \/ Concerns(c, m) /\ Alive /\ m.type = "Request" /\ Called(Awaited(d))
    BY DEF SendTaken
  <1> DEFINE d == [c EXCEPT !.sends = c.sends \ {m}]
             e == [d EXCEPT !.destinations = c.destinations \ {m.link}]
  <1>2. Good(c) /\ m \in c.sends /\ c.state = exchange.state
    BY FoundGood DEF Same
  <1>3. CASE Concerns(c, m) /\ Alive /\ m.type = "Request" /\ Called(Awaited(d))
    <2>1. m.gen # 0 /\ m.gen = c.request.gen
      BY <1>2, <1>3 DEF Concerns, Good, Sound, Proving
    <2>2. Sound(d) /\ Asking(d)
      BY <1>2, <2>1, ForgetSound DEF Asking, NoRequest, Good
    <2> HIDE DEF d
    <2> QED BY <1>3, <2>2, AwaitedGood, CalledGood
  <1>4. CASE /\ m.type = "Final" \/ ~(Concerns(c, m) /\ Alive /\ m.type = "Request")
             /\ Called(d) \/ Called(e)
    <2>1. Good(d)
      BY <1>2, <1>4, StaleGood DEF Alive
    <2> HIDE DEF d
    <2>2. Same(d, e)
      BY <2>1 DEF Good, Sound, Shaped, Same, Fields
    <2>3. Good(e)
      BY <2>1, <2>2, SameGood
    <2> HIDE DEF e
    <2> QED BY <1>4, <2>1, <2>3, CalledGood
  <1> QED BY <1>1, <1>3, <1>4

LEMMA ProofTakenGood == Good(exchange) /\ ProofTaken => Good(exchange')
  <1> SUFFICES ASSUME Good(exchange), NEW c \in Found, NEW m \in exchange.sends,
                      NEW next \in Answers \cup {"short"}, m.type = "Proof", MayAsk(c, next),
                      Called(IF Concerns(c, m) /\ Alive
                             THEN SegmentKept([c EXCEPT !.sends = c.sends \ {m}], m, next)
                             ELSE [c EXCEPT !.sends = c.sends \ {m}])
               PROVE  Good(exchange')
    BY DEF ProofTaken
  <1>1. Good(c) /\ m \in c.sends /\ c.state = exchange.state
    BY FoundGood DEF Same
  <1>2. CASE Concerns(c, m) /\ Alive
    <2>1. Good(SegmentKept([c EXCEPT !.sends = c.sends \ {m}], m, next))
      BY <1>1, <1>2, SegmentKeptGood DEF Alive
    <2> QED BY <1>2, <2>1, CalledGood
  <1>3. CASE ~(Concerns(c, m) /\ Alive)
    <2>1. Good([c EXCEPT !.sends = c.sends \ {m}])
      BY <1>1, StaleGood
    <2> QED BY <1>3, <2>1, CalledGood
  <1> QED BY <1>2, <1>3

LEMMA SendRejectedGood == Good(exchange) /\ SendRejected => Good(exchange')
  <1> SUFFICES ASSUME Good(exchange), SendRejected PROVE Good(exchange')
    OBVIOUS
  <1>1. PICK c \in Found, m \in exchange.sends :
          LET d == [c EXCEPT !.sends = c.sends \ {m}]
              e == IF Concerns(c, m) THEN Fails(d) ELSE d
          IN  Called(IF m.type = "Final" THEN Unbinds(e, m.link) ELSE e)
    BY DEF SendRejected
  <1> DEFINE d == [c EXCEPT !.sends = c.sends \ {m}]
             e == IF Concerns(c, m) THEN Fails(d) ELSE d
  <1>2. Good(c) /\ m \in c.sends
    BY FoundGood DEF Same
  <1>3. Sound(d) /\ Sent(d)
    BY <1>2, ForgetSound DEF Good
  <1>4. ~Concerns(c, m) => Good(d)
    BY <1>2, StaleGood
  <1> HIDE DEF d
  <1>5. Good(e)
    BY <1>3, <1>4, FailsGood
  <1>6. Called(IF m.type = "Final" THEN Unbinds(e, m.link) ELSE e)
    BY <1>1 DEF d
  <1> HIDE DEF e
  <1>7. Good(Unbinds(e, m.link))
    BY <1>5, UnbindsSame, SameGood DEF Good, Sound, Shaped
  <1> QED BY <1>5, <1>6, <1>7, CalledGood

LEMMA SendUnansweredGood == Good(exchange) /\ SendUnanswered => Good(exchange')
  <1> SUFFICES ASSUME Good(exchange), SendUnanswered PROVE Good(exchange')
    OBVIOUS
  <1>1. PICK c \in Found, m \in exchange.sends :
          LET d == [c EXCEPT !.sends = c.sends \ {m}]
              e == IF m.type = "Final" THEN [d EXCEPT !.unheard = c.unheard \cup {m.link}] ELSE d
          IN  Called(IF Concerns(c, m) THEN Fails(e) ELSE e)
    BY DEF SendUnanswered
  <1> DEFINE d == [c EXCEPT !.sends = c.sends \ {m}]
             e == IF m.type = "Final" THEN [d EXCEPT !.unheard = c.unheard \cup {m.link}] ELSE d
             g == IF Concerns(c, m) THEN Fails(d) ELSE d
  <1>2. Good(c) /\ m \in c.sends
    BY FoundGood DEF Same
  <1>3. Sound(d) /\ Sent(d)
    BY <1>2, ForgetSound DEF Good
  <1>4. ~Concerns(c, m) => Good(d)
    BY <1>2, StaleGood
  <1>5. Called(IF Concerns(c, m) THEN Fails(e) ELSE e)
    BY <1>1
  <1> HIDE DEF d
  <1>6. Same(d, e)
    BY <1>3 DEF Sound, Shaped, Same, Fields
  <1> HIDE DEF e
  <1>7. CASE ~Concerns(c, m)
    BY <1>4, <1>5, <1>6, <1>7, SameGood, CalledGood
  <1>8. CASE Concerns(c, m)
    <2>1. Good(Fails(d))
      BY <1>3, FailsGood
    <2>2. Same(Fails(d), Fails(e))
      BY <1>3, <1>6, FailsAre DEF Sound, Shaped, Same
    <2>3. Good(Fails(e))
      BY <2>1, <2>2, SameGood
    <2> QED BY <1>5, <1>8, <2>3, CalledGood
  <1> QED BY <1>7, <1>8

LEMMA CleanupResultGood == Good(exchange) /\ CleanupResult => Good(exchange')
  <1> SUFFICES ASSUME Good(exchange), CleanupResult PROVE Good(exchange')
    OBVIOUS
  <1>1. PICK c \in Found, l \in exchange.cleanups :
          LET d == [c EXCEPT !.cleanups = c.cleanups \ {l}]
          IN  \/ Called(Queued(d, [type |-> "Deregister", link |-> l, seg |-> 0, gen |-> 0]))
              \/ Called([d EXCEPT !.unheard = c.unheard \cup {l}])
    BY DEF CleanupResult
  <1> DEFINE d == [c EXCEPT !.cleanups = c.cleanups \ {l}]
  <1>2. Good(c)
    BY FoundGood
  <1>3. Same(c, d)
    BY <1>2 DEF Good, Sound, Shaped, Same, Fields
  <1>4. Good(d)
    BY <1>2, <1>3, SameGood
  <1>5. \/ Called(Queued(d, [type |-> "Deregister", link |-> l, seg |-> 0, gen |-> 0]))
        \/ Called([d EXCEPT !.unheard = c.unheard \cup {l}])
    BY <1>1
  <1> HIDE DEF d
  <1>6. /\ Same(d, Queued(d, [type |-> "Deregister", link |-> l, seg |-> 0, gen |-> 0]))
        /\ Same(d, [d EXCEPT !.unheard = c.unheard \cup {l}])
    BY <1>4, QueuedSame DEF Good, Sound, Shaped, Same, Fields
  <1> QED BY <1>4, <1>5, <1>6, SameGood, CalledGood

LEMMA DetachedGood ==
    ASSUME NEW c, Good(c), NEW s \in {"none", "attached"} PROVE Good([c EXCEPT !.endpoint = s])
  <1> DEFINE d == [c EXCEPT !.endpoint = s]
  <1>1. /\ DOMAIN d = Fields /\ d.state = c.state /\ d.made = c.made /\ d.request = c.request
        /\ d.link = c.link /\ d.links = c.links /\ d.sends = c.sends /\ d.endpoint = s
    BY DEF Good, Sound, Shaped, Fields
  <1> HIDE DEF d
  <1>2. (Asking(d) <=> Asking(c)) /\ (Answering(d) <=> Answering(c))
    BY <1>1 DEF Asking, Answering
  <1>3. Message(d, "Request", 0) = Message(c, "Request", 0)
    BY <1>1 DEF Message
  <1>4. Good(d)
    BY <1>1, <1>2, <1>3 DEF Good, Sound, Shaped, InTurn, Proving, Counted, Timing, Phases
  <1> QED BY <1>4 DEF d

LEMMA BindResultGood == Good(exchange) /\ BindResult => Good(exchange')
  <1> SUFFICES ASSUME Good(exchange), BindResult PROVE Good(exchange')
    OBVIOUS
  <1>1. PICK c \in Found :
          LET d == [c EXCEPT !.endpoint = "attached"]
              e == Sends(d, "Plain", 0)
          IN  /\ c.endpoint = "binding"
              /\ \/ Called([e EXCEPT !.state = "LinkEstablished"])
                 \/ Called(e)
                 \/ Called(Fails([c EXCEPT !.endpoint = "none"]))
    BY DEF BindResult
  <1> DEFINE d == [c EXCEPT !.endpoint = "attached"]
             e == Sends(d, "Plain", 0)
             f == [e EXCEPT !.state = "LinkEstablished"]
             g == [c EXCEPT !.endpoint = "none"]
  <1>2. Good(c) /\ ~Asking(c)
    BY <1>1, FoundGood DEF Good, Sound, Phases
  <1>3. Good(d) /\ Good(g)
    BY <1>2, DetachedGood
  <1>4. d.request = NoRequest /\ d.endpoint = "attached"
    BY <1>2 DEF Asking, Good, Sound, Shaped, Fields
  <1>5. Good(Fails(g))
    BY <1>3, FailsSteps DEF Steps
  <1> HIDE DEF d, g
  <1>6. Good(e) /\ e.request = NoRequest /\ e.endpoint = "attached"
    <2>1. "Plain" \in Kinds /\ "Plain" \notin {"Proof", "Request"} /\ 0 \in Nat
      BY DEF Kinds
    <2>2. /\ Good(e) /\ e.request = d.request /\ e.endpoint = d.endpoint
      BY <1>3, <2>1, SendsGood
    <2> QED BY <1>4, <2>2
  <1> HIDE DEF e
  <1>7. /\ DOMAIN f = Fields /\ f.state = "LinkEstablished" /\ f.made = e.made
        /\ f.request = e.request /\ f.link = e.link /\ f.links = e.links /\ f.sends = e.sends
        /\ f.endpoint = e.endpoint
    BY <1>6 DEF Good, Sound, Shaped, Fields
  <1> HIDE DEF f
  <1>8. Good(f)
    BY <1>6, <1>7, Readied, ReadyGood DEF Asking
  <1> QED BY <1>1, <1>5, <1>6, <1>8, CalledGood DEF d, e, f, g

LEMMA EndpointEndsGood == Good(exchange) /\ EndpointEnds => Good(exchange')
  <1> SUFFICES ASSUME Good(exchange), NEW c \in Found, Called(Fails([c EXCEPT !.endpoint = "none"]))
               PROVE  Good(exchange')
    BY DEF EndpointEnds
  <1>1. Good([c EXCEPT !.endpoint = "none"])
    BY FoundGood, DetachedGood
  <1>2. Good(Fails([c EXCEPT !.endpoint = "none"]))
    BY <1>1, FailsSteps DEF Steps
  <1> QED BY <1>2, CalledGood

-----------------------------------------------------------------------------
(* What the node sends.                                                     *)

LEMMA LinkProofGood == Good(exchange) /\ LinkProof => Good(exchange')
  <1> SUFFICES ASSUME Good(exchange), LinkProof PROVE Good(exchange')
    OBVIOUS
  <1>1. PICK c \in Found :
          LET bind == [type |-> "Bind", link |-> c.link, seg |-> 0, gen |-> 0]
              d == [c EXCEPT !.linkState = "active"]
          IN  /\ c.state = "LinkEstablishing"
              /\ Called(IF Accepts(d) THEN [Queued(d, bind) EXCEPT !.endpoint = "binding"] ELSE Fails(d))
    BY DEF LinkProof
  <1> DEFINE bind == [type |-> "Bind", link |-> c.link, seg |-> 0, gen |-> 0]
             d == [c EXCEPT !.linkState = "active"]
             e == Queued(d, bind)
             f == [e EXCEPT !.endpoint = "binding"]
  <1>2. Good(c)
    BY FoundGood
  <1>3. Same(c, d)
    BY <1>2 DEF Good, Sound, Shaped, Same, Fields
  <1>4. Good(d) /\ d.state = "LinkEstablishing"
    BY <1>1, <1>2, <1>3, SameGood DEF Same
  <1> HIDE DEF d
  <1>5. Good(e) /\ e.state = "LinkEstablishing"
    BY <1>4, QueuedSame, SameGood DEF Good, Sound, Shaped, Same
  <1> HIDE DEF e
  <1>6. /\ DOMAIN f = Fields /\ f.state = e.state /\ f.made = e.made /\ f.request = e.request
        /\ f.link = e.link /\ f.links = e.links /\ f.sends = e.sends /\ f.endpoint = "binding"
    BY <1>5 DEF Good, Sound, Shaped, Fields
  <1> HIDE DEF f
  <1>7. ~Asking(e) /\ ~Asking(f) /\ ~Answering(f)
    BY <1>5, <1>6 DEF Good, Sound, Phases, Asking, Answering
  <1>8. Good(f)
    BY <1>5, <1>6, <1>7 DEF Good, Sound, Shaped, InTurn, Proving, Counted, Timing, Phases
  <1>9. Good(Fails(d))
    BY <1>4, FailsSteps DEF Steps
  <1> QED BY <1>1, <1>8, <1>9, CalledGood DEF d, e, f

(* A transfer that is given up.                                             *)
LEMMA GivenUpGood ==
    ASSUME NEW c, Good(c), Answering(c)
    PROVE  Good([c EXCEPT !.request = [c.request EXCEPT !.response =
                    [c.request.response EXCEPT !.fetching = FALSE]]])
  <1> DEFINE r == c.request.response
             kept == [r EXCEPT !.fetching = FALSE]
             q == [c.request EXCEPT !.response = kept]
             d == [c EXCEPT !.request = q]
  <1>1. /\ c.request \in Query /\ r # NoResponse
        /\ r \in [total : Nat, next : Nat \ {0}, parts : SUBSET (Nat \X Nat), current : Nat,
                  fetching : BOOLEAN]
    BY DEF Answering, Asking, Good, Sound, Shaped, Query
  <1>2. /\ kept \in [total : Nat, next : Nat \ {0}, parts : SUBSET (Nat \X Nat), current : Nat,
                     fetching : BOOLEAN]
        /\ kept.next = r.next /\ kept.current = r.current /\ kept.total = r.total
        /\ kept.parts = r.parts /\ ~kept.fetching
    BY <1>1
  <1>3. kept # NoResponse
    BY <1>1, <1>2 DEF NoResponse
  <1> HIDE DEF kept
  <1>4. /\ q \in Query /\ q.gen = c.request.gen /\ q.response = kept /\ q.clock = c.request.clock
        /\ q.sender = c.request.sender /\ q.outbound = c.request.outbound
    BY <1>1, <1>2 DEF Query
  <1>5. q # NoRequest
    BY <1>1, <1>4 DEF Query, NoRequest, Requests
  <1> HIDE DEF q
  <1>6. /\ DOMAIN d = Fields /\ d.state = c.state /\ d.made = c.made /\ d.request = q
        /\ d.link = c.link /\ d.links = c.links /\ d.sends = c.sends /\ d.endpoint = c.endpoint
    BY DEF Good, Sound, Shaped, Fields
  <1> HIDE DEF d
  <1>7. Asking(d) /\ Answering(d) /\ Asking(c)
    BY <1>3, <1>4, <1>5, <1>6 DEF Asking, Answering
  <1>8. Good(d)
    BY <1>2, <1>4, <1>6, <1>7 DEF Good, Sound, Shaped, InTurn, Proving, Counted, Timing, Phases
  <1> QED BY <1>8 DEF d, q, kept

LEMMA LinkEndsGood == Good(exchange) /\ LinkEnds => Good(exchange')
  <1> SUFFICES ASSUME Good(exchange), LinkEnds PROVE Good(exchange')
    OBVIOUS
  <1> DEFINE less(c) == IF Fetching(c)
                        THEN [c.request EXCEPT !.response =
                                [c.request.response EXCEPT !.fetching = FALSE]]
                        ELSE c.request
  <1>1. PICK c \in Found :
          Called(Fails([c EXCEPT !.linkState = "closed", !.request = less(c)]))
    BY DEF LinkEnds
  <1> DEFINE d == [c EXCEPT !.request = less(c)]
             e == [c EXCEPT !.linkState = "closed", !.request = less(c)]
  <1>2. Good(c)
    BY FoundGood
  <1>3. Good(d)
    <2>1. CASE Fetching(c)
      BY <1>2, <2>1, GivenUpGood DEF Fetching
    <2>2. CASE ~Fetching(c)
      <3>1. Same(c, d)
        BY <1>2, <2>2 DEF Good, Sound, Shaped, Same, Fields
      <3> QED BY <1>2, <3>1, SameGood
    <2> QED BY <2>1, <2>2
  <1> HIDE DEF less
  <1>4. Same(d, e)
    BY <1>2 DEF Good, Sound, Shaped, Same, Fields
  <1> HIDE DEF d, e
  <1>5. Good(Fails(e))
    BY <1>3, <1>4, SameGood, FailsSteps DEF Steps
  <1> QED BY <1>1, <1>5, CalledGood DEF e

LEMMA AttachedOpen ==
    ASSUME Good(exchange), NEW c \in Found PROVE Attached => c.endpoint # "binding"
  BY FoundGood DEF Attached, Same

LEMMA ResponseArrivesGood == Good(exchange) /\ ResponseArrives => Good(exchange')
  <1> SUFFICES ASSUME Good(exchange), NEW c \in Found, NEW next \in Answers, Attached,
                      MayAsk(c, next), Called(Answered(c, next))
               PROVE  Good(exchange')
    BY DEF ResponseArrives
  <1>1. Good(Answered(c, next))
    BY FoundGood, AttachedOpen, AnsweredGood
  <1> QED BY <1>1, CalledGood

LEMMA FetchesGood ==
    ASSUME NEW c, Good(c), Asking(c), NEW k \in 1 .. TotalSegments[c.request.gen],
           k = Response(c).next, Response(c).current = 0
    PROVE  Good(Fetches(c, k))
  <1> DEFINE d == Retired(c)
             r == [Response(c) EXCEPT !.current = k, !.fetching = TRUE]
             q == [d.request EXCEPT !.clock = FALSE, !.response = r]
             e == [d EXCEPT !.state = "Receiving", !.request = q]
             Answer == [total : Nat, next : Nat \ {0}, parts : SUBSET (Nat \X Nat), current : Nat,
                        fetching : BOOLEAN]
  <1>1. c.request \in Query /\ c.request.gen \in Requests
    BY DEF Asking, Good, Sound, Shaped, Query
  <1>2. TotalSegments[c.request.gen] \in Nat \ {0}
    BY <1>1, ExchangeAssumption
  <1>3. /\ Response(c) \in Answer
        /\ Response(c).parts = {c.request.gen} \X (1 .. Response(c).next - 1)
        /\ Response(c).total = TotalSegments[c.request.gen]
    <2>1. CASE Answering(c)
      BY <1>1, <2>1 DEF Response, Answering, Good, Sound, InTurn, Query
    <2>2. CASE ~Answering(c)
      BY <1>2, <2>2 DEF Response
    <2> QED BY <2>1, <2>2
  <1>4. /\ r \in Answer /\ r.total = Response(c).total /\ r.next = Response(c).next
        /\ r.parts = Response(c).parts /\ r.current = k /\ r.fetching
    BY <1>2, <1>3
  <1>5. r # NoResponse
    BY <1>2, <1>4 DEF NoResponse
  <1> HIDE DEF r
  <1>6. /\ DOMAIN d = Fields /\ d.link = c.link /\ d.endpoint = c.endpoint /\ d.made = c.made
        /\ d.links = c.links /\ d.sends = c.sends /\ d.request \in Query
        /\ d.request.gen = c.request.gen
    BY RetiredAre DEF Good, Sound, Shaped
  <1> HIDE DEF d
  <1>7. /\ q \in Query /\ q.gen = c.request.gen /\ q.response = r
    BY <1>4, <1>6 DEF Query
  <1>8. q # NoRequest
    BY <1>1, <1>7 DEF Query, NoRequest, Requests
  <1> HIDE DEF q
  <1>9. /\ DOMAIN e = Fields /\ e.state = "Receiving" /\ e.made = c.made /\ e.request = q
        /\ e.link = c.link /\ e.links = c.links /\ e.sends = c.sends /\ e.endpoint = c.endpoint
    BY <1>6 DEF Fields
  <1>10. Fetches(c, k) = Sends(e, "Plain", 0)
    BY DEF Fetches, e, q, d, r
  <1> HIDE DEF e
  <1>11. Asking(e) /\ Answering(e)
    BY <1>5, <1>7, <1>8, <1>9 DEF Asking, Answering
  <1>12. InTurn(e)
    <2>1. k \in Nat \ {0} /\ k <= r.total /\ r.total \in Nat /\ r.next = k
      BY <1>2, <1>3, <1>4
    <2> QED BY <1>3, <1>4, <1>7, <1>9, <2>1 DEF InTurn
  <1>13. Proving(e)
    <2> SUFFICES ASSUME NEW m \in c.sends, m.type = "Proof", m.gen = c.request.gen PROVE FALSE
      BY <1>7, <1>9 DEF Proving, Good, Sound
    <2>1. Answering(c) /\ c.request.response.current = m.seg /\ c.request.response.next = m.seg
      BY DEF Good, Sound, Proving
    <2>2. k = 0
      BY <2>1 DEF Response
    <2> QED BY <1>2, <2>2
  <1>14. Good(e)
    <2>1. c.endpoint # "binding"
      BY DEF Good, Sound, Phases
    <2> QED
      BY <1>7, <1>9, <1>11, <1>12, <1>13, <2>1
      DEF Good, Sound, Shaped, Counted, Timing, Phases
  <1> QED BY <1>10, <1>14, SendsGood DEF Kinds

LEMMA AdvertisementArrivesGood == Good(exchange) /\ AdvertisementArrives => Good(exchange')
  <1> SUFFICES ASSUME Good(exchange), AdvertisementArrives PROVE Good(exchange')
    OBVIOUS
  <1>1. PICK c \in Found, k \in 1 .. TotalSegments[exchange.request.gen] :
          /\ Asking(exchange)
          /\ \/ Called(c)
             \/ Called(Fails(c))
             \/ k = Response(c).next /\ Response(c).current = 0 /\ Called(Fetches(c, k))
    <2>1. PICK c \in Found, k \in 1 .. TotalSegments[exchange.request.gen] :
            LET r == Response(c)
            IN  /\ Asked(exchange)
                /\ \/ Called(CASE k < r.next \/ k = r.current -> c
                              [] ~(k < r.next \/ k = r.current) /\ (k # r.next \/ r.current # 0) ->
                                   Fails(c)
                              [] k = r.next /\ r.current = 0 -> Fetches(c, k))
                   \/ Called(Fails(c))
      BY DEF AdvertisementArrives
    <2>2. Good(c) /\ Same(exchange, c)
      BY FoundGood
    <2>3. Response(c).next \in Nat /\ k \in Nat /\ k # 0
      <3>1. CASE Answering(c)
        BY <2>2, <3>1 DEF Response, Answering, Asking, Good, Sound, Shaped, Query, NoResponse
      <3>2. CASE ~Answering(c)
        BY <3>2 DEF Response
      <3>3. TotalSegments[exchange.request.gen] \in Nat
        BY <2>1, ExchangeAssumption DEF Asked, Asking, Good, Sound, Shaped, Query
      <3> QED BY <3>1, <3>2, <3>3
    <2> QED BY <2>1, <2>3 DEF Asked
  <1>2. Good(c) /\ c.request = exchange.request
    BY FoundGood DEF Same
  <1>3. CASE Called(c)
    BY <1>2, <1>3, CalledGood
  <1>4. CASE Called(Fails(c))
    <2>1. Good(Fails(c))
      BY <1>2, FailsSteps DEF Steps
    <2> QED BY <1>4, <2>1, CalledGood
  <1>5. CASE k = Response(c).next /\ Response(c).current = 0 /\ Called(Fetches(c, k))
    <2>1. Good(Fetches(c, k))
      BY <1>1, <1>2, <1>5, FetchesGood DEF Asking
    <2> QED BY <1>5, <2>1, CalledGood
  <1> QED BY <1>1, <1>3, <1>4, <1>5

LEMMA CompletesGood ==
    ASSUME NEW c, Good(c), Fetching(c), c.state # "Failed" PROVE Good(Completes(c))
  <1> DEFINE r == c.request.response
             m == Message(c, "Proof", r.current)
             d == Sends(c, "Proof", r.current)
             kept == [r EXCEPT !.fetching = FALSE]
             q == [c.request EXCEPT !.response = kept]
             e == [d EXCEPT !.request = q]
  <1>1. /\ Asking(c) /\ Answering(c) /\ r.fetching /\ r.current = r.next
        /\ c.request.gen \in Nat /\ r.current \in Nat \ {0}
    BY DEF Fetching, Answering, Asking, Good, Sound, Shaped, Query, InTurn, Requests
  <1>2. /\ m \in Mail /\ m.type = "Proof" /\ m.gen = c.request.gen /\ m.link = c.link
        /\ m.seg = r.current
    BY <1>1, MessageTyped DEF Good, Sound, Kinds, Message, EndpointTypes, SenderTypes
  <1>3. CASE d = Fails(c)
    <2>1. Good(Fails(c)) /\ Fails(c).state = "Failed"
      BY FailsGood, GoodSent DEF Good
    <2> QED BY <1>3, <2>1 DEF Completes
  <1>4. CASE Adds(c, d, m)
    <2>1. Completes(c) = e
      BY <1>4 DEF Completes, Adds
    <2>2. /\ c.request \in Query /\ r # NoResponse
          /\ r \in [total : Nat, next : Nat \ {0}, parts : SUBSET (Nat \X Nat), current : Nat,
                    fetching : BOOLEAN]
      BY <1>1 DEF Answering, Asking, Good, Sound, Shaped, Query
    <2>3. /\ kept \in [total : Nat, next : Nat \ {0}, parts : SUBSET (Nat \X Nat), current : Nat,
                       fetching : BOOLEAN]
          /\ kept.next = r.next /\ kept.current = r.current /\ kept.total = r.total
          /\ kept.parts = r.parts /\ ~kept.fetching
      BY <2>2
    <2>4. kept # NoResponse
      BY <2>2, <2>3 DEF NoResponse
    <2> HIDE DEF kept
    <2>5. /\ q \in Query /\ q.gen = c.request.gen /\ q.response = kept /\ q.clock = c.request.clock
          /\ q.sender = c.request.sender /\ q.outbound = c.request.outbound
      BY <2>2, <2>3 DEF Query
    <2>6. q # NoRequest
      BY <2>2, <2>5 DEF Query, NoRequest, Requests
    <2> HIDE DEF q, d, m
    <2>7. /\ DOMAIN e = Fields /\ e.state = c.state /\ e.made = c.made /\ e.request = q
          /\ e.link = c.link /\ e.links = c.links /\ e.sends = c.sends \cup {m}
          /\ e.endpoint = c.endpoint
      BY <1>4 DEF Adds, Fields
    <2> HIDE DEF e
    <2>8. Asking(e) /\ Answering(e)
      BY <2>4, <2>5, <2>6, <2>7 DEF Asking, Answering
    <2>9. Proving(e)
      <3>1. \A n \in c.sends : n.type = "Proof" => n.gen \in 1 .. c.made /\ n.gen # c.request.gen
        BY <1>1 DEF Good, Sound, Proving
      <3>2. c.request.gen \in 1 .. c.made
        BY <1>1, <2>2 DEF Good, Sound, Counted, Shaped, Query, Requests
      <3>3. \A n \in c.sends : n.type = "Request" => n.gen # 0
        BY DEF Good, Sound, Proving
      <3> QED BY <1>1, <1>2, <2>3, <2>5, <2>7, <2>8, <3>1, <3>2, <3>3 DEF Proving
    <2>10. Good(e)
      BY <1>1, <1>2, <2>3, <2>5, <2>7, <2>8, <2>9
      DEF Good, Sound, Shaped, InTurn, Counted, Timing, Phases
    <2> QED BY <2>1, <2>10
  <1>5. Adds(c, d, m) \/ d = Fails(c)
    BY SendsAre DEF Good, Sound, Shaped
  <1> QED BY <1>3, <1>4, <1>5

LEMMA ReceivingGood ==
    ASSUME NEW c, Good(c), Answering(c) PROVE Good([c EXCEPT !.state = "Receiving"])
  <1> DEFINE d == [c EXCEPT !.state = "Receiving"]
  <1>1. /\ DOMAIN d = Fields /\ d.state = "Receiving" /\ d.made = c.made /\ d.request = c.request
        /\ d.link = c.link /\ d.links = c.links /\ d.sends = c.sends /\ d.endpoint = c.endpoint
    BY DEF Good, Sound, Shaped, Fields
  <1> HIDE DEF d
  <1>2. Asking(c) /\ Asking(d) /\ Answering(d)
    BY <1>1 DEF Asking, Answering
  <1>3. Good(d)
    BY <1>1, <1>2 DEF Good, Sound, Shaped, InTurn, Proving, Counted, Timing, Phases
  <1> QED BY <1>3 DEF d

LEMMA PartArrivesGood == Good(exchange) /\ PartArrives => Good(exchange')
  <1> SUFFICES ASSUME Good(exchange), PartArrives PROVE Good(exchange')
    OBVIOUS
  <1>1. PICK c \in Found :
          /\ Attached /\ Fetching(c)
          /\ \/ Called([Sends(c, "Plain", 0) EXCEPT !.state = "Receiving"])
             \/ Called(Completes(c))
             \/ Called(Fails(c))
    BY DEF PartArrives
  <1> DEFINE b == Sends(c, "Plain", 0)
  <1>2. Good(c) /\ Answering(c) /\ c.state # "Failed"
    BY <1>1, FoundGood DEF Same, Attached, Alive, Fetching
  <1>3. Good(b) /\ b.request = c.request
    BY <1>2, SendsGood DEF Kinds
  <1> HIDE DEF b
  <1>4. Answering(b)
    BY <1>2, <1>3 DEF Answering, Asking
  <1>5. Good([b EXCEPT !.state = "Receiving"])
    BY <1>3, <1>4, ReceivingGood
  <1>6. Good(Completes(c)) /\ Good(Fails(c))
    BY <1>1, <1>2, CompletesGood, FailsSteps DEF Steps
  <1> QED BY <1>1, <1>5, <1>6, CalledGood DEF b

LEMMA HashmapArrivesGood == Good(exchange) /\ HashmapArrives => Good(exchange')
  <1> SUFFICES ASSUME Good(exchange), NEW c \in Found,
                      Called(Sends(c, "Plain", 0)) \/ Called(Fails(c))
               PROVE  Good(exchange')
    BY DEF HashmapArrives
  <1>1. Good(c)
    BY FoundGood
  <1>2. Good(Sends(c, "Plain", 0)) /\ Good(Fails(c))
    BY <1>1, SendsSteps, FailsSteps DEF Steps, Kinds
  <1> QED BY <1>2, CalledGood

LEMMA ResourceCancelledGood == Good(exchange) /\ ResourceCancelled => Good(exchange')
  <1> SUFFICES ASSUME Good(exchange), ResourceCancelled PROVE Good(exchange')
    OBVIOUS
  <1>1. PICK c \in Found :
          \/ Called(Fails(c))
          \/ /\ Answering(c)
             /\ Called(Fails([c EXCEPT !.request = [c.request EXCEPT !.response =
                                 [c.request.response EXCEPT !.fetching = FALSE]]]))
    BY DEF ResourceCancelled
  <1> DEFINE d == [c EXCEPT !.request = [c.request EXCEPT !.response =
                                 [c.request.response EXCEPT !.fetching = FALSE]]]
  <1>2. Good(c) /\ (Answering(c) => Good(d))
    BY FoundGood, GivenUpGood
  <1> HIDE DEF d
  <1>3. Good(Fails(c)) /\ (Answering(c) => Good(Fails(d)))
    BY <1>2, FailsSteps DEF Steps
  <1> QED BY <1>1, <1>3, CalledGood DEF d

LEMMA UploadAskedGood == Good(exchange) /\ UploadAsked => Good(exchange')
  <1> SUFFICES ASSUME Good(exchange), NEW c \in Found,
                      \/ Called(Sends(c, "Upload", 0))
                      \/ Called(Fails(Sends(c, "Upload", 0)))
                      \/ Called(Fails(c))
               PROVE  Good(exchange')
    BY DEF UploadAsked
  <1>1. Good(c)
    BY FoundGood
  <1>2. Good(Sends(c, "Upload", 0)) /\ Good(Fails(c))
    BY <1>1, SendsSteps, FailsSteps DEF Steps, Kinds
  <1>3. Good(Fails(Sends(c, "Upload", 0)))
    BY <1>2, FailsSteps DEF Steps
  <1> QED BY <1>2, <1>3, CalledGood

LEMMA UploadProvedGood == Good(exchange) /\ UploadProved => Good(exchange')
  <1> SUFFICES ASSUME Good(exchange), NEW c \in Found, Asking(c), Called(Awaited(Retired(c)))
               PROVE  Good(exchange')
    BY DEF UploadProved
  <1> DEFINE d == Retired(c)
  <1>1. Good(c)
    BY FoundGood
  <1>2. /\ DOMAIN d = Fields /\ d.state = c.state /\ d.link = c.link /\ d.endpoint = c.endpoint
        /\ d.made = c.made /\ d.links = c.links /\ d.sends = c.sends /\ Asking(d)
        /\ d.request \in Query /\ d.request.gen = c.request.gen
        /\ d.request.response = c.request.response
    BY <1>1, RetiredAre DEF Good, Sound, Shaped
  <1> HIDE DEF d
  <1>3. Answering(d) <=> Answering(c)
    BY <1>2 DEF Answering
  <1>4. Sound(d)
    BY <1>1, <1>2, <1>3 DEF Good, Sound, Shaped, InTurn, Proving, Counted, Phases
  <1>5. Good(Awaited(d))
    BY <1>2, <1>4, AwaitedGood
  <1> QED BY <1>5, CalledGood DEF d

-----------------------------------------------------------------------------
LEMMA ExchangeInitGood == ExchangeInit => Good(exchange)
  <1> SUFFICES ASSUME ExchangeInit PROVE Good(exchange)
    OBVIOUS
  <1>1. /\ DOMAIN exchange = Fields /\ exchange.state = "Idle" /\ exchange.link = 0
        /\ exchange.request = NoRequest /\ exchange.made = 0 /\ exchange.links = 0
        /\ exchange.sends = {} /\ exchange.endpoint = "none"
    BY DEF ExchangeInit, Fields
  <1>2. ~Asking(exchange) /\ ~Answering(exchange)
    BY <1>1 DEF Asking, Answering
  <1> QED
    BY <1>1, <1>2, ExchangeAssumption
    DEF Good, Sound, Shaped, InTurn, Proving, Counted, Timing, Phases

ExchangeInv == Good(exchange)

(* Every call of the client keeps the invariant: the answer is in turn, a   *)
(* proof is of the segment that waits for it, and a clock runs.             *)
THEOREM ExchangeKept == ExchangeSpec => []ExchangeInv
  <1>1. ExchangeInv /\ [ExchangeNext]_exchangeVars => ExchangeInv'
    <2> SUFFICES ASSUME Good(exchange), [ExchangeNext]_exchangeVars PROVE Good(exchange')
      BY DEF ExchangeInv
    <2>1. CASE Calls
      BY <2>1, StartDownloadGood, CancelDownloadGood, TickGood DEF Calls
    <2>2. CASE Results
      BY <2>2, LinkRequestResultGood, SendTakenGood, ProofTakenGood, SendRejectedGood,
         SendUnansweredGood, CleanupResultGood, BindResultGood, EndpointEndsGood DEF Results
    <2>3. CASE Arrives
      BY <2>3, LinkProofGood, LinkEndsGood, ResponseArrivesGood, AdvertisementArrivesGood,
         PartArrivesGood, HashmapArrivesGood, ResourceCancelledGood, UploadAskedGood,
         UploadProvedGood DEF Arrives
    <2>4. CASE UNCHANGED exchangeVars
      BY <2>4 DEF exchangeVars
    <2> QED BY <2>1, <2>2, <2>3, <2>4 DEF ExchangeNext
  <1>2. ExchangeInit => ExchangeInv
    BY ExchangeInitGood DEF ExchangeInv
  <1> QED BY <1>1, <1>2, PTL DEF ExchangeSpec

(* An answer is made of the segments of one request, each once and in turn, *)
(* for any number of downloads, requests and segments and any queue to the  *)
(* transport (poll_endpoint_send_results, handle_resource_advertisement).   *)
THEOREM AnswersAreWhole == ExchangeSpec => []AnswerWhole
  <1>1. ExchangeInv => AnswerWhole
    BY DEF ExchangeInv, Good, Sound, InTurn, AnswerWhole
  <1> QED BY ExchangeKept, <1>1, PTL

(* A client that waits has a request whose send, upload, answer or transfer *)
(* has a deadline that runs (handle_outbound_proof, tick).                  *)
THEOREM ClocksRun == ExchangeSpec => []ClockRuns
  <1>1. ExchangeInv => ClockRuns
    BY DEF ExchangeInv, Good, Sound, Timing, Phases, ClockRuns, Alive
  <1> QED BY ExchangeKept, <1>1, PTL
=============================================================================
