----------------------------- MODULE TicketStore -----------------------------
(***************************************************************************)
(* Reply tickets: TicketStore (crates/lxmf-core/src/ticket.rs), the intent *)
(* that must be durable before a message with a new ticket is signed       *)
(* (router.rs, prepare_outbound), and the coordinator of ticket writes     *)
(* (persist.rs, TicketPersistenceSnapshot).                                *)
(*                                                                         *)
(* A snapshot of the store gets a revision when it is captured and is      *)
(* written later: a checkpoint by a task of its own, an intent by the      *)
(* sender.  The coordinator is in memory and writes one at a time, so each *)
(* write is one step, with the outcomes of DurableFile; the process may    *)
(* die or the power fail between any two.                                  *)
(***************************************************************************)
EXTENDS Naturals, FiniteSets

CONSTANTS
    Recipients, Drafts, NoTicket,
    Expiry, Renew, Grace, TicketInterval,      \* TICKET_EXPIRY, _RENEW, _GRACE, _INTERVAL
    MaxTime,                             \* bound of the clock
    MaxRevision,                         \* bound: snapshots a process captures
    MaxCheckpoints,                      \* bound: checkpoints not yet written
    MaxTicketFaults                      \* bound: failed writes, deaths and power losses

ASSUME TicketAssumption ==
    /\ Expiry \in Nat /\ Renew \in Nat /\ Grace \in Nat /\ TicketInterval \in Nat
    /\ MaxTime \in Nat /\ MaxRevision \in Nat /\ MaxCheckpoints \in Nat /\ MaxTicketFaults \in Nat

VARIABLES
    time,
    issued,            \* inbound: the tickets peers may use
    delivered,         \* last_deliveries
    revision,          \* the next revision
    checkpoints,       \* snapshots that tasks have still to write
    floor,             \* Latest
    ticketFile,        \* available_tickets
    drafts,            \* messages that asked for a reply ticket
    ticketFaults

memory == <<issued, delivered>>
ticketVars == <<time, memory, revision, checkpoints, floor, ticketFile, drafts, ticketFaults>>

Durable == INSTANCE DurableFile WITH None <- NoTicket

Times == 0 .. MaxTime + Expiry
Ticket == [peer: Recipients, expires: Times]
Content == [issued: SUBSET Ticket, delivered: [Recipients -> Times \cup {NoTicket}]]
Empty == [issued |-> {}, delivered |-> [p \in Recipients |-> NoTicket]]
Snapshot == [rev: 1..MaxRevision, content: Content]
Floor == [rev: 1..MaxRevision, committed: BOOLEAN]
NoDraft == [state |-> "new", ticket |-> NoTicket, snapshot |-> NoTicket]

ASSUME NoTicketAssumption == NoTicket \notin Ticket \cup Content \cup Snapshot \cup Floor

TicketInit ==
    /\ time = 0 /\ issued = {} /\ delivered = Empty.delivered
    /\ revision = 1 /\ checkpoints = {} /\ floor = NoTicket
    /\ ticketFile = Durable!Settled(NoTicket)
    /\ drafts = [d \in Drafts |-> NoDraft] /\ ticketFaults = 0

-----------------------------------------------------------------------------
(* TicketStore.  The tickets learned from peers are left out: they change   *)
(* nothing here.                                                            *)

Within(last, n) == last # NoTicket /\ time < last + n

ShouldIssue(p) == ~Within(delivered[p], TicketInterval)

(* issue_for: a ticket with more than the renewal period left, or a new one *)
Reusable(p) == {t \in issued : t.peer = p /\ t.expires > time + Renew}
IssueFor(p) == IF Reusable(p) = {} THEN {[peer |-> p, expires |-> time + Expiry]} ELSE Reusable(p)

(* cull, of what is read from the file or of the store itself.              *)
CulledIssued(c) == {t \in c.issued : time < t.expires + Grace}
Culled(c) ==
    [issued |-> CulledIssued(c),
     delivered |-> [p \in Recipients |-> IF Within(c.delivered[p], TicketInterval) THEN c.delivered[p]
                                    ELSE NoTicket]]
Memory == [issued |-> issued, delivered |-> delivered]
Restores(c) == issued' = c.issued /\ delivered' = c.delivered

Cull ==
    /\ Restores(Culled(Memory))
    /\ UNCHANGED <<time, revision, checkpoints, floor, ticketFile, drafts, ticketFaults>>

-----------------------------------------------------------------------------
(* prepare_outbound and sign: a draft waits behind its barrier, and no      *)
(* other intent is made meanwhile.                                          *)

Captured(c) == [rev |-> revision, content |-> c]

Prepare(d, p) ==
    /\ drafts[d].state = "new" /\ revision <= MaxRevision
    /\ \A e \in Drafts : drafts[e].state # "pending"
    /\ IF ShouldIssue(p)
       THEN \E t \in IssueFor(p) :
              LET kept == [Memory EXCEPT !.issued = @ \cup {t}]
              IN  /\ issued' = kept.issued /\ revision' = revision + 1
                  /\ drafts' = [drafts EXCEPT ![d] = [state |-> "pending", ticket |-> t,
                                                      snapshot |-> Captured(kept)]]
       ELSE /\ drafts' = [drafts EXCEPT ![d].state = "ready"]
            /\ UNCHANGED <<issued, revision>>
    /\ UNCHANGED <<time, delivered, checkpoints, floor, ticketFile, ticketFaults>>

Sign(d) ==
    /\ drafts[d].state = "ready"
    /\ drafts' = [drafts EXCEPT ![d].state = "signed", ![d].snapshot = NoTicket]
    /\ UNCHANGED <<time, memory, revision, checkpoints, floor, ticketFile, ticketFaults>>

DropDraft(d) ==
    /\ drafts[d].state \in {"pending", "ready"}
    /\ drafts' = [drafts EXCEPT ![d] = [NoDraft EXCEPT !.state = "dropped"]]
    /\ UNCHANGED <<time, memory, revision, checkpoints, floor, ticketFile, ticketFaults>>

(* complete_outbound_message of a signed message that carries a ticket.     *)
Delivered(d) ==
    /\ drafts[d].state = "signed" /\ drafts[d].ticket # NoTicket
    /\ delivered' = [delivered EXCEPT ![drafts[d].ticket.peer] = time]
    /\ UNCHANGED <<time, issued, revision, checkpoints, floor, ticketFile, drafts,
                   ticketFaults>>

-----------------------------------------------------------------------------
(* TicketPersistenceSnapshot::save.                                         *)

Mut_Older(s) == FALSE                  \* no revision is compared

Older(s) == floor # NoTicket /\ s.rev < floor.rev

(* A newer snapshot is in the file, with the required ticket.               *)
Superseded(s, required) ==
    /\ Older(s) /\ floor.committed
    /\ required # NoTicket => required \in ticketFile.vis.issued

Outcomes == {"ok"} \cup IF ticketFaults < MaxTicketFaults THEN {"notCommitted", "uncertain"} ELSE {}

(* Even a failed write raises the floor.                                    *)
Writes(s, o) ==
    /\ ~Older(s)
    /\ floor' = [rev |-> s.rev, committed |-> o = "ok"]
    /\ ticketFile' = Durable!Written(ticketFile, s.content, o)
    /\ ticketFaults' = IF o = "ok" THEN ticketFaults ELSE ticketFaults + 1

NoWrite == UNCHANGED <<floor, ticketFile, ticketFaults>>

(* OutboundTicketIntent::persist.  After an error the intent is gone and    *)
(* its draft can only be dropped.                                           *)
Persist(d) ==
    LET s == drafts[d].snapshot
        t == drafts[d].ticket
        Then(state) == drafts' = [drafts EXCEPT ![d].state = state, ![d].snapshot = NoTicket]
    IN  /\ drafts[d].state = "pending" /\ s # NoTicket
        /\ \/ \E o \in Outcomes : Writes(s, o) /\ Then(IF o = "ok" THEN "ready" ELSE "pending")
           \/ Superseded(s, t) /\ Then("ready") /\ NoWrite
           \/ Older(s) /\ ~Superseded(s, t) /\ Then("pending") /\ NoWrite
        /\ UNCHANGED <<time, memory, revision, checkpoints>>

(* state_snapshot by the daemon, and its save by a task.                    *)
Checkpoint ==
    /\ revision <= MaxRevision /\ Cardinality(checkpoints) < MaxCheckpoints
    /\ checkpoints' = checkpoints \cup {Captured(Memory)} /\ revision' = revision + 1
    /\ UNCHANGED <<time, memory, floor, ticketFile, drafts, ticketFaults>>

SaveCheckpoint(s) ==
    /\ checkpoints' = checkpoints \ {s}
    /\ \/ \E o \in Outcomes : Writes(s, o)
       \/ Older(s) /\ NoWrite
    /\ UNCHANGED <<time, memory, revision, drafts>>

-----------------------------------------------------------------------------
(* The process dies, with or without power, and load_state reads the file.  *)
Lost(d) == IF drafts[d].state = "signed" THEN drafts[d] ELSE [NoDraft EXCEPT !.state = "dropped"]

Restart(file) ==
    /\ ticketFaults < MaxTicketFaults /\ ticketFaults' = ticketFaults + 1
    /\ ticketFile' = file
    /\ Restores(IF file.vis = NoTicket THEN Empty ELSE Culled(file.vis))
    /\ revision' = 1 /\ floor' = NoTicket /\ checkpoints' = {}
    /\ drafts' = [d \in Drafts |-> Lost(d)]
    /\ UNCHANGED time

Dies == Restart(ticketFile)
PowerLoss == \E v \in ticketFile.may : Restart(Durable!Settled(v))

TimePasses ==
    /\ time < MaxTime /\ time' = time + 1
    /\ UNCHANGED <<memory, revision, checkpoints, floor, ticketFile, drafts, ticketFaults>>

TicketNext ==
    \/ Cull \/ Checkpoint \/ Dies \/ PowerLoss \/ TimePasses
    \/ \E d \in Drafts : Sign(d) \/ DropDraft(d) \/ Delivered(d) \/ Persist(d)
    \/ \E d \in Drafts, p \in Recipients : Prepare(d, p)
    \/ \E s \in checkpoints : SaveCheckpoint(s)

TicketSpec == TicketInit /\ [][TicketNext]_ticketVars

-----------------------------------------------------------------------------
(* Properties.                                                              *)

Draft == [state: {"new", "pending", "ready", "signed", "dropped"}, ticket: Ticket \cup {NoTicket},
          snapshot: Snapshot \cup {NoTicket}]

TicketTypeOK ==
    /\ time \in 0..MaxTime
    /\ Memory \in Content
    /\ revision \in 1 .. MaxRevision + 1
    /\ checkpoints \subseteq Snapshot /\ floor \in Floor \cup {NoTicket}
    /\ ticketFile.vis \in Content \cup {NoTicket} /\ ticketFile.may \subseteq Content \cup {NoTicket}
    /\ drafts \in [Drafts -> Draft] /\ ticketFaults \in 0..MaxTicketFaults

(* A ticket that left in a signed message is kept until its grace period is *)
(* over (a reply with it is accepted until it expires, ticket.rs:144-150),  *)
(* also after a restart: it is in the store and in whatever the file can be *)
(* left with, although checkpoints and intents are written by several tasks *)
(* in any order ("a delayed checkpoint can never replace a ticket that a    *)
(* newer signing intent already committed", persist.rs).                    *)
Carries(d) == drafts[d].state = "signed" /\ drafts[d].ticket # NoTicket
InForce(t) == time < t.expires + Grace

TicketsHonoured ==
    \A d \in Drafts : Carries(d) /\ InForce(drafts[d].ticket) =>
        /\ drafts[d].ticket \in issued
        /\ \A c \in ticketFile.may \cup {ticketFile.vis} :
             c # NoTicket /\ drafts[d].ticket \in c.issued

=============================================================================
