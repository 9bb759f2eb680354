---------------------------- MODULE AdmissionStore ----------------------------
(***************************************************************************)
(* The file adapter for durable download receipts and the hook outbox      *)
(* (crates/lxmf-core/src/admission_store.rs), with the lxmd hook worker    *)
(* that drains it.                                                         *)
(*                                                                         *)
(* One mutex serialises commit, mark_user_deleted, maintain,               *)
(* pending_hooks and complete_hook, so `phase` names the one operation     *)
(* that holds it and the durable step that operation takes next; "idle" is *)
(* the free mutex.  Every durable_write, durable_remove and                *)
(* durable_reconcile is one step that may fail or be cut by a crash.       *)
(*                                                                         *)
(* One local identity is modelled: a message ID fixes the destination it   *)
(* was sent to, so scopes of two identities never share a message, and the *)
(* identity half of each key is dropped.                                   *)
(***************************************************************************)
EXTENDS Naturals, FiniteSets, DurableFile

CONSTANTS
    Scope,        \* (node, ciphertext TID) pairs, the keys of the receipts
    Message,      \* message IDs
    Image,        \* plaintext wire images; a hash of one is the image itself
    MessageOf,    \* the message a scope's ciphertext decrypts to
    MessageIn,    \* the message ID that parsing an image gives
    Dispositions, \* what callers of prepare() ask for
    RunHook,      \* whether an inbound command is configured
    Lifetime,     \* POLICY_RECEIPT_LIFETIME
    LedgerLimit,  \* live invisible receipts allowed (16384 per identity)
    Faults,       \* how a durable step may fail, beside "ok"
    MaxTime,      \* bound on the clock
    MaxFaults     \* bound on failed durable steps and crashes

ASSUME MessageAssumption ==
    /\ MessageOf \in [Scope -> Message]
    /\ MessageIn \in [Image -> Message]
    /\ None \notin Scope \cup Message \cup Image
ASSUME DispositionAssumption == Dispositions \subseteq {"Committed", "PolicyDiscard"}
ASSUME FaultAssumption == Faults \subseteq {"notCommitted", "uncertain", "torn"}
ASSUME BoundAssumption ==
    /\ RunHook \in BOOLEAN
    /\ Lifetime \in Nat /\ LedgerLimit \in Nat
    /\ MaxTime \in Nat /\ MaxFaults \in Nat

VARIABLES
    tombFile,     \* <identity>-<message>.deleted
    intentFile,   \* <admission id>.intent
    commitFile,   \* <admission id>.commit
    bodyFile,     \* bodies/<message>.lxm
    committed,    \* Inner::committed
    deleted,      \* Inner::deleted
    phase,        \* the operation under way and its next durable step
    todo,         \* scopes the operation has still to visit
    job,          \* the receipt the operation is writing
    victim,       \* the message mark_user_deleted is deleting
    hookTask,     \* the lxmd hook worker: the event it runs
    now,
    faults,
    accepted,     \* scopes whose commit() returned a visible receipt
    deleteAsked,  \* messages mark_user_deleted was called for
    deleteDone,   \* messages for which it returned Ok
    hookRan       \* messages whose inbound command succeeded

disk == <<tombFile, intentFile, commitFile, bodyFile>>
memory == <<committed, deleted>>
control == <<phase, todo, job, victim>>
asked == <<accepted, deleteAsked, deleteDone, hookRan>>
vars == <<disk, memory, control, hookTask, now, faults, asked>>

Visible == {"Committed", "Duplicate"}
Invisible == {"PolicyDiscard", "UserDeleted"}

(* Exactly the receipts of visible messages refer to an archived content.   *)
Record == {r \in [disp: Visible \cup Invisible, wire: Image, stored: Image \cup {None},
                  at: 0 .. MaxTime] : r.stored = None <=> r.disp \in Invisible}
Intent == [rec: Record, hook: BOOLEAN]
Commit == [rec: Record, hook: BOOLEAN, done: BOOLEAN]
Job == [scope: Scope, rec: Record, hook: BOOLEAN]

ASSUME NoneAssumption == None \notin Intent \cup Commit

-----------------------------------------------------------------------------
(* Durable files (DurableFile): how one more write may end.                 *)

Outcome == {"ok"} \cup (IF faults < MaxFaults THEN Faults ELSE {})
Count(o) == faults' = IF o = "ok" THEN faults ELSE faults + 1

(* The outcome of the i-th durable call of a chain that stops at its first  *)
(* failure, which is call number `at` and has outcome o.                    *)
Nth(i, at, o) == IF o = "ok" \/ i < at THEN "ok" ELSE IF i = at THEN o ELSE "skipped"

(* The operation goes on to `next` with its locals, or it ends: with its    *)
(* last step, with an error to its caller, or with the process.  Ending     *)
(* releases the mutex.                                                      *)
Go(o, next, j, t, v) ==
    LET on == o = "ok" /\ next # "idle" IN
    /\ phase' = IF o = "ok" THEN next ELSE IF o = "torn" THEN "torn" ELSE "idle"
    /\ job' = IF on THEN j ELSE None
    /\ todo' = IF on THEN t ELSE {}
    /\ victim' = IF on THEN v ELSE None
    /\ Count(o)

Live(rec) == rec.disp \in Visible \/ now - rec.at < Lifetime
LiveInvisible == {s \in Scope : /\ committed[s] # None
                                /\ committed[s].rec.disp \in Invisible
                                /\ Live(committed[s].rec)}
Pending(s) == committed[s] # None /\ committed[s].hook /\ ~committed[s].done

Phase == {"down", "tombs", "commits", "intents", "idle", "intent", "body", "commit",
          "delIntent", "delCommit", "pruneIntent", "pruneCommit", "torn"}
Idle == phase = "idle"
-----------------------------------------------------------------------------
Init ==
    /\ tombFile = [m \in Message |-> Settled(None)]
    /\ intentFile = [s \in Scope |-> Settled(None)]
    /\ commitFile = [s \in Scope |-> Settled(None)]
    /\ bodyFile = [m \in Message |-> Settled(None)]
    /\ committed = [s \in Scope |-> None]
    /\ deleted = {}
    /\ phase = "idle" /\ todo = {} /\ job = None /\ victim = None
    /\ hookTask = None
    /\ now = 0 /\ faults = 0
    /\ accepted = {} /\ deleteAsked = {} /\ deleteDone = {} /\ hookRan = {}

(* commit() for a scope whose live visible receipt stands: the archive is   *)
(* validated and reconciled again, and the old receipt is returned.         *)
CommitAgain(s, w) ==
    LET old == committed[s]
        m == MessageOf[s]
    IN  /\ Idle /\ MessageIn[w] = m
        /\ "Committed" \in Dispositions
        /\ old # None /\ old.rec.wire = w
        /\ m \notin deleted /\ old.rec.disp \in Visible
        /\ bodyFile[m].vis = old.rec.stored
        /\ \E o \in Outcome :
             /\ bodyFile' = [bodyFile EXCEPT ![m] = Reconciled(@, o)]
             /\ accepted' = IF o = "ok" THEN accepted \cup {s} ELSE accepted
             /\ Go(o, "idle", None, {}, None)
        /\ UNCHANGED <<tombFile, intentFile, commitFile, memory, hookTask, now, deleteAsked,
                       deleteDone, hookRan>>

(* A deleted message is admitted again only as a record of its deletion.    *)
Disposition(m, d) == IF m \in deleted THEN "UserDeleted" ELSE d

(* Mutant: the image just received replaces the archive.                    *)
Mut_NewlyVisible(m, disp) == disp \in Visible

(* The archive that is already there wins over the image just received.     *)
NewlyVisible(m, disp) == disp \in Visible /\ bodyFile[m].vis = None

StoredImage(m, w, disp) ==
    IF disp \in Invisible THEN None ELSE IF NewlyVisible(m, disp) THEN w ELSE bodyFile[m].vis

(* commit(): every check before the intent is written.                      *)
StartCommit(s, w, d) ==
    LET old == committed[s]
        m == MessageOf[s]
        disp == Disposition(m, d)
        new == NewlyVisible(m, disp)
        rec == [disp |-> IF disp \in Visible /\ ~new THEN "Duplicate" ELSE disp,
                wire |-> w,
                stored |-> StoredImage(m, w, disp),
                at |-> now]
    IN  /\ Idle /\ MessageIn[w] = m
        /\ old # None => old.rec.wire = w
        /\ ~(/\ old # None /\ m \notin deleted
             /\ old.rec.disp \in Visible /\ d = "Committed")
        /\ disp \in Invisible => Cardinality(LiveInvisible) < LedgerLimit
        /\ job' = [scope |-> s, rec |-> rec, hook |-> RunHook /\ new]
        /\ phase' = "intent"
        /\ UNCHANGED <<disk, memory, todo, victim, hookTask, now, faults, asked>>

AfterIntent(rec) == IF rec.disp \in Visible THEN "body" ELSE "commit"

WriteIntent ==
    /\ phase = "intent"
    /\ \E o \in Outcome :
         /\ intentFile' = [intentFile EXCEPT ![job.scope] =
                             Written(@, [rec |-> job.rec, hook |-> job.hook], o)]
         /\ Go(o, AfterIntent(job.rec), job, {}, None)
    /\ UNCHANGED <<tombFile, commitFile, bodyFile, memory, hookTask, now, asked>>

(* durable_write of a new archive, durable_reconcile of one that exists.    *)
WriteBody ==
    LET m == MessageOf[job.scope] IN
    /\ phase = "body"
    /\ \E o \in Outcome :
         /\ bodyFile' = [bodyFile EXCEPT ![m] = Written(@, job.rec.stored, o)]
         /\ Go(o, "commit", job, {}, None)
    /\ UNCHANGED <<tombFile, intentFile, commitFile, memory, hookTask, now, asked>>

(* Mutant: the event is left behind in the intent.                          *)
Mut_Published(intent) == [rec |-> intent.rec, hook |-> FALSE, done |-> FALSE]

(* The commit record carries the receipt and the hook event together.       *)
Published(intent) == [rec |-> intent.rec, hook |-> intent.hook, done |-> FALSE]

WriteCommit ==
    LET s == job.scope
        commit == Published(job)
    IN  /\ phase = "commit"
        /\ \E o \in Outcome :
             /\ commitFile' = [commitFile EXCEPT ![s] = Written(@, commit, o)]
             /\ committed' = IF o = "ok" THEN [committed EXCEPT ![s] = commit] ELSE committed
             /\ accepted' = IF o = "ok" /\ job.rec.disp \in Visible
                            THEN accepted \cup {s} ELSE accepted
             /\ Go(o, "idle", None, {}, None)
        /\ UNCHANGED <<tombFile, intentFile, bodyFile, deleted, hookTask, now, deleteAsked,
                       deleteDone, hookRan>>

-----------------------------------------------------------------------------
(* mark_user_deleted(): the tombstone first, then every receipt of the      *)
(* message, last the archive.                                               *)
StartDelete(m) ==
    /\ Idle
    /\ deleteAsked' = deleteAsked \cup {m}
    /\ \E o \in Outcome :
         /\ tombFile' = [tombFile EXCEPT ![m] = Written(@, m, o)]
         /\ deleted' = IF o = "ok" THEN deleted \cup {m} ELSE deleted
         /\ Go(o, "delIntent", None,
               {s \in Scope : committed[s] # None /\ MessageOf[s] = m}, m)
    /\ UNCHANGED <<intentFile, commitFile, bodyFile, committed, hookTask, now, accepted,
                   deleteDone, hookRan>>

DeleteIntent(s) ==
    LET rec == [committed[s].rec EXCEPT !.disp = "UserDeleted", !.stored = None, !.at = now]
    IN  /\ phase = "delIntent" /\ s \in todo
        /\ \E o \in Outcome :
             /\ intentFile' = [intentFile EXCEPT ![s] =
                                 Written(@, [rec |-> rec, hook |-> FALSE], o)]
             /\ Go(o, "delCommit", [scope |-> s, rec |-> rec, hook |-> FALSE], todo, victim)
        /\ UNCHANGED <<tombFile, commitFile, bodyFile, memory, hookTask, now, asked>>

DeleteCommit ==
    LET s == job.scope
        commit == [rec |-> job.rec, hook |-> FALSE, done |-> TRUE]
    IN  /\ phase = "delCommit"
        /\ \E o \in Outcome :
             /\ commitFile' = [commitFile EXCEPT ![s] = Written(@, commit, o)]
             /\ committed' = IF o = "ok" THEN [committed EXCEPT ![s] = commit] ELSE committed
             /\ Go(o, "delIntent", None, todo \ {s}, victim)
        /\ UNCHANGED <<tombFile, intentFile, bodyFile, deleted, hookTask, now, asked>>

DeleteBody ==
    /\ phase = "delIntent" /\ todo = {}
    /\ \E o \in Outcome :
         /\ bodyFile' = [bodyFile EXCEPT ![victim] = Written(@, None, o)]
         /\ deleteDone' = IF o = "ok" THEN deleteDone \cup {victim} ELSE deleteDone
         /\ Go(o, "idle", None, {}, None)
    /\ UNCHANGED <<tombFile, intentFile, commitFile, memory, hookTask, now, accepted,
                   deleteAsked, hookRan>>

-----------------------------------------------------------------------------
(* Mutant: every invisible receipt is pruned, expired or not.               *)
Mut_Expired == {s \in Scope : committed[s] # None /\ committed[s].rec.disp \in Invisible}

(* maintain(): prune the receipts that are no longer live.  Writing the     *)
(* pruning witness touches no modelled file; if it fails nothing happens.   *)
Expired == {s \in Scope : committed[s] # None /\ ~Live(committed[s].rec)}

StartMaintain ==
    /\ Idle /\ Expired # {}
    /\ todo' = Expired
    /\ phase' = "pruneIntent"
    /\ UNCHANGED <<disk, memory, job, victim, hookTask, now, faults, asked>>

PruneIntent(s) ==
    /\ phase = "pruneIntent" /\ s \in todo
    /\ \E o \in Outcome :
         /\ intentFile' = [intentFile EXCEPT ![s] = Written(@, None, o)]
         /\ Go(o, "pruneCommit", [scope |-> s, rec |-> committed[s].rec, hook |-> FALSE],
               todo, None)
    /\ UNCHANGED <<tombFile, commitFile, bodyFile, memory, hookTask, now, asked>>

PruneCommit ==
    LET s == job.scope
        rest == todo \ {s}
    IN  /\ phase = "pruneCommit"
        /\ \E o \in Outcome :
             /\ commitFile' = [commitFile EXCEPT ![s] = Written(@, None, o)]
             /\ committed' = IF o = "ok" THEN [committed EXCEPT ![s] = None] ELSE committed
             /\ Go(o, IF rest = {} THEN "idle" ELSE "pruneIntent", None, rest, None)
        /\ UNCHANGED <<tombFile, intentFile, bodyFile, deleted, hookTask, now, asked>>

-----------------------------------------------------------------------------
(* The hook outbox: lxmd takes one of pending_hooks(), runs the command     *)
(* outside the mutex, and records completion with complete_hook().          *)
TakeHook(s) ==
    /\ Idle /\ RunHook /\ hookTask = None
    /\ Pending(s) /\ committed[s].rec.disp \in Visible
    /\ hookTask' = [scope |-> s, ran |-> FALSE]
    /\ UNCHANGED <<disk, memory, control, now, faults, asked>>

HookSucceeds ==
    /\ hookTask # None /\ ~hookTask.ran /\ phase # "torn"
    /\ hookTask' = [hookTask EXCEPT !.ran = TRUE]
    /\ hookRan' = hookRan \cup {MessageOf[hookTask.scope]}
    /\ UNCHANGED <<disk, memory, control, now, faults, accepted, deleteAsked, deleteDone>>

(* Mutant: a failed command counts as run.                                  *)
Mut_HookFails ==
    /\ hookTask # None /\ ~hookTask.ran /\ phase # "torn"
    /\ hookTask' = [hookTask EXCEPT !.ran = TRUE]
    /\ UNCHANGED <<disk, memory, control, now, faults, asked>>

HookFails ==
    /\ hookTask # None /\ ~hookTask.ran /\ phase # "torn"
    /\ hookTask' = None
    /\ UNCHANGED <<disk, memory, control, now, faults, asked>>

CompleteHook ==
    LET s == hookTask.scope
        commit == [committed[s] EXCEPT !.done = TRUE]
    IN  /\ Idle /\ hookTask # None /\ hookTask.ran
        /\ hookTask' = None
        /\ IF committed[s] # None /\ committed[s].hook
           THEN \E o \in Outcome :
                  /\ commitFile' = [commitFile EXCEPT ![s] = Written(@, commit, o)]
                  /\ committed' = IF o = "ok" THEN [committed EXCEPT ![s] = commit]
                                  ELSE committed
                  /\ Go(o, "idle", None, {}, None)
           ELSE UNCHANGED <<commitFile, committed, control, faults>>
        /\ UNCHANGED <<tombFile, intentFile, bodyFile, deleted, now, asked>>

-----------------------------------------------------------------------------
(* The process dies: memory is gone, files stay as the kernel has them.     *)
Stopped ==
    /\ committed' = [s \in Scope |-> None] /\ deleted' = {}
    /\ phase' = "down" /\ todo' = {} /\ job' = None /\ victim' = None
    /\ hookTask' = None

Kill ==
    /\ phase # "down"
    /\ faults < MaxFaults \/ phase = "torn"
    /\ Stopped
    /\ faults' = IF phase = "torn" THEN faults ELSE faults + 1
    /\ UNCHANGED <<disk, now, asked>>

(* The machine dies: each file is left with one of the contents its failed  *)
(* barriers allow.                                                          *)

PowerLoss ==
    /\ faults < MaxFaults \/ phase = "torn"
    /\ Stopped
    /\ faults' = IF phase = "torn" THEN faults ELSE faults + 1
    /\ \E t \in [Message -> {None} \cup Message], b \in [Message -> {None} \cup Image] :
         /\ \A m \in Message : t[m] \in tombFile[m].may /\ b[m] \in bodyFile[m].may
         /\ tombFile' = [m \in Message |-> Settled(t[m])]
         /\ bodyFile' = [m \in Message |-> Settled(b[m])]
    /\ \E i \in [Scope -> UNION {intentFile[s].may : s \in Scope}],
          c \in [Scope -> UNION {commitFile[s].may : s \in Scope}] :
         /\ \A s \in Scope : i[s] \in intentFile[s].may /\ c[s] \in commitFile[s].may
         /\ intentFile' = [s \in Scope |-> Settled(i[s])]
         /\ commitFile' = [s \in Scope |-> Settled(c[s])]
    /\ UNCHANGED <<now, asked>>

(* recover(), first pass: tombstones, each with the removal of its body; an *)
(* error fails open().                                                      *)
Open ==
    /\ phase = "down"
    /\ phase' = "tombs"
    /\ UNCHANGED <<disk, memory, todo, job, victim, hookTask, now, faults, asked>>

RecoverTomb(m) ==
    /\ phase = "tombs" /\ tombFile[m].vis # None /\ m \notin deleted
    /\ \E o \in Outcome, at \in 1 .. 2 :
         /\ tombFile' = [tombFile EXCEPT ![m] = Reconciled(@, Nth(1, at, o))]
         /\ bodyFile' = [bodyFile EXCEPT ![m] = Written(@, None, Nth(2, at, o))]
         /\ IF o = "ok" THEN deleted' = deleted \cup {m} /\ phase' = phase
                        ELSE deleted' = {} /\ phase' = "down"
         /\ Count(o)
    /\ UNCHANGED <<intentFile, commitFile, committed, todo, job, victim, hookTask, now,
                   asked>>

TombsRecovered ==
    /\ phase = "tombs"
    /\ \A m \in Message : tombFile[m].vis # None => m \in deleted
    /\ phase' = "commits"
    /\ todo' = {s \in Scope : commitFile[s].vis # None}
    /\ UNCHANGED <<disk, memory, job, victim, hookTask, now, faults, asked>>

(* validate_body(): what an artifact must satisfy to regain authority.      *)
ValidBody(s, rec) ==
    /\ MessageOf[s] \in deleted => rec.disp = "UserDeleted"
    /\ rec.disp \in Visible => bodyFile[MessageOf[s]].vis = rec.stored

(* Mutant: reading the body back is taken as proof that it is durable.      *)
Mut_ReconcileBody(s, rec, o) == bodyFile' = bodyFile

(* The body is reconciled only where the receipt refers to one.             *)
ReconcileBody(s, rec, o) ==
    bodyFile' = IF rec.disp \in Visible
                THEN [bodyFile EXCEPT ![MessageOf[s]] = Reconciled(@, o)]
                ELSE bodyFile

(* A failed artifact is kept, without authority, and the pass goes on.      *)
Continue(o) == phase' = IF o = "torn" THEN "torn" ELSE phase

RecoverCommit(s) ==
    LET commit == commitFile[s].vis IN
    /\ phase = "commits" /\ s \in todo
    /\ todo' = todo \ {s}
    /\ IF ValidBody(s, commit.rec)
       THEN \E o \in Outcome, at \in 1 .. 2 :
              /\ ReconcileBody(s, commit.rec, Nth(1, at, o))
              /\ commitFile' = [commitFile EXCEPT ![s] = Reconciled(@, Nth(2, at, o))]
              /\ committed' = IF o = "ok" THEN [committed EXCEPT ![s] = commit] ELSE committed
              /\ Continue(o) /\ Count(o)
       ELSE UNCHANGED <<bodyFile, commitFile, committed, phase, faults>>
    /\ UNCHANGED <<tombFile, intentFile, deleted, job, victim, hookTask, now, asked>>

CommitsRecovered ==
    /\ phase = "commits" /\ todo = {}
    /\ phase' = "intents"
    /\ todo' = {s \in Scope : intentFile[s].vis # None}
    /\ UNCHANGED <<disk, memory, job, victim, hookTask, now, faults, asked>>

(* Third pass: an intent whose commit is missing or older is published.     *)
RecoverIntent(s) ==
    LET intent == intentFile[s].vis
        commit == Published(intent)
        known == committed[s] # None /\ committed[s].rec = intent.rec
    IN  /\ phase = "intents" /\ s \in todo
        /\ todo' = todo \ {s}
        /\ IF ~known /\ ValidBody(s, intent.rec)
           THEN \E o \in Outcome, at \in 1 .. 3 :
                  /\ ReconcileBody(s, intent.rec, Nth(1, at, o))
                  /\ intentFile' = [intentFile EXCEPT ![s] = Reconciled(@, Nth(2, at, o))]
                  /\ commitFile' = [commitFile EXCEPT ![s] = Written(@, commit, Nth(3, at, o))]
                  /\ committed' = IF o = "ok" THEN [committed EXCEPT ![s] = commit]
                                  ELSE committed
                  /\ Continue(o) /\ Count(o)
           ELSE UNCHANGED <<bodyFile, intentFile, commitFile, committed, phase, faults>>
        /\ UNCHANGED <<tombFile, deleted, job, victim, hookTask, now, asked>>

Recovered ==
    /\ phase = "intents" /\ todo = {}
    /\ phase' = "idle"
    /\ UNCHANGED <<disk, memory, todo, job, victim, hookTask, now, faults, asked>>

Tick ==
    /\ now < MaxTime
    /\ now' = now + 1
    /\ UNCHANGED <<disk, memory, control, hookTask, faults, asked>>
-----------------------------------------------------------------------------
Commits ==
    \/ \E s \in Scope, w \in Image : CommitAgain(s, w)
    \/ \E s \in Scope, w \in Image, d \in Dispositions : StartCommit(s, w, d)
    \/ WriteIntent
    \/ WriteBody
    \/ WriteCommit

Deletes ==
    \/ \E m \in Message : StartDelete(m)
    \/ \E s \in Scope : DeleteIntent(s)
    \/ DeleteCommit
    \/ DeleteBody

Maintains ==
    \/ StartMaintain
    \/ \E s \in Scope : PruneIntent(s)
    \/ PruneCommit

Hooks ==
    \/ \E s \in Scope : TakeHook(s)
    \/ HookSucceeds
    \/ HookFails
    \/ CompleteHook

Crashes == Kill \/ PowerLoss

Recovers ==
    \/ Open
    \/ \E m \in Message : RecoverTomb(m)
    \/ TombsRecovered
    \/ \E s \in Scope : RecoverCommit(s)
    \/ CommitsRecovered
    \/ \E s \in Scope : RecoverIntent(s)
    \/ Recovered

Next == Commits \/ Deletes \/ Maintains \/ Hooks \/ Crashes \/ Recovers \/ Tick

Spec == Init /\ [][Next]_vars

(* A held mutex is released (every started step returns or the process      *)
(* dies), a stopped daemon is started again, and the hook worker's turns at *)
(* the mutex and its handler's successes are not denied for ever.           *)
Proceeds == WriteIntent \/ WriteBody \/ WriteCommit \/ DeleteCommit \/ DeleteBody
            \/ PruneCommit \/ \E s \in Scope : DeleteIntent(s) \/ PruneIntent(s)
Dies == phase = "torn" /\ Kill
Fairness ==
    /\ WF_vars(Proceeds) /\ WF_vars(Recovers) /\ WF_vars(Dies)
    /\ SF_vars(\E s \in Scope : TakeHook(s))
    /\ SF_vars(HookSucceeds) /\ SF_vars(CompleteHook)
FairSpec == Spec /\ Fairness
-----------------------------------------------------------------------------
(* Type invariant.                                                          *)
TypeOK ==
    /\ tombFile \in [Message -> File(Message)]
    /\ intentFile \in [Scope -> File(Intent)]
    /\ commitFile \in [Scope -> File(Commit)]
    /\ bodyFile \in [Message -> File(Image)]
    /\ committed \in [Scope -> Commit \cup {None}]
    /\ deleted \subseteq Message
    /\ phase \in Phase
    /\ todo \subseteq Scope
    /\ job \in Job \cup {None}
    /\ victim \in Message \cup {None}
    /\ hookTask \in [scope: Scope, ran: BOOLEAN] \cup {None}
    /\ now \in 0 .. MaxTime
    /\ faults \in 0 .. MaxFaults
    /\ accepted \subseteq Scope
    /\ deleteAsked \subseteq Message /\ deleteDone \subseteq Message
    /\ hookRan \subseteq Message

(* A receipt that haves() reports for an archived message always has its    *)
(* archive behind it, with the recorded content and past every durability   *)
(* barrier: no power loss at any moment can take it away.  What an earlier  *)
(* uncertain write left readable is no such backing (admission_store.rs:444).*)
ReceiptBacked ==
    \A s \in Scope :
        committed[s] # None /\ committed[s].rec.disp \in Visible
                            /\ MessageOf[s] \notin deleted
            => bodyFile[MessageOf[s]] = Settled(committed[s].rec.stored)

(* A live receipt in memory is recovered after any crash, at any moment and *)
(* whatever later commits of the scope failed half way: each commit record  *)
(* that can survive passes validate_body().                                 *)
ReceiptSurvives ==
    \A s \in Scope :
        committed[s] # None /\ Live(committed[s].rec) /\ MessageOf[s] \notin deleted
            => \A c \in commitFile[s].may :
                  /\ c # None
                  /\ c.rec.disp \in Visible => bodyFile[MessageOf[s]] = Settled(c.rec.stored)

(* "One atomic logical commit publishes both the receipt and pending hook   *)
(* event" (admission_store.rs:28): when the mutex is free, a message with a *)
(* visible receipt has had its command run, or has an event for it.         *)
HookWithReceipt ==
    Idle /\ RunHook =>
        \A s \in Scope :
            committed[s] # None /\ committed[s].rec.disp \in Visible
                                /\ MessageOf[s] \notin deleted
                => \/ MessageOf[s] \in hookRan
                   \/ \E t \in Scope : /\ MessageOf[t] = MessageOf[s]
                                        /\ committed[t] # None /\ committed[t].hook

(* The weaker promise: the event exists somewhere, if only in an intent     *)
(* that the next recovery publishes.                                        *)
HookNotLost ==
    HookWithReceipt \/ \E s \in Scope : intentFile[s].vis # None /\ intentFile[s].vis.hook

(* And the command never starts on a path whose archive is gone, unless the *)
(* user deleted the message meanwhile.                                      *)
HookHonoured ==
    /\ HookWithReceipt
    /\ hookTask # None /\ ~hookTask.ran /\ MessageOf[hookTask.scope] \notin deleteAsked
        => bodyFile[MessageOf[hookTask.scope]].vis # None

(* Every pending event is run at least once, across crashes, failed         *)
(* handlers and lost completions, unless the message is deleted first.      *)
HookRuns ==
    \A m \in Message :
        (\E s \in Scope : MessageOf[s] = m /\ Pending(s)) ~> (m \in hookRan \cup deleteAsked)

(* The store implements the abstract archive, whose content for a message   *)
(* is what no power loss can change any more.                               *)
DurableBody(m) == IF bodyFile[m].may = {bodyFile[m].vis} THEN bodyFile[m].vis ELSE None
A == INSTANCE Archive WITH archive <- [m \in Message |-> DurableBody(m)]
ImplementsArchive == A!ArchiveSpec
=============================================================================
