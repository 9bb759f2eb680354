------------------------ MODULE AdmissionStore_proofs ------------------------
(***************************************************************************)
(* Machine-checked proofs about AdmissionStore, for any scopes, messages,  *)
(* images, faults and bounds.                                              *)
(***************************************************************************)
EXTENDS AdmissionStore, TLAPS

(* The locals of an operation exist while it holds the mutex.               *)
LocalsOK ==
    /\ phase \in {"intent", "body", "commit", "delCommit", "pruneCommit"} => job \in Job
    /\ phase = "body" => job.rec.disp \in Visible
    /\ phase \in {"delIntent", "delCommit"} => victim \in Message
    /\ phase \in {"delIntent", "delCommit", "pruneIntent", "pruneCommit"}
         => \A s \in todo : committed[s] \in Commit
    /\ phase = "commits" => \A s \in todo : commitFile[s].vis \in Commit
    /\ phase = "intents" => \A s \in todo : intentFile[s].vis \in Intent

(* Nothing has authority before the tombstones are read.                    *)
RecoveryOrder ==
    phase \in {"down", "tombs"} => \A s \in Scope : committed[s] = None

(* A deletion removes a body only after its tombstone is in memory, and     *)
(* rewrites receipts only to UserDeleted ones.                              *)
DeleteOrder ==
    /\ phase \in {"delIntent", "delCommit"} => victim \in deleted
    /\ phase = "delCommit" => job.rec.disp = "UserDeleted"

(* A commit under way never replaces an archive, and reaches its last write *)
(* with the archive settled.                                                *)
JobBacked ==
    phase \in {"intent", "body", "commit"} /\ job.rec.disp \in Visible =>
        LET m == MessageOf[job.scope] IN
        /\ m \notin deleted
        /\ bodyFile[m].vis \in {None, job.rec.stored}
        /\ phase = "commit" => bodyFile[m] = Settled(job.rec.stored)

BInv == RecoveryOrder /\ DeleteOrder /\ JobBacked /\ ReceiptBacked

-----------------------------------------------------------------------------
(* Durable files.                                                           *)

LEMMA SettledType ==
    ASSUME NEW C, NEW v \in C \cup {None}
    PROVE  Settled(v) \in File(C)
  BY DEF Settled, File

LEMMA WrittenType ==
    ASSUME NEW C, NEW f \in File(C), NEW v \in C \cup {None}, NEW o
    PROVE  Written(f, v, o) \in File(C)
  BY DEF Written, Settled, File

LEMMA ReconciledType ==
    ASSUME NEW C, NEW f \in File(C), NEW o
    PROVE  /\ Reconciled(f, o) \in File(C)
           /\ Reconciled(f, o).vis = f.vis
  BY WrittenType DEF Reconciled, File, Written, Settled

(* Writing again what a settled file holds changes nothing, however the     *)
(* write ends.                                                              *)
LEMMA WrittenSettled ==
    ASSUME NEW v, NEW o
    PROVE  Written(Settled(v), v, o) = Settled(v)
  BY DEF Written, Settled

LEMMA SettledHolds ==
    ASSUME NEW v
    PROVE  Settled(v).vis = v /\ Settled(v).may = {v}
  BY DEF Settled

LEMMA WrittenOk ==
    ASSUME NEW f, NEW v
    PROVE  Written(f, v, "ok") = Settled(v)
  BY DEF Written

-----------------------------------------------------------------------------
TInv == TypeOK /\ LocalsOK

LEMMA CountType ==
    ASSUME TypeOK, NEW o \in Outcome, Count(o)
    PROVE  faults' \in 0 .. MaxFaults
  BY BoundAssumption DEF TypeOK, Outcome, Count

(* The type half of every step that uses Go.                                *)
LEMMA GoType ==
    ASSUME TypeOK, NEW o \in Outcome, NEW next \in Phase, NEW j \in Job \cup {None},
           NEW t \in SUBSET Scope, NEW v \in Message \cup {None}, Go(o, next, j, t, v)
    PROVE  /\ phase' \in Phase
           /\ job' \in Job \cup {None}
           /\ todo' \subseteq Scope
           /\ victim' \in Message \cup {None}
           /\ faults' \in 0 .. MaxFaults
           /\ phase' \in {next, "torn", "idle"}
           /\ phase' \notin {"torn", "idle"} => /\ o = "ok" /\ job' = j
                                               /\ todo' = t /\ victim' = v
  BY CountType DEF Go, Phase

LEMMA TInit == Init => TInv
  BY SettledType, BoundAssumption DEF Init, TInv, TypeOK, LocalsOK, Phase

LEMMA CommitAgainT ==
    ASSUME TInv, NEW s \in Scope, NEW w \in Image, CommitAgain(s, w)
    PROVE  TInv'
<1> USE MessageAssumption DEF TInv
<1>1. PICK o \in Outcome : /\ bodyFile' = [bodyFile EXCEPT ![MessageOf[s]] = Reconciled(@, o)]
                           /\ accepted' = IF o = "ok" THEN accepted \cup {s} ELSE accepted
                           /\ Go(o, "idle", None, {}, None)
  BY DEF CommitAgain
<1>2. bodyFile' \in [Message -> File(Image)]
  BY <1>1, ReconciledType DEF TypeOK
<1>3. /\ phase' \in {"torn", "idle"} /\ phase' \in Phase
      /\ job' \in Job \cup {None} /\ todo' \subseteq Scope
      /\ victim' \in Message \cup {None} /\ faults' \in 0 .. MaxFaults
  <2> "idle" \in Phase
    BY DEF Phase
  <2> QED
    BY <1>1, GoType
<1>4. UNCHANGED <<tombFile, intentFile, commitFile, committed, deleted, hookTask, now,
                  deleteAsked, deleteDone, hookRan>>
  BY DEF CommitAgain, memory
<1>5. TypeOK'
  BY <1>1, <1>2, <1>3, <1>4 DEF TypeOK
<1>6. LocalsOK'
  BY <1>3 DEF LocalsOK
<1> QED
  BY <1>5, <1>6

LEMMA StartCommitT ==
    ASSUME TInv, NEW s \in Scope, NEW w \in Image, NEW d \in Dispositions, StartCommit(s, w, d)
    PROVE  TInv'
<1> USE DEF TInv
<1> USE DEF Disposition, NewlyVisible, StoredImage
<1> DEFINE m == MessageOf[s]
           disp == Disposition(m, d)
           new == NewlyVisible(m, disp)
           rec == [disp |-> IF disp \in Visible /\ ~new THEN "Duplicate" ELSE disp,
                   wire |-> w,
                   stored |-> StoredImage(m, w, disp),
                   at |-> now]
<1>1. /\ job' = [scope |-> s, rec |-> rec, hook |-> RunHook /\ new]
      /\ phase' = "intent"
      /\ UNCHANGED <<disk, memory, todo, victim, hookTask, now, faults, asked>>
  BY DEF StartCommit
<1>2. rec \in Record
  BY MessageAssumption, DispositionAssumption DEF TypeOK, File, Record, Visible, Invisible
<1>3. job' \in Job
  BY <1>1, <1>2, BoundAssumption DEF Job
<1>4. TypeOK'
  BY <1>1, <1>3 DEF TypeOK, disk, memory, asked, Phase
<1>5. LocalsOK'
  BY <1>1, <1>3 DEF LocalsOK
<1> QED
  BY <1>4, <1>5

LEMMA WriteIntentT ==
    ASSUME TInv, WriteIntent
    PROVE  TInv'
<1> USE DEF TInv, AfterIntent
<1> DEFINE next == AfterIntent(job.rec)
<1>1. PICK o \in Outcome :
        /\ intentFile' = [intentFile EXCEPT ![job.scope] =
                            Written(@, [rec |-> job.rec, hook |-> job.hook], o)]
        /\ Go(o, next, job, {}, None)
  BY DEF WriteIntent
<1>2. job \in Job
  BY DEF WriteIntent, TypeOK, LocalsOK
<1>3. intentFile' \in [Scope -> File(Intent)]
  BY <1>1, <1>2, WrittenType DEF TypeOK, Job, Intent
<1>4. next \in Phase
  BY DEF Phase
<1>5. TypeOK'
  BY <1>1, <1>2, <1>3, <1>4, GoType DEF WriteIntent, TypeOK, memory, asked
<1>6. LocalsOK'
  BY ZenonT(60), <1>1, <1>2, <1>4, GoType, MessageAssumption DEF LocalsOK, Job
<1> QED
  BY <1>5, <1>6

LEMMA WriteBodyT ==
    ASSUME TInv, WriteBody
    PROVE  TInv'
<1> USE DEF TInv
<1>1. PICK o \in Outcome :
        /\ bodyFile' = [bodyFile EXCEPT ![MessageOf[job.scope]] = Written(@, job.rec.stored, o)]
        /\ Go(o, "commit", job, {}, None)
  BY DEF WriteBody
<1>2. job \in Job
  BY DEF WriteBody, LocalsOK
<1>3. bodyFile' \in [Message -> File(Image)]
  BY <1>1, <1>2, WrittenType, MessageAssumption DEF TypeOK, Job, Record
<1>4. "commit" \in Phase
  BY DEF Phase
<1>5. TypeOK'
  BY <1>1, <1>2, <1>3, <1>4, GoType DEF WriteBody, TypeOK, memory, asked
<1>6. LocalsOK'
  BY <1>1, <1>2, <1>4, GoType DEF LocalsOK
<1> QED
  BY <1>5, <1>6

LEMMA WriteCommitT ==
    ASSUME TInv, WriteCommit
    PROVE  TInv'
<1> USE DEF TInv, Published
<1> DEFINE s == job.scope
           commit == Published(job)
<1>1. PICK o \in Outcome :
        /\ commitFile' = [commitFile EXCEPT ![s] = Written(@, commit, o)]
        /\ committed' = IF o = "ok" THEN [committed EXCEPT ![s] = commit] ELSE committed
        /\ accepted' = IF o = "ok" /\ job.rec.disp \in Visible
                       THEN accepted \cup {s} ELSE accepted
        /\ Go(o, "idle", None, {}, None)
  BY DEF WriteCommit
<1>2. job \in Job
  BY DEF WriteCommit, LocalsOK
<1>3. commit \in Commit /\ s \in Scope
  BY <1>2 DEF Job, Commit
<1>4. /\ commitFile' \in [Scope -> File(Commit)]
      /\ committed' \in [Scope -> Commit \cup {None}]
  BY <1>1, <1>3, WrittenType DEF TypeOK
<1>5. "idle" \in Phase
  BY DEF Phase
<1>6. TypeOK'
  BY <1>1, <1>3, <1>4, <1>5, GoType DEF WriteCommit, TypeOK
<1>7. LocalsOK'
  BY <1>1, <1>5, GoType DEF LocalsOK
<1> QED
  BY <1>6, <1>7

LEMMA StartDeleteT ==
    ASSUME TInv, NEW m \in Message, StartDelete(m)
    PROVE  TInv'
<1> USE DEF TInv
<1> DEFINE receipts == {s \in Scope : committed[s] # None /\ MessageOf[s] = m}
<1>1. PICK o \in Outcome :
        /\ tombFile' = [tombFile EXCEPT ![m] = Written(@, m, o)]
        /\ deleted' = IF o = "ok" THEN deleted \cup {m} ELSE deleted
        /\ Go(o, "delIntent", None, receipts, m)
  BY DEF StartDelete
<1>2. tombFile' \in [Message -> File(Message)]
  BY <1>1, WrittenType DEF TypeOK
<1>3. "delIntent" \in Phase /\ receipts \in SUBSET Scope
  BY DEF Phase
<1>4. TypeOK'
  BY <1>1, <1>2, <1>3, GoType DEF StartDelete, TypeOK
<1>5. committed' = committed /\ \A s \in receipts : committed[s] \in Commit
  BY DEF StartDelete, TypeOK
<1>6. LocalsOK'
  BY <1>1, <1>3, <1>5, GoType DEF LocalsOK
<1> QED
  BY <1>4, <1>6

LEMMA DeleteIntentT ==
    ASSUME TInv, NEW s \in Scope, DeleteIntent(s)
    PROVE  TInv'
<1> USE DEF TInv
<1> DEFINE rec == [committed[s].rec EXCEPT !.disp = "UserDeleted", !.stored = None, !.at = now]
           new == [scope |-> s, rec |-> rec, hook |-> FALSE]
<1>1. PICK o \in Outcome :
        /\ intentFile' = [intentFile EXCEPT ![s] =
                            Written(@, [rec |-> rec, hook |-> FALSE], o)]
        /\ Go(o, "delCommit", new, todo, victim)
  BY DEF DeleteIntent
<1>2. rec \in Record
  BY ZenonT(60) DEF DeleteIntent, TypeOK, LocalsOK, Commit, Record, Invisible
<1>3. new \in Job /\ [rec |-> rec, hook |-> FALSE] \in Intent
  BY <1>2 DEF Job, Intent
<1>4. intentFile' \in [Scope -> File(Intent)]
  BY <1>1, <1>3, WrittenType DEF TypeOK
<1>5. "delCommit" \in Phase /\ victim \in Message
  BY DEF Phase, DeleteIntent, LocalsOK
<1>6. TypeOK'
  BY <1>1, <1>3, <1>4, <1>5, GoType DEF DeleteIntent, TypeOK, memory, asked
<1>7. \A t \in todo : committed'[t] \in Commit
  BY DEF DeleteIntent, LocalsOK, memory
<1>8. LocalsOK'
  BY <1>1, <1>3, <1>5, <1>7, GoType DEF LocalsOK, TypeOK
<1> QED
  BY <1>6, <1>8

LEMMA DeleteCommitT ==
    ASSUME TInv, DeleteCommit
    PROVE  TInv'
<1> USE DEF TInv
<1> DEFINE s == job.scope
           commit == [rec |-> job.rec, hook |-> FALSE, done |-> TRUE]
           rest == todo \ {s}
<1>1. PICK o \in Outcome :
        /\ commitFile' = [commitFile EXCEPT ![s] = Written(@, commit, o)]
        /\ committed' = IF o = "ok" THEN [committed EXCEPT ![s] = commit] ELSE committed
        /\ Go(o, "delIntent", None, rest, victim)
  BY DEF DeleteCommit
<1>2. job \in Job /\ victim \in Message
  BY DEF DeleteCommit, LocalsOK
<1>3. commit \in Commit /\ s \in Scope
  BY <1>2 DEF Job, Commit
<1>4. /\ commitFile' \in [Scope -> File(Commit)]
      /\ committed' \in [Scope -> Commit \cup {None}]
  BY <1>1, <1>3, WrittenType DEF TypeOK
<1>5. "delIntent" \in Phase /\ rest \in SUBSET Scope
  BY DEF Phase, TypeOK
<1>6. TypeOK'
  BY <1>1, <1>2, <1>3, <1>4, <1>5, GoType DEF DeleteCommit, TypeOK, asked
<1>7. \A t \in rest : committed'[t] \in Commit
  BY <1>1, <1>3 DEF DeleteCommit, LocalsOK, TypeOK
<1>8. LocalsOK'
  BY <1>1, <1>2, <1>5, <1>7, GoType DEF LocalsOK
<1> QED
  BY <1>6, <1>8

LEMMA DeleteBodyT ==
    ASSUME TInv, DeleteBody
    PROVE  TInv'
<1> USE DEF TInv
<1>1. PICK o \in Outcome :
        /\ bodyFile' = [bodyFile EXCEPT ![victim] = Written(@, None, o)]
        /\ deleteDone' = IF o = "ok" THEN deleteDone \cup {victim} ELSE deleteDone
        /\ Go(o, "idle", None, {}, None)
  BY DEF DeleteBody
<1>2. victim \in Message /\ "idle" \in Phase
  BY DEF DeleteBody, LocalsOK, Phase
<1>3. bodyFile' \in [Message -> File(Image)]
  BY <1>1, <1>2, WrittenType DEF TypeOK
<1>4. TypeOK'
  BY <1>1, <1>2, <1>3, GoType DEF DeleteBody, TypeOK, memory
<1>5. LocalsOK'
  BY <1>1, <1>2, GoType DEF LocalsOK
<1> QED
  BY <1>4, <1>5

LEMMA MaintainT ==
    ASSUME TInv, Maintains
    PROVE  TInv'
<1> USE DEF TInv
<1>1. CASE StartMaintain
  BY <1>1 DEF StartMaintain, Expired, TypeOK, LocalsOK, disk, memory, asked, Phase
<1>2. ASSUME NEW s \in Scope, PruneIntent(s) PROVE TInv'
  <2> DEFINE new == [scope |-> s, rec |-> committed[s].rec, hook |-> FALSE]
  <2>1. PICK o \in Outcome :
          /\ intentFile' = [intentFile EXCEPT ![s] = Written(@, None, o)]
          /\ Go(o, "pruneCommit", new, todo, None)
    BY <1>2 DEF PruneIntent
  <2>2. new \in Job
    BY <1>2 DEF PruneIntent, TypeOK, LocalsOK, Commit, Job
  <2>3. intentFile' \in [Scope -> File(Intent)]
    BY <2>1, WrittenType DEF TypeOK
  <2>4. "pruneCommit" \in Phase
    BY DEF Phase
  <2>5. TypeOK'
    BY <1>2, <2>1, <2>2, <2>3, <2>4, GoType DEF PruneIntent, TypeOK, memory, asked
  <2>6. \A t \in todo : committed'[t] \in Commit
    BY <1>2 DEF PruneIntent, LocalsOK, memory
  <2>7. /\ phase' \in {"pruneCommit", "torn", "idle"}
        /\ phase' = "pruneCommit" => job' = new /\ todo' = todo
    BY <2>1, <2>2, <2>4, GoType DEF TypeOK
  <2>8. LocalsOK'
    BY <2>2, <2>6, <2>7 DEF LocalsOK
  <2> QED
    BY <2>5, <2>8
<1>3. CASE PruneCommit
  <2> DEFINE s == job.scope
             rest == todo \ {s}
             next == IF rest = {} THEN "idle" ELSE "pruneIntent"
  <2>1. PICK o \in Outcome :
          /\ commitFile' = [commitFile EXCEPT ![s] = Written(@, None, o)]
          /\ committed' = IF o = "ok" THEN [committed EXCEPT ![s] = None] ELSE committed
          /\ Go(o, next, None, rest, None)
    BY <1>3 DEF PruneCommit
  <2>2. s \in Scope
    BY <1>3 DEF PruneCommit, LocalsOK, Job
  <2>3. /\ commitFile' \in [Scope -> File(Commit)]
        /\ committed' \in [Scope -> Commit \cup {None}]
    BY <2>1, <2>2, WrittenType DEF TypeOK
  <2>4. next \in Phase /\ rest \in SUBSET Scope
    BY DEF Phase, TypeOK
  <2>5. TypeOK'
    BY <1>3, <2>1, <2>3, <2>4, GoType DEF PruneCommit, TypeOK, asked
  <2>6. \A t \in rest : committed'[t] \in Commit
    BY <1>3, <2>1, <2>2 DEF PruneCommit, LocalsOK, TypeOK
  <2>7. /\ phase' \in {"pruneIntent", "torn", "idle"}
        /\ phase' = "pruneIntent" => todo' = rest
    BY <2>1, <2>4, GoType
  <2>8. LocalsOK'
    BY <2>6, <2>7 DEF LocalsOK
  <2> QED
    BY <2>5, <2>8
<1> QED
  BY <1>1, <1>2, <1>3 DEF Maintains

LEMMA HookT ==
    ASSUME TInv, Hooks
    PROVE  TInv'
<1> USE DEF TInv
<1>1. ASSUME NEW s \in Scope, TakeHook(s) PROVE TInv'
  BY <1>1 DEF TakeHook, TypeOK, LocalsOK, disk, memory, control, asked
<1>2. CASE HookSucceeds
  <2>1. hookTask \in [scope: Scope, ran: BOOLEAN]
    BY <1>2 DEF HookSucceeds, TypeOK
  <2> QED
    BY ZenonT(60), <1>2, <2>1, MessageAssumption
       DEF HookSucceeds, TypeOK, LocalsOK, disk, memory, control
<1>3. CASE HookFails
  BY <1>3 DEF HookFails, TypeOK, LocalsOK, disk, memory, control, asked
<1>4. CASE CompleteHook
  <2> DEFINE s == hookTask.scope
             commit == [committed[s] EXCEPT !.done = TRUE]
  <2>1. s \in Scope
    BY <1>4 DEF CompleteHook, TypeOK
  <2>2. CASE committed[s] # None /\ committed[s].hook
    <3>1. PICK o \in Outcome :
            /\ commitFile' = [commitFile EXCEPT ![s] = Written(@, commit, o)]
            /\ committed' = IF o = "ok" THEN [committed EXCEPT ![s] = commit] ELSE committed
            /\ Go(o, "idle", None, {}, None)
      BY <1>4, <2>2 DEF CompleteHook
    <3>2. commit \in Commit
      BY <2>1, <2>2 DEF TypeOK, Commit
    <3>3. /\ commitFile' \in [Scope -> File(Commit)]
          /\ committed' \in [Scope -> Commit \cup {None}]
      BY <2>1, <3>1, <3>2, WrittenType DEF TypeOK
    <3>4. "idle" \in Phase
      BY DEF Phase
    <3>5. TypeOK'
      BY <1>4, <3>1, <3>3, <3>4, GoType DEF CompleteHook, TypeOK, asked
    <3>6. LocalsOK'
      BY <3>1, <3>4, GoType DEF LocalsOK
    <3> QED
      BY <3>5, <3>6
  <2>3. CASE ~(committed[s] # None /\ committed[s].hook)
    BY <1>4, <2>3 DEF CompleteHook, TypeOK, LocalsOK, control, asked
  <2> QED
    BY <2>2, <2>3
<1> QED
  BY <1>1, <1>2, <1>3, <1>4 DEF Hooks

LEMMA StoppedType ==
    ASSUME TypeOK, Stopped, NEW n \in {faults, faults + 1}, faults' = n,
           n = faults + 1 => faults < MaxFaults,
           UNCHANGED <<now, asked>>,
           tombFile' \in [Message -> File(Message)],
           intentFile' \in [Scope -> File(Intent)],
           commitFile' \in [Scope -> File(Commit)],
           bodyFile' \in [Message -> File(Image)]
    PROVE  TInv'
<1>1. TypeOK'
  BY BoundAssumption DEF TypeOK, Stopped, Phase, asked
<1>2. LocalsOK'
  BY DEF LocalsOK, Stopped
<1> QED
  BY <1>1, <1>2 DEF TInv

LEMMA CrashT ==
    ASSUME TInv, Crashes
    PROVE  TInv'
<1> USE DEF TInv
<1>1. CASE Kill
  BY <1>1, StoppedType DEF Kill, TypeOK, disk
<1>2. CASE PowerLoss
  <2>1. PICK t \in [Message -> {None} \cup Message], b \in [Message -> {None} \cup Image] :
          /\ tombFile' = [m \in Message |-> Settled(t[m])]
          /\ bodyFile' = [m \in Message |-> Settled(b[m])]
    BY <1>2 DEF PowerLoss
  <2>2. PICK i \in [Scope -> UNION {intentFile[s].may : s \in Scope}],
             c \in [Scope -> UNION {commitFile[s].may : s \in Scope}] :
          /\ \A s \in Scope : i[s] \in intentFile[s].may /\ c[s] \in commitFile[s].may
          /\ intentFile' = [s \in Scope |-> Settled(i[s])]
          /\ commitFile' = [s \in Scope |-> Settled(c[s])]
    BY <1>2 DEF PowerLoss
  <2>3. /\ tombFile' \in [Message -> File(Message)]
        /\ bodyFile' \in [Message -> File(Image)]
    BY <2>1, SettledType
  <2>4. \A s \in Scope : i[s] \in Intent \cup {None} /\ c[s] \in Commit \cup {None}
    BY <2>2 DEF TypeOK, File
  <2>5. /\ intentFile' \in [Scope -> File(Intent)]
        /\ commitFile' \in [Scope -> File(Commit)]
    BY <2>2, <2>4, SettledType
  <2>6. /\ Stopped /\ UNCHANGED <<now, asked>>
        /\ faults' \in {faults, faults + 1}
        /\ faults' = faults + 1 => faults < MaxFaults
    BY <1>2 DEF PowerLoss, TypeOK
  <2> QED
    BY <2>3, <2>5, <2>6, StoppedType
<1> QED
  BY <1>1, <1>2 DEF Crashes

LEMMA RecoverTombT ==
    ASSUME TInv, NEW m \in Message, RecoverTomb(m)
    PROVE  TInv'
<1> USE DEF TInv
<1>1. PICK o \in Outcome, at \in 1 .. 2 :
        /\ tombFile' = [tombFile EXCEPT ![m] = Reconciled(@, Nth(1, at, o))]
        /\ bodyFile' = [bodyFile EXCEPT ![m] = Written(@, None, Nth(2, at, o))]
        /\ IF o = "ok" THEN deleted' = deleted \cup {m} /\ phase' = phase
                       ELSE deleted' = {} /\ phase' = "down"
        /\ Count(o)
  BY DEF RecoverTomb
<1>2. /\ tombFile' \in [Message -> File(Message)]
      /\ bodyFile' \in [Message -> File(Image)]
  BY <1>1, ReconciledType, WrittenType DEF TypeOK
<1>3. /\ deleted' \subseteq Message /\ phase' \in {"tombs", "down"}
      /\ faults' \in 0 .. MaxFaults
  BY <1>1, CountType DEF RecoverTomb, TypeOK
<1>4. TypeOK'
  BY <1>2, <1>3 DEF RecoverTomb, TypeOK, Phase, asked
<1>5. LocalsOK'
  BY <1>3 DEF LocalsOK
<1> QED
  BY <1>4, <1>5

(* The body half of recovering a receipt.                                   *)
LEMMA ReconcileBodyType ==
    ASSUME TypeOK, NEW s \in Scope, NEW rec, NEW o, ReconcileBody(s, rec, o)
    PROVE  bodyFile' \in [Message -> File(Image)]
  BY ReconciledType, MessageAssumption DEF ReconcileBody, TypeOK

LEMMA RecoverCommitT ==
    ASSUME TInv, NEW s \in Scope, RecoverCommit(s)
    PROVE  TInv'
<1> USE DEF TInv
<1> DEFINE commit == commitFile[s].vis
<1>1. /\ phase = "commits" /\ todo' = todo \ {s} /\ commit \in Commit
      /\ UNCHANGED <<tombFile, intentFile, deleted, job, victim, hookTask, now, asked>>
  BY DEF RecoverCommit, LocalsOK
<1>2. CASE ValidBody(s, commit.rec)
  <2>1. PICK o \in Outcome, at \in 1 .. 2 :
          /\ ReconcileBody(s, commit.rec, Nth(1, at, o))
          /\ commitFile' = [commitFile EXCEPT ![s] = Reconciled(@, Nth(2, at, o))]
          /\ committed' = IF o = "ok" THEN [committed EXCEPT ![s] = commit] ELSE committed
          /\ Continue(o) /\ Count(o)
    BY <1>2 DEF RecoverCommit
  <2>2. /\ bodyFile' \in [Message -> File(Image)]
        /\ commitFile' \in [Scope -> File(Commit)]
        /\ \A t \in Scope : commitFile'[t].vis = commitFile[t].vis
        /\ committed' \in [Scope -> Commit \cup {None}]
        /\ faults' \in 0 .. MaxFaults
    BY <1>1, <2>1, ReconcileBodyType, ReconciledType, CountType DEF TypeOK
  <2>3. phase' \in {"commits", "torn"}
    BY <1>1, <2>1 DEF Continue
  <2>4. TypeOK'
    BY <1>1, <2>2, <2>3 DEF TypeOK, Phase, asked
  <2>5. LocalsOK'
    BY <1>1, <2>2, <2>3 DEF LocalsOK, TypeOK
  <2> QED
    BY <2>4, <2>5
<1>3. CASE ~ValidBody(s, commit.rec)
  <2>1. UNCHANGED <<bodyFile, commitFile, committed, phase, faults>>
    BY <1>3 DEF RecoverCommit
  <2> QED
    BY <1>1, <2>1 DEF TypeOK, LocalsOK, asked
<1> QED
  BY <1>2, <1>3

LEMMA RecoverIntentT ==
    ASSUME TInv, NEW s \in Scope, RecoverIntent(s)
    PROVE  TInv'
<1> USE DEF TInv, Published
<1> DEFINE intent == intentFile[s].vis
           commit == Published(intent)
           known == committed[s] # None /\ committed[s].rec = intent.rec
<1>1. /\ phase = "intents" /\ todo' = todo \ {s} /\ intent \in Intent
      /\ UNCHANGED <<tombFile, deleted, job, victim, hookTask, now, asked>>
  BY DEF RecoverIntent, LocalsOK
<1>2. CASE ~known /\ ValidBody(s, intent.rec)
  <2>1. PICK o \in Outcome, at \in 1 .. 3 :
          /\ ReconcileBody(s, intent.rec, Nth(1, at, o))
          /\ intentFile' = [intentFile EXCEPT ![s] = Reconciled(@, Nth(2, at, o))]
          /\ commitFile' = [commitFile EXCEPT ![s] = Written(@, commit, Nth(3, at, o))]
          /\ committed' = IF o = "ok" THEN [committed EXCEPT ![s] = commit] ELSE committed
          /\ Continue(o) /\ Count(o)
    BY <1>2 DEF RecoverIntent
  <2>2. commit \in Commit
    BY <1>1 DEF Intent, Commit
  <2>3. /\ intentFile' \in [Scope -> File(Intent)]
        /\ \A t \in Scope : intentFile'[t].vis = intentFile[t].vis
    BY <2>1, ReconciledType DEF TypeOK
  <2>4. commitFile' \in [Scope -> File(Commit)]
    BY <2>1, <2>2, WrittenType DEF TypeOK
  <2>5. /\ bodyFile' \in [Message -> File(Image)]
        /\ committed' \in [Scope -> Commit \cup {None}]
        /\ faults' \in 0 .. MaxFaults
    BY <2>1, <2>2, ReconcileBodyType, CountType DEF TypeOK
  <2>6. phase' \in {"intents", "torn"}
    BY <1>1, <2>1 DEF Continue
  <2>7. TypeOK'
    BY <1>1, <2>3, <2>4, <2>5, <2>6 DEF TypeOK, Phase, asked
  <2>8. LocalsOK'
    BY <1>1, <2>3, <2>6 DEF LocalsOK, TypeOK
  <2> QED
    BY <2>7, <2>8
<1>3. CASE ~(~known /\ ValidBody(s, intent.rec))
  <2>1. UNCHANGED <<bodyFile, intentFile, commitFile, committed, phase, faults>>
    BY <1>3 DEF RecoverIntent
  <2> QED
    BY <1>1, <2>1 DEF TypeOK, LocalsOK, asked
<1> QED
  BY <1>2, <1>3

LEMMA RecoverT ==
    ASSUME TInv, Recovers
    PROVE  TInv'
<1> USE DEF TInv
<1>1. CASE Open
  BY <1>1 DEF Open, TypeOK, LocalsOK, disk, memory, asked, Phase
<1>2. CASE TombsRecovered
  BY <1>2 DEF TombsRecovered, TypeOK, LocalsOK, File, disk, memory, asked, Phase
<1>3. CASE CommitsRecovered
  BY <1>3 DEF CommitsRecovered, TypeOK, LocalsOK, File, disk, memory, asked, Phase
<1>4. CASE Recovered
  BY <1>4 DEF Recovered, TypeOK, LocalsOK, disk, memory, asked, Phase
<1> QED
  BY <1>1, <1>2, <1>3, <1>4, RecoverTombT, RecoverCommitT, RecoverIntentT DEF Recovers

LEMMA TNext ==
    ASSUME TInv, [Next]_vars
    PROVE  TInv'
<1>1. CASE Commits
  BY <1>1, CommitAgainT, StartCommitT, WriteIntentT, WriteBodyT, WriteCommitT DEF Commits
<1>2. CASE Deletes
  BY <1>2, StartDeleteT, DeleteIntentT, DeleteCommitT, DeleteBodyT DEF Deletes
<1>3. CASE Tick
  BY <1>3, BoundAssumption DEF Tick, TInv, TypeOK, LocalsOK, disk, memory, control, asked
<1>4. CASE UNCHANGED vars
  BY <1>4 DEF vars, TInv, TypeOK, LocalsOK, disk, memory, control, asked
<1> QED
  BY <1>1, <1>2, <1>3, <1>4, MaintainT, HookT, CrashT, RecoverT DEF Next

(* Every reachable state of the store is well typed; in particular a        *)
(* receipt refers to an archived content exactly when it is visible.        *)
THEOREM TypeCorrect == Spec => []TypeOK
<1>1. TInv => TypeOK
  BY DEF TInv
<1> QED
  BY <1>1, TInit, TNext, PTL DEF Spec

-----------------------------------------------------------------------------
(* The archive behind the receipts.                                         *)

LEMMA GoPhase ==
    ASSUME NEW o, NEW next, NEW j, NEW t, NEW v, Go(o, next, j, t, v)
    PROVE  /\ phase' \in {next, "torn", "idle"}
           /\ phase' \notin {"torn", "idle"} => /\ o = "ok" /\ job' = j
                                               /\ todo' = t /\ victim' = v
  BY DEF Go

(* Steps that leave archive and memory alone, and start no operation that   *)
(* the ordering invariants speak of.                                        *)
LEMMA QuietB ==
    ASSUME TInv, BInv, UNCHANGED <<bodyFile, committed, deleted>>,
           \/ UNCHANGED <<phase, job, victim>>
           \/ phase' \in {"commits", "intents", "idle", "pruneIntent", "pruneCommit", "torn"}
           \/ phase = "down" /\ phase' = "tombs"
    PROVE  BInv'
  BY DEF BInv, RecoveryOrder, DeleteOrder, JobBacked, ReceiptBacked

LEMMA CommitsB ==
    ASSUME TInv, BInv, Commits
    PROVE  BInv'
<1> USE DEF TInv, BInv, AfterIntent, Published, Disposition, NewlyVisible, StoredImage
<1>1. ASSUME NEW s \in Scope, NEW w \in Image, CommitAgain(s, w) PROVE BInv'
  <2> DEFINE m == MessageOf[s]
  <2>1. PICK o \in Outcome : /\ bodyFile' = [bodyFile EXCEPT ![m] = Reconciled(@, o)]
                             /\ Go(o, "idle", None, {}, None)
    BY <1>1 DEF CommitAgain
  <2>2. bodyFile[m] = Settled(committed[s].rec.stored)
    BY <1>1 DEF CommitAgain, ReceiptBacked
  <2>3. Reconciled(bodyFile[m], o) = bodyFile[m]
    BY <2>2, WrittenSettled DEF Reconciled, Settled
  <2>4. UNCHANGED <<bodyFile, committed, deleted>>
    BY <1>1, <2>1, <2>3 DEF CommitAgain, memory, TypeOK
  <2> QED
    BY <2>1, <2>4, GoPhase, QuietB
<1>2. ASSUME NEW s \in Scope, NEW w \in Image, NEW d \in Dispositions, StartCommit(s, w, d)
      PROVE BInv'
  <2>1. /\ phase' = "intent" /\ UNCHANGED <<bodyFile, committed, deleted>>
    BY <1>2 DEF StartCommit, disk, memory
  <2>2. JobBacked'
    BY <1>2, <2>1 DEF StartCommit, JobBacked, Visible, Invisible
  <2> QED
    BY <2>1, <2>2 DEF RecoveryOrder, DeleteOrder, ReceiptBacked
<1>3. CASE WriteIntent
  <2> DEFINE next == AfterIntent(job.rec)
  <2>1. PICK o \in Outcome : Go(o, next, job, {}, None)
    BY <1>3 DEF WriteIntent
  <2>2. UNCHANGED <<bodyFile, committed, deleted>>
    BY <1>3 DEF WriteIntent, memory
  <2>3. JobBacked'
    BY <1>3, <2>1, <2>2, GoPhase DEF WriteIntent, JobBacked
  <2> QED
    BY <2>1, <2>2, <2>3, GoPhase DEF RecoveryOrder, DeleteOrder, ReceiptBacked
<1>4. CASE WriteBody
  <2> DEFINE m == MessageOf[job.scope]
  <2>1. PICK o \in Outcome :
          /\ bodyFile' = [bodyFile EXCEPT ![m] = Written(@, job.rec.stored, o)]
          /\ Go(o, "commit", job, {}, None)
    BY <1>4 DEF WriteBody
  <2>2. UNCHANGED <<committed, deleted>>
    BY <1>4 DEF WriteBody, memory
  <2>3. ReceiptBacked'
    <3> SUFFICES ASSUME NEW s \in Scope, committed[s] # None,
                        committed[s].rec.disp \in Visible, MessageOf[s] \notin deleted
                 PROVE  bodyFile'[MessageOf[s]] = Settled(committed[s].rec.stored)
      BY <2>2 DEF ReceiptBacked
    <3>1. bodyFile[MessageOf[s]] = Settled(committed[s].rec.stored)
      BY DEF ReceiptBacked
    <3>2. committed[s].rec.stored # None
      BY DEF TypeOK, Commit, Record, Visible, Invisible
    <3>3. CASE MessageOf[s] = m
      <4>1. job \in Job
        BY <1>4 DEF WriteBody, LocalsOK
      <4>2. CASE job.rec.disp \in Visible
        <5>1. bodyFile[m].vis \in {None, job.rec.stored}
          BY <1>4, <4>2 DEF WriteBody, JobBacked
        <5>2. job.rec.stored = committed[s].rec.stored
          BY <3>1, <3>2, <3>3, <5>1 DEF Settled
        <5> QED
          BY <2>1, <3>1, <3>3, <5>2, WrittenSettled, MessageAssumption DEF TypeOK
      <4>3. job.rec.disp \in Visible
        BY <1>4 DEF WriteBody, LocalsOK
      <4> QED
        BY <4>2, <4>3
    <3>4. CASE MessageOf[s] # m
      BY <2>1, <3>1, <3>4, MessageAssumption DEF TypeOK
    <3> QED
      BY <3>3, <3>4
  <2>4. JobBacked'
    <3>1. job \in Job
      BY <1>4 DEF WriteBody, LocalsOK
    <3>2. phase' = "commit" => bodyFile'[m] = Settled(job.rec.stored)
      BY <2>1, <3>1, GoPhase, WrittenOk, MessageAssumption DEF TypeOK, Job
    <3> QED
      BY <1>4, <2>1, <2>2, <3>2, GoPhase DEF WriteBody, JobBacked, Settled
  <2> QED
    BY <2>1, <2>2, <2>3, <2>4, GoPhase DEF RecoveryOrder, DeleteOrder
<1>5. CASE WriteCommit
  <2> DEFINE s == job.scope
             commit == Published(job)
  <2>1. PICK o \in Outcome :
          /\ committed' = IF o = "ok" THEN [committed EXCEPT ![s] = commit] ELSE committed
          /\ Go(o, "idle", None, {}, None)
    BY <1>5 DEF WriteCommit
  <2>2. UNCHANGED <<bodyFile, deleted>>
    BY <1>5 DEF WriteCommit
  <2>3. job.rec.disp \in Visible =>
          MessageOf[s] \notin deleted /\ bodyFile[MessageOf[s]] = Settled(job.rec.stored)
    BY <1>5 DEF WriteCommit, JobBacked
  <2>4. ReceiptBacked'
    BY <2>1, <2>2, <2>3 DEF ReceiptBacked, TypeOK
  <2> QED
    BY <2>1, <2>4, GoPhase DEF RecoveryOrder, DeleteOrder, JobBacked
<1> QED
  BY <1>1, <1>2, <1>3, <1>4, <1>5 DEF Commits

LEMMA DeletesB ==
    ASSUME TInv, BInv, Deletes
    PROVE  BInv'
<1> USE DEF TInv, BInv
<1>1. ASSUME NEW m \in Message, StartDelete(m) PROVE BInv'
  <2> DEFINE receipts == {s \in Scope : committed[s] # None /\ MessageOf[s] = m}
  <2>1. PICK o \in Outcome :
          /\ deleted' = IF o = "ok" THEN deleted \cup {m} ELSE deleted
          /\ Go(o, "delIntent", None, receipts, m)
    BY <1>1 DEF StartDelete
  <2>2. UNCHANGED <<bodyFile, committed>>
    BY <1>1 DEF StartDelete
  <2> QED
    BY <2>1, <2>2, GoPhase DEF RecoveryOrder, DeleteOrder, JobBacked, ReceiptBacked
<1>2. ASSUME NEW s \in Scope, DeleteIntent(s) PROVE BInv'
  <2> DEFINE rec == [committed[s].rec EXCEPT !.disp = "UserDeleted", !.stored = None, !.at = now]
             new == [scope |-> s, rec |-> rec, hook |-> FALSE]
  <2>1. PICK o \in Outcome : Go(o, "delCommit", new, todo, victim)
    BY <1>2 DEF DeleteIntent
  <2>2. UNCHANGED <<bodyFile, committed, deleted>>
    BY <1>2 DEF DeleteIntent, memory
  <2>3. new.rec.disp = "UserDeleted"
    BY <1>2 DEF DeleteIntent, LocalsOK, Commit, Record
  <2>4. victim \in deleted
    BY <1>2 DEF DeleteIntent, DeleteOrder
  <2>5. /\ phase' \in {"delCommit", "torn", "idle"}
        /\ phase' = "delCommit" => job' = new /\ victim' = victim
    BY <2>1, GoPhase
  <2> HIDE DEF new
  <2> QED
    BY <2>2, <2>3, <2>4, <2>5 DEF RecoveryOrder, DeleteOrder, JobBacked, ReceiptBacked
<1>3. CASE DeleteCommit
  <2> DEFINE s == job.scope
             commit == [rec |-> job.rec, hook |-> FALSE, done |-> TRUE]
             rest == todo \ {s}
  <2>1. PICK o \in Outcome :
          /\ committed' = IF o = "ok" THEN [committed EXCEPT ![s] = commit] ELSE committed
          /\ Go(o, "delIntent", None, rest, victim)
    BY <1>3 DEF DeleteCommit
  <2>2. UNCHANGED <<bodyFile, deleted>>
    BY <1>3 DEF DeleteCommit
  <2>3. commit.rec.disp \notin Visible
    BY <1>3 DEF DeleteCommit, DeleteOrder, Visible
  <2>4. ReceiptBacked'
    BY <2>1, <2>2, <2>3 DEF ReceiptBacked, TypeOK
  <2> QED
    BY <1>3, <2>1, <2>2, <2>4, GoPhase DEF DeleteCommit, RecoveryOrder, DeleteOrder, JobBacked
<1>4. CASE DeleteBody
  <2>1. PICK o \in Outcome :
          /\ bodyFile' = [bodyFile EXCEPT ![victim] = Written(@, None, o)]
          /\ Go(o, "idle", None, {}, None)
    BY <1>4 DEF DeleteBody
  <2>2. UNCHANGED <<committed, deleted>> /\ victim \in deleted
    BY <1>4 DEF DeleteBody, memory, DeleteOrder
  <2>3. ReceiptBacked'
    BY <2>1, <2>2, MessageAssumption DEF ReceiptBacked, TypeOK
  <2> QED
    BY <2>1, <2>3, GoPhase DEF RecoveryOrder, DeleteOrder, JobBacked
<1> QED
  BY <1>1, <1>2, <1>3, <1>4 DEF Deletes

LEMMA MaintainsB ==
    ASSUME TInv, BInv, Maintains
    PROVE  BInv'
<1> USE DEF TInv, BInv
<1>1. CASE StartMaintain
  BY <1>1, QuietB DEF StartMaintain, disk, memory
<1>2. ASSUME NEW s \in Scope, PruneIntent(s) PROVE BInv'
  <2>1. PICK o \in Outcome : Go(o, "pruneCommit",
            [scope |-> s, rec |-> committed[s].rec, hook |-> FALSE], todo, None)
    BY <1>2 DEF PruneIntent
  <2>2. UNCHANGED <<bodyFile, committed, deleted>>
    BY <1>2 DEF PruneIntent, memory
  <2> QED
    BY <2>1, <2>2, GoPhase, QuietB
<1>3. CASE PruneCommit
  <2> DEFINE s == job.scope
             rest == todo \ {s}
             next == IF rest = {} THEN "idle" ELSE "pruneIntent"
  <2>1. PICK o \in Outcome :
          /\ committed' = IF o = "ok" THEN [committed EXCEPT ![s] = None] ELSE committed
          /\ Go(o, next, None, rest, None)
    BY <1>3 DEF PruneCommit
  <2>2. UNCHANGED <<bodyFile, deleted>>
    BY <1>3 DEF PruneCommit
  <2>3. ReceiptBacked'
    BY <2>1, <2>2 DEF ReceiptBacked, TypeOK
  <2> QED
    BY <2>1, <2>3, GoPhase DEF RecoveryOrder, DeleteOrder, JobBacked
<1> QED
  BY <1>1, <1>2, <1>3 DEF Maintains

LEMMA HooksB ==
    ASSUME TInv, BInv, Hooks
    PROVE  BInv'
<1> USE DEF TInv, BInv
<1>1. CASE \E s \in Scope : TakeHook(s)
  BY <1>1, QuietB DEF TakeHook, disk, memory, control
<1>2. CASE HookSucceeds \/ HookFails
  BY <1>2, QuietB DEF HookSucceeds, HookFails, disk, memory, control
<1>3. CASE CompleteHook
  <2> DEFINE s == hookTask.scope
             commit == [committed[s] EXCEPT !.done = TRUE]
  <2>1. UNCHANGED <<bodyFile, deleted>> /\ phase = "idle"
    BY <1>3 DEF CompleteHook, Idle
  <2>2. CASE committed[s] # None /\ committed[s].hook
    <3>1. PICK o \in Outcome :
            /\ committed' = IF o = "ok" THEN [committed EXCEPT ![s] = commit] ELSE committed
            /\ Go(o, "idle", None, {}, None)
      BY <1>3, <2>2 DEF CompleteHook
    <3>2. s \in Scope
      BY <1>3 DEF CompleteHook, TypeOK
    <3>3. commit.rec = committed[s].rec
      BY <2>2, <3>2 DEF TypeOK, Commit
    <3>4. ReceiptBacked'
      BY <2>1, <2>2, <3>1, <3>2, <3>3 DEF ReceiptBacked, TypeOK
    <3> QED
      BY <3>1, <3>4, GoPhase DEF RecoveryOrder, DeleteOrder, JobBacked
  <2>3. CASE ~(committed[s] # None /\ committed[s].hook)
    BY <1>3, <2>1, <2>3, QuietB DEF CompleteHook, control
  <2> QED
    BY <2>2, <2>3
<1> QED
  BY <1>1, <1>2, <1>3 DEF Hooks

LEMMA CrashesB ==
    ASSUME TInv, BInv, Crashes
    PROVE  BInv'
<1>1. Stopped
  BY DEF Crashes, Kill, PowerLoss
<1> QED
  BY <1>1 DEF Stopped, BInv, RecoveryOrder, DeleteOrder, JobBacked, ReceiptBacked

(* Reconciling the body a receipt refers to leaves that content settled,    *)
(* and whatever another receipt had settled stays as it was.                *)
LEMMA ReconcileBodyB ==
    ASSUME TInv, BInv, NEW s \in Scope, NEW rec, NEW o,
           ReconcileBody(s, rec, o), ValidBody(s, rec)
    PROVE  /\ o = "ok" /\ rec.disp \in Visible
                => bodyFile'[MessageOf[s]] = Settled(rec.stored)
           /\ \A m \in Message : \A v : bodyFile[m] = Settled(v) => bodyFile'[m] = bodyFile[m]
<1> DEFINE k == MessageOf[s]
<1>1. k \in Message
  BY MessageAssumption
<1>2. CASE rec.disp \in Visible
  <2>1. bodyFile' = [bodyFile EXCEPT ![k] = Written(@, @.vis, o)] /\ bodyFile[k].vis = rec.stored
    BY <1>2 DEF ReconcileBody, ValidBody, Reconciled
  <2>2. ASSUME NEW v, bodyFile[k] = Settled(v) PROVE bodyFile'[k] = bodyFile[k]
    BY <1>1, <2>1, <2>2, WrittenSettled DEF TInv, TypeOK, Settled
  <2>3. o = "ok" => bodyFile'[k] = Settled(rec.stored)
    BY <1>1, <2>1, WrittenOk DEF TInv, TypeOK
  <2> QED
    BY <1>1, <2>1, <2>2, <2>3 DEF TInv, TypeOK
<1>3. CASE rec.disp \notin Visible
  BY <1>3 DEF ReconcileBody
<1> QED
  BY <1>2, <1>3

LEMMA RecoversB ==
    ASSUME TInv, BInv, Recovers
    PROVE  BInv'
<1> USE DEF TInv, BInv, Published
<1>1. CASE Open
  BY <1>1, QuietB DEF Open, disk, memory
<1>2. CASE TombsRecovered \/ CommitsRecovered \/ Recovered
  BY <1>2, QuietB DEF TombsRecovered, CommitsRecovered, Recovered, disk, memory
<1>3. ASSUME NEW m \in Message, RecoverTomb(m) PROVE BInv'
  <2>1. phase' \in {"tombs", "down"} /\ committed' = committed
        /\ \A s \in Scope : committed[s] = None
    BY <1>3 DEF RecoverTomb, RecoveryOrder
  <2> QED
    BY <2>1 DEF RecoveryOrder, DeleteOrder, JobBacked, ReceiptBacked
<1>4. ASSUME NEW s \in Scope, RecoverCommit(s) PROVE BInv'
  <2> DEFINE commit == commitFile[s].vis
  <2>1. phase' \in {"commits", "torn"} /\ deleted' = deleted
    BY <1>4 DEF RecoverCommit, Continue
  <2>2. CASE ValidBody(s, commit.rec)
    <3>1. PICK o \in Outcome, at \in 1 .. 2 :
            /\ ReconcileBody(s, commit.rec, Nth(1, at, o))
            /\ committed' = IF o = "ok" THEN [committed EXCEPT ![s] = commit] ELSE committed
      BY <1>4, <2>2 DEF RecoverCommit
    <3>2. /\ o = "ok" /\ commit.rec.disp \in Visible
               => bodyFile'[MessageOf[s]] = Settled(commit.rec.stored)
          /\ \A m \in Message : \A v : bodyFile[m] = Settled(v) => bodyFile'[m] = bodyFile[m]
      BY <2>2, <3>1, ReconcileBodyB DEF Nth
    <3>3. ReceiptBacked'
      BY <2>1, <3>1, <3>2, MessageAssumption DEF ReceiptBacked, TypeOK
    <3> QED
      BY <2>1, <3>3 DEF RecoveryOrder, DeleteOrder, JobBacked
  <2>3. CASE ~ValidBody(s, commit.rec)
    <3>1. UNCHANGED <<bodyFile, committed>>
      BY <1>4, <2>3 DEF RecoverCommit
    <3> QED
      BY <2>1, <3>1, QuietB
  <2> QED
    BY <2>2, <2>3
<1>5. ASSUME NEW s \in Scope, RecoverIntent(s) PROVE BInv'
  <2> DEFINE intent == intentFile[s].vis
             commit == Published(intent)
             known == committed[s] # None /\ committed[s].rec = intent.rec
  <2>1. phase' \in {"intents", "torn"} /\ deleted' = deleted
    BY <1>5 DEF RecoverIntent, Continue
  <2>2. CASE ~known /\ ValidBody(s, intent.rec)
    <3>1. PICK o \in Outcome, at \in 1 .. 3 :
            /\ ReconcileBody(s, intent.rec, Nth(1, at, o))
            /\ committed' = IF o = "ok" THEN [committed EXCEPT ![s] = commit] ELSE committed
      BY <1>5, <2>2 DEF RecoverIntent
    <3>2. /\ o = "ok" /\ intent.rec.disp \in Visible
               => bodyFile'[MessageOf[s]] = Settled(intent.rec.stored)
          /\ \A m \in Message : \A v : bodyFile[m] = Settled(v) => bodyFile'[m] = bodyFile[m]
      BY <2>2, <3>1, ReconcileBodyB DEF Nth
    <3>3. ReceiptBacked'
      BY <2>1, <3>1, <3>2, MessageAssumption DEF ReceiptBacked, TypeOK
    <3> QED
      BY <2>1, <3>3 DEF RecoveryOrder, DeleteOrder, JobBacked
  <2>3. CASE ~(~known /\ ValidBody(s, intent.rec))
    BY <1>5, <2>1, <2>3, QuietB DEF RecoverIntent
  <2> QED
    BY <2>2, <2>3
<1> QED
  BY <1>1, <1>2, <1>3, <1>4, <1>5 DEF Recovers

LEMMA BInit == Init => BInv
  BY DEF Init, BInv, RecoveryOrder, DeleteOrder, JobBacked, ReceiptBacked

LEMMA BNext ==
    ASSUME TInv, BInv, [Next]_vars
    PROVE  BInv'
<1>1. CASE Tick
  BY <1>1, QuietB DEF Tick, disk, memory, control
<1>2. CASE UNCHANGED vars
  BY <1>2, QuietB DEF vars, disk, memory, control
<1> QED
  BY <1>1, <1>2, CommitsB, DeletesB, MaintainsB, HooksB, CrashesB, RecoversB DEF Next

(* The purge authority that haves() reports always has its archive behind   *)
(* it, whatever fails, crashes or is deleted in between.                    *)
THEOREM ReceiptsAreBacked == Spec => []ReceiptBacked
<1>1. Init => TInv /\ BInv
  BY TInit, BInit
<1>2. TInv /\ BInv /\ [Next]_vars => (TInv /\ BInv)'
  BY TNext, BNext
<1>3. TInv /\ BInv => ReceiptBacked
  BY DEF BInv
<1> QED
  BY <1>1, <1>2, <1>3, PTL DEF Spec

-----------------------------------------------------------------------------
(* A receipt survives every crash.                                          *)

(* ReceiptSurvives of one scope.                                            *)
Survives(s) ==
    committed[s] # None /\ Live(committed[s].rec) /\ MessageOf[s] \notin deleted
        => \A c \in commitFile[s].may :
              c # None /\ (c.rec.disp \in Visible => bodyFile[MessageOf[s]] = Settled(c.rec.stored))

(* What the loops over receipts have still to visit: no commit record is    *)
(* read twice, a deletion visits receipts of its message only, and pruning  *)
(* only receipts that are past their lifetime.                              *)
Visits ==
    /\ phase = "commits" => \A s \in todo : committed[s] = None
    /\ phase \in {"delIntent", "delCommit"} => \A s \in todo : MessageOf[s] = victim
    /\ phase \in {"pruneIntent", "pruneCommit"} => \A s \in todo : ~Live(committed[s].rec)
    /\ phase \in {"delCommit", "pruneCommit"} => job.scope \in todo

SInv == Visits /\ \A s \in Scope : Survives(s)

(* A step that settles no archive anew and adds at most one commit record   *)
(* that the archive backs leaves every receipt recoverable.                 *)
BodiesStay == \A m \in Message \ deleted' : \A v \in Image : bodyFile[m] = Settled(v) => bodyFile'[m] = bodyFile[m]

LEMMA SameSurvives ==
    ASSUME TInv, NEW s \in Scope, Survives(s), BodiesStay, deleted \subseteq deleted', now' = now,
           committed[s] # None, committed'[s] # None, committed'[s].rec = committed[s].rec,
           \A c \in commitFile'[s].may \ commitFile[s].may :
              c # None /\ (c.rec.disp \in Visible => bodyFile'[MessageOf[s]] = Settled(c.rec.stored))
    PROVE  Survives(s)'
<1>1. SUFFICES ASSUME Live(committed[s].rec), MessageOf[s] \notin deleted',
                      NEW c \in commitFile'[s].may
               PROVE  c # None /\ (c.rec.disp \in Visible =>
                                      bodyFile'[MessageOf[s]] = Settled(c.rec.stored))
  BY DEF Survives, Live
<1>2. CASE c \in commitFile[s].may
  <2>1. c # None /\ (c.rec.disp \in Visible => bodyFile[MessageOf[s]] = Settled(c.rec.stored))
    BY <1>1, <1>2 DEF Survives
  <2>2. c \in Commit
    BY <1>2, <2>1 DEF TInv, TypeOK, File
  <2>3. c.rec.disp \in Visible => c.rec.stored \in Image
    BY <2>2 DEF Commit, Record, Visible, Invisible
  <2> QED
    BY <1>1, <2>1, <2>3, MessageAssumption DEF BodiesStay
<1> QED
  BY <1>2

LEMMA OthersSurvive ==
    ASSUME TInv, \A t \in Scope : Survives(t), NEW s, BodiesStay, deleted \subseteq deleted', now' = now,
           \A t \in Scope \ {s} : commitFile'[t] = commitFile[t] /\ committed'[t] = committed[t]
    PROVE  \A t \in Scope \ {s} : Survives(t)'
<1> SUFFICES ASSUME NEW t \in Scope \ {s}
             PROVE  Survives(t)'
  OBVIOUS
<1>1. CASE committed[t] = None
  BY <1>1 DEF Survives
<1>2. CASE committed[t] # None
  BY <1>2, SameSurvives
<1> QED
  BY <1>1, <1>2

LEMMA WrittenSurvives ==
    ASSUME NEW s, NEW c, commitFile'[s] = Settled(c), c # None,
           c.rec.disp \in Visible => bodyFile'[MessageOf[s]] = Settled(c.rec.stored)
    PROVE  Survives(s)'
  BY DEF Survives, Settled

(* A durable write of one commit record, however it ends.                   *)
LEMMA CommitWritten ==
    ASSUME TInv, SInv, NEW s \in Scope, NEW c, NEW o, BodiesStay,
           deleted' = deleted, now' = now,
           c # None, c.rec.disp \in Visible => bodyFile'[MessageOf[s]] = Settled(c.rec.stored),
           commitFile' = [commitFile EXCEPT ![s] = Written(@, c, o)],
           committed' = IF o = "ok" THEN [committed EXCEPT ![s] = c] ELSE committed
    PROVE  \A t \in Scope : Survives(t)'
<1>1. /\ commitFile'[s] = Written(commitFile[s], c, o)
      /\ \A t \in Scope \ {s} : commitFile'[t] = commitFile[t] /\ committed'[t] = committed[t]
  BY DEF TInv, TypeOK
<1>2. \A t \in Scope \ {s} : Survives(t)'
  BY <1>1, OthersSurvive DEF SInv
<1>3. CASE o = "ok"
  BY <1>1, <1>2, <1>3, WrittenOk, WrittenSurvives
<1>4. CASE o # "ok" /\ committed[s] # None
  <2>1. \A d \in commitFile'[s].may \ commitFile[s].may : d = c
    BY <1>1, <1>4 DEF Written
  <2>2. Survives(s)'
    BY <1>4, <2>1, SameSurvives DEF SInv
  <2> QED
    BY <1>2, <2>2
<1>5. CASE o # "ok" /\ committed[s] = None
  BY <1>2, <1>5 DEF Survives
<1> QED
  BY <1>3, <1>4, <1>5

LEMMA QuietS ==
    ASSUME TInv, SInv, UNCHANGED <<commitFile, committed, now>>, BodiesStay, deleted \subseteq deleted',
           Visits'
    PROVE  SInv'
<1>1. \A t \in Scope : Survives(t)'
  BY OthersSurvive DEF SInv
<1> QED
  BY <1>1 DEF SInv

LEMMA CommitsS ==
    ASSUME TInv, BInv, SInv, Commits
    PROVE  SInv'
<1> USE DEF AfterIntent
<1>1. ASSUME NEW s \in Scope, NEW w \in Image, CommitAgain(s, w) PROVE SInv'
  <2> DEFINE m == MessageOf[s]
  <2>1. PICK o \in Outcome : /\ bodyFile' = [bodyFile EXCEPT ![m] = Reconciled(@, o)]
                             /\ Go(o, "idle", None, {}, None)
    BY <1>1 DEF CommitAgain
  <2>2. bodyFile[m] = Settled(committed[s].rec.stored)
    BY <1>1 DEF CommitAgain, BInv, ReceiptBacked
  <2>3. Reconciled(bodyFile[m], o) = bodyFile[m]
    BY <2>2, WrittenSettled DEF Reconciled, Settled
  <2>4. UNCHANGED <<bodyFile, commitFile, committed, deleted, now>>
    BY <1>1, <2>1, <2>3 DEF CommitAgain, memory, TInv, TypeOK
  <2>5. Visits'
    BY <2>1, GoPhase DEF Visits
  <2> QED
    BY <2>4, <2>5, QuietS DEF BodiesStay
<1>2. ASSUME NEW s \in Scope, NEW w \in Image, NEW d \in Dispositions, StartCommit(s, w, d)
      PROVE SInv'
  <2>1. phase' = "intent" /\ UNCHANGED <<bodyFile, commitFile, committed, deleted, now>>
    BY <1>2 DEF StartCommit, disk, memory
  <2> QED
    BY <2>1, QuietS DEF Visits, BodiesStay
<1>3. CASE WriteIntent
  <2>1. PICK o \in Outcome : Go(o, AfterIntent(job.rec), job, {}, None)
    BY <1>3 DEF WriteIntent
  <2>2. UNCHANGED <<bodyFile, commitFile, committed, deleted, now>>
    BY <1>3 DEF WriteIntent, memory
  <2>3. Visits'
    BY <2>1, GoPhase DEF Visits
  <2> QED
    BY <2>2, <2>3, QuietS DEF BodiesStay
<1>4. CASE WriteBody
  <2> DEFINE m == MessageOf[job.scope]
  <2>1. PICK o \in Outcome :
          /\ bodyFile' = [bodyFile EXCEPT ![m] = Written(@, job.rec.stored, o)]
          /\ Go(o, "commit", job, {}, None)
    BY <1>4 DEF WriteBody
  <2>2. UNCHANGED <<commitFile, committed, deleted, now>>
    BY <1>4 DEF WriteBody, memory
  <2>3. Visits'
    BY <2>1, GoPhase DEF Visits
  <2>4. job \in Job /\ bodyFile[m].vis \in {None, job.rec.stored}
    BY <1>4 DEF WriteBody, TInv, LocalsOK, BInv, JobBacked
  <2>5. ASSUME NEW v \in Image, bodyFile[m] = Settled(v)
        PROVE  bodyFile'[m] = bodyFile[m]
    <3>1. job.rec.stored = v
      BY <2>4, <2>5, MessageAssumption DEF Settled
    <3> QED
      BY <2>1, <2>4, <2>5, <3>1, WrittenSettled, MessageAssumption DEF TInv, TypeOK, Job
  <2>6. BodiesStay
    BY <2>1, <2>5 DEF BodiesStay, TInv, TypeOK
  <2> QED
    BY <2>2, <2>3, <2>6, QuietS
<1>5. CASE WriteCommit
  <2> DEFINE s == job.scope
             commit == Published(job)
  <2>1. PICK o \in Outcome :
          /\ commitFile' = [commitFile EXCEPT ![s] = Written(@, commit, o)]
          /\ committed' = IF o = "ok" THEN [committed EXCEPT ![s] = commit] ELSE committed
          /\ Go(o, "idle", None, {}, None)
    BY <1>5 DEF WriteCommit
  <2>2. UNCHANGED <<bodyFile, deleted, now>>
    BY <1>5 DEF WriteCommit
  <2>3. /\ job.rec.disp \in Visible => bodyFile[MessageOf[s]] = Settled(job.rec.stored)
        /\ job \in Job
    BY <1>5 DEF WriteCommit, BInv, JobBacked, TInv, LocalsOK
  <2>4. s \in Scope /\ commit.rec = job.rec /\ commit # None
    <3>1. commit \in Commit
      BY <2>3 DEF Published, Job, Commit
    <3> QED
      BY <2>3, <3>1, NoneAssumption DEF Published, Job
  <2>5. Visits'
    BY <2>1, GoPhase DEF Visits
  <2> HIDE DEF commit
  <2> QED
    BY <2>1, <2>2, <2>3, <2>4, <2>5, CommitWritten DEF SInv, BodiesStay
<1> QED
  BY <1>1, <1>2, <1>3, <1>4, <1>5 DEF Commits

LEMMA DeletesS ==
    ASSUME TInv, BInv, SInv, Deletes
    PROVE  SInv'
<1>1. ASSUME NEW m \in Message, StartDelete(m) PROVE SInv'
  <2> DEFINE receipts == {s \in Scope : committed[s] # None /\ MessageOf[s] = m}
  <2>1. PICK o \in Outcome :
          /\ deleted' = IF o = "ok" THEN deleted \cup {m} ELSE deleted
          /\ Go(o, "delIntent", None, receipts, m)
    BY <1>1 DEF StartDelete
  <2>2. UNCHANGED <<bodyFile, commitFile, committed, now>> /\ deleted \subseteq deleted'
    BY <1>1, <2>1 DEF StartDelete
  <2>3. Visits'
    BY <2>1, GoPhase DEF Visits
  <2> QED
    BY <2>2, <2>3, QuietS DEF BodiesStay
<1>2. ASSUME NEW s \in Scope, DeleteIntent(s) PROVE SInv'
  <2> DEFINE rec == [committed[s].rec EXCEPT !.disp = "UserDeleted", !.stored = None, !.at = now]
             new == [scope |-> s, rec |-> rec, hook |-> FALSE]
  <2>1. PICK o \in Outcome : Go(o, "delCommit", new, todo, victim)
    BY <1>2 DEF DeleteIntent
  <2>2. UNCHANGED <<bodyFile, commitFile, committed, deleted, now>>
    BY <1>2 DEF DeleteIntent, memory
  <2>3. /\ phase' \in {"delCommit", "torn", "idle"}
        /\ phase' = "delCommit" => job' = new /\ todo' = todo /\ victim' = victim
    BY <2>1, GoPhase
  <2>4. phase = "delIntent" /\ s \in todo /\ new.scope = s
    BY <1>2 DEF DeleteIntent
  <2> HIDE DEF new
  <2>5. Visits'
    BY <2>3, <2>4 DEF SInv, Visits
  <2> QED
    BY <2>2, <2>5, QuietS DEF BodiesStay
<1>3. CASE DeleteCommit
  <2> DEFINE s == job.scope
             commit == [rec |-> job.rec, hook |-> FALSE, done |-> TRUE]
             rest == todo \ {s}
  <2>1. PICK o \in Outcome :
          /\ commitFile' = [commitFile EXCEPT ![s] = Written(@, commit, o)]
          /\ committed' = IF o = "ok" THEN [committed EXCEPT ![s] = commit] ELSE committed
          /\ Go(o, "delIntent", None, rest, victim)
    BY <1>3 DEF DeleteCommit
  <2>2. UNCHANGED <<bodyFile, deleted, now>>
    BY <1>3 DEF DeleteCommit
  <2>3. job \in Job /\ job.rec.disp = "UserDeleted" /\ phase = "delCommit"
    BY <1>3 DEF DeleteCommit, TInv, LocalsOK, BInv, DeleteOrder
  <2>4. s \in Scope /\ commit.rec = job.rec /\ commit # None
    <3>1. commit \in Commit
      BY <2>3 DEF Job, Commit
    <3> QED
      BY <2>3, <3>1, NoneAssumption DEF Job
  <2>5. Visits'
    <3>1. /\ phase' \in {"delIntent", "torn", "idle"}
          /\ phase' = "delIntent" => todo' = rest /\ victim' = victim
      BY <2>1, GoPhase
    <3> QED
      BY <2>3, <3>1 DEF SInv, Visits
  <2>6. job.rec.disp \notin Visible
    BY <2>3 DEF Visible
  <2> HIDE DEF commit
  <2> QED
    BY <2>1, <2>2, <2>4, <2>5, <2>6, CommitWritten DEF SInv, BodiesStay
<1>4. CASE DeleteBody
  <2>1. PICK o \in Outcome :
          /\ bodyFile' = [bodyFile EXCEPT ![victim] = Written(@, None, o)]
          /\ Go(o, "idle", None, {}, None)
    BY <1>4 DEF DeleteBody
  <2>2. UNCHANGED <<commitFile, committed, deleted, now>> /\ victim \in deleted
    BY <1>4 DEF DeleteBody, memory, BInv, DeleteOrder
  <2>3. BodiesStay
    BY <2>1, <2>2 DEF BodiesStay, TInv, TypeOK
  <2>4. Visits'
    BY <2>1, GoPhase DEF Visits
  <2> QED
    BY <2>2, <2>3, <2>4, QuietS
<1> QED
  BY <1>1, <1>2, <1>3, <1>4 DEF Deletes

LEMMA MaintainsS ==
    ASSUME TInv, BInv, SInv, Maintains
    PROVE  SInv'
<1>1. CASE StartMaintain
  <2>1. /\ UNCHANGED <<bodyFile, commitFile, committed, deleted, now>>
        /\ phase' = "pruneIntent" /\ todo' = Expired
    BY <1>1 DEF StartMaintain, disk, memory
  <2>2. Visits'
    BY <2>1 DEF Visits, Expired, Live
  <2> QED
    BY <2>1, <2>2, QuietS DEF BodiesStay
<1>2. ASSUME NEW s \in Scope, PruneIntent(s) PROVE SInv'
  <2> DEFINE new == [scope |-> s, rec |-> committed[s].rec, hook |-> FALSE]
  <2>1. PICK o \in Outcome : Go(o, "pruneCommit", new, todo, None)
    BY <1>2 DEF PruneIntent
  <2>2. UNCHANGED <<bodyFile, commitFile, committed, deleted, now>>
    BY <1>2 DEF PruneIntent, memory
  <2>3. /\ phase' \in {"pruneCommit", "torn", "idle"}
        /\ phase' = "pruneCommit" => job' = new /\ todo' = todo
        /\ phase = "pruneIntent" /\ s \in todo /\ new.scope = s
    BY <1>2, <2>1, GoPhase DEF PruneIntent
  <2> HIDE DEF new
  <2>4. Visits'
    BY <2>2, <2>3 DEF SInv, Visits, Live
  <2> QED
    BY <2>2, <2>4, QuietS DEF BodiesStay
<1>3. CASE PruneCommit
  <2>0. PICK s : s = job.scope
    OBVIOUS
  <2> DEFINE rest == todo \ {s}
             next == IF rest = {} THEN "idle" ELSE "pruneIntent"
  <2>1. PICK o \in Outcome :
          /\ commitFile' = [commitFile EXCEPT ![s] = Written(@, None, o)]
          /\ committed' = IF o = "ok" THEN [committed EXCEPT ![s] = None] ELSE committed
          /\ Go(o, next, None, rest, None)
    BY <1>3, <2>0 DEF PruneCommit
  <2>2. UNCHANGED <<bodyFile, deleted, now>> /\ phase = "pruneCommit"
    BY <1>3 DEF PruneCommit
  <2>3. s \in Scope /\ ~Live(committed[s].rec)
    BY <2>0, <2>2 DEF SInv, Visits, TInv, TypeOK
  <2>4. \A t \in Scope \ {s} : commitFile'[t] = commitFile[t] /\ committed'[t] = committed[t]
    BY <2>1, <2>3 DEF TInv, TypeOK
  <2>5. \A t \in Scope \ {s} : Survives(t)'
    BY <2>2, <2>4, OthersSurvive DEF SInv, BodiesStay
  <2>6. Survives(s)'
    <3>1. committed'[s] = committed[s] \/ committed'[s] = None
      BY <2>1, <2>3 DEF TInv, TypeOK
    <3> QED
      BY <2>2, <2>3, <3>1 DEF Survives, Live
  <2>7. Visits'
    <3>1. /\ phase' \in {"idle", "pruneIntent", "torn"}
          /\ phase' = "pruneIntent" => todo' = rest
      BY <2>1, GoPhase
    <3>2. \A t \in rest : ~Live(committed[t].rec) /\ committed'[t] = committed[t]
      BY <2>2, <2>4 DEF SInv, Visits, TInv, TypeOK
    <3> QED
      BY <2>2, <3>1, <3>2 DEF Visits, Live
  <2> QED
    BY <2>5, <2>6, <2>7 DEF SInv
<1> QED
  BY <1>1, <1>2, <1>3 DEF Maintains

LEMMA HooksS ==
    ASSUME TInv, BInv, SInv, Hooks
    PROVE  SInv'
<1>1. CASE (\E s \in Scope : TakeHook(s)) \/ HookSucceeds \/ HookFails
  <2>1. UNCHANGED <<bodyFile, commitFile, committed, deleted, now, phase, todo, job, victim>>
    BY <1>1 DEF TakeHook, HookSucceeds, HookFails, disk, memory, control
  <2> QED
    BY <2>1, QuietS DEF SInv, Visits, Live, BodiesStay
<1>2. CASE CompleteHook
  <2>0. PICK s : s = hookTask.scope
    OBVIOUS
  <2> DEFINE commit == [committed[s] EXCEPT !.done = TRUE]
  <2>1. UNCHANGED <<bodyFile, deleted, now>> /\ phase = "idle"
    BY <1>2 DEF CompleteHook, Idle
  <2>2. CASE committed[s] # None /\ committed[s].hook
    <3>1. PICK o \in Outcome :
            /\ commitFile' = [commitFile EXCEPT ![s] = Written(@, commit, o)]
            /\ committed' = IF o = "ok" THEN [committed EXCEPT ![s] = commit] ELSE committed
            /\ Go(o, "idle", None, {}, None)
      BY <1>2, <2>0, <2>2 DEF CompleteHook
    <3>2. s \in Scope /\ committed[s] \in Commit
      BY <1>2, <2>0, <2>2 DEF CompleteHook, TInv, TypeOK
    <3>3. commit.rec = committed[s].rec /\ commit # None
      <4>1. commit \in Commit
        BY <3>2 DEF Commit
      <4> QED
        BY <3>2, <4>1, NoneAssumption DEF Commit
    <3>4. Visits'
      BY <3>1, GoPhase DEF Visits
    <3>5. CASE MessageOf[s] \notin deleted
      <4>1. commit.rec.disp \in Visible => bodyFile[MessageOf[s]] = Settled(commit.rec.stored)
        BY <2>2, <3>2, <3>3, <3>5 DEF BInv, ReceiptBacked
      <4> HIDE DEF commit
      <4> QED
        BY <2>1, <3>1, <3>2, <3>3, <3>4, <4>1, CommitWritten DEF SInv, BodiesStay
    <3>6. CASE MessageOf[s] \in deleted
      <4>1. \A t \in Scope \ {s} : commitFile'[t] = commitFile[t] /\ committed'[t] = committed[t]
        BY <3>1, <3>2 DEF TInv, TypeOK
      <4>2. \A t \in Scope \ {s} : Survives(t)'
        BY <2>1, <4>1, OthersSurvive DEF SInv, BodiesStay
      <4>3. Survives(s)'
        BY <2>1, <3>6 DEF Survives
      <4> QED
        BY <3>4, <4>2, <4>3 DEF SInv
    <3> QED
      BY <3>5, <3>6
  <2>3. CASE ~(committed[s] # None /\ committed[s].hook)
    <3>1. UNCHANGED <<bodyFile, commitFile, committed, deleted, now, phase, todo, job, victim>>
      BY <1>2, <2>0, <2>3 DEF CompleteHook, control
    <3> QED
      BY <3>1, QuietS DEF SInv, Visits, Live, BodiesStay
  <2> QED
    BY <2>2, <2>3
<1> QED
  BY <1>1, <1>2 DEF Hooks

LEMMA CrashesS ==
    ASSUME TInv, SInv, Crashes
    PROVE  SInv'
<1>1. Stopped
  BY DEF Crashes, Kill, PowerLoss
<1> QED
  BY <1>1 DEF Stopped, SInv, Visits, Survives

LEMMA RecoversS ==
    ASSUME TInv, BInv, SInv, Recovers
    PROVE  SInv'
<1>1. CASE Open
  <2>1. phase' = "tombs" /\ UNCHANGED <<bodyFile, commitFile, committed, deleted, now>>
    BY <1>1 DEF Open, disk, memory
  <2> QED
    BY <2>1, QuietS DEF Visits, BodiesStay
<1>2. CASE CommitsRecovered \/ Recovered
  <2>1. phase' \in {"intents", "idle"} /\ UNCHANGED <<bodyFile, commitFile, committed, deleted, now>>
    BY <1>2 DEF CommitsRecovered, Recovered, disk, memory
  <2> QED
    BY <2>1, QuietS DEF Visits, BodiesStay
<1>3. CASE TombsRecovered
  <2>1. /\ phase' = "commits" /\ todo' \subseteq Scope
        /\ UNCHANGED <<bodyFile, commitFile, committed, deleted, now>>
    BY <1>3 DEF TombsRecovered, disk, memory
  <2>2. \A s \in Scope : committed[s] = None
    BY <1>3 DEF TombsRecovered, BInv, RecoveryOrder
  <2>3. Visits'
    BY <2>1, <2>2 DEF Visits
  <2> QED
    BY <2>1, <2>3, QuietS DEF BodiesStay
<1>4. ASSUME NEW m \in Message, RecoverTomb(m) PROVE SInv'
  <2>1. phase' \in {"tombs", "down"} /\ committed' = committed
        /\ \A s \in Scope : committed[s] = None
    BY <1>4 DEF RecoverTomb, BInv, RecoveryOrder
  <2> QED
    BY <2>1 DEF SInv, Visits, Survives
<1>5. ASSUME NEW s \in Scope, RecoverCommit(s) PROVE SInv'
  <2> DEFINE commit == commitFile[s].vis
  <2>1. /\ phase' \in {"commits", "torn"} /\ deleted' = deleted /\ now' = now
        /\ phase = "commits" /\ s \in todo /\ todo' = todo \ {s}
    BY <1>5 DEF RecoverCommit, Continue
  <2>2. committed[s] = None /\ commit \in Commit
    BY <2>1 DEF SInv, Visits, TInv, LocalsOK
  <2>3. commit # None
    BY <2>2, NoneAssumption
  <2>4. CASE ValidBody(s, commit.rec)
    <3>1. PICK o \in Outcome, at \in 1 .. 2 :
            /\ ReconcileBody(s, commit.rec, Nth(1, at, o))
            /\ commitFile' = [commitFile EXCEPT ![s] = Reconciled(@, Nth(2, at, o))]
            /\ committed' = IF o = "ok" THEN [committed EXCEPT ![s] = commit] ELSE committed
      BY <1>5, <2>4 DEF RecoverCommit
    <3>2. /\ o = "ok" /\ commit.rec.disp \in Visible
               => bodyFile'[MessageOf[s]] = Settled(commit.rec.stored)
          /\ \A m \in Message : \A v : bodyFile[m] = Settled(v) => bodyFile'[m] = bodyFile[m]
      BY <2>4, <3>1, ReconcileBodyB DEF Nth
    <3>3. \A t \in Scope \ {s} : commitFile'[t] = commitFile[t] /\ committed'[t] = committed[t]
      BY <3>1 DEF TInv, TypeOK
    <3>4. \A t \in Scope \ {s} : Survives(t)'
      BY <2>1, <3>2, <3>3, OthersSurvive DEF SInv, BodiesStay
    <3>5. CASE o = "ok"
      <4>1. commitFile'[s] = Settled(commit)
        BY <3>1, <3>5, WrittenOk DEF TInv, TypeOK, Reconciled, Nth
      <4> QED
        BY <2>1, <2>3, <3>1, <3>2, <3>3, <3>4, <3>5, <4>1, WrittenSurvives DEF SInv, Visits
    <3>6. CASE o # "ok"
      BY <2>1, <2>2, <3>1, <3>3, <3>4, <3>6 DEF SInv, Visits, Survives
    <3> QED
      BY <3>5, <3>6
  <2>5. CASE ~ValidBody(s, commit.rec)
    <3>1. UNCHANGED <<bodyFile, commitFile, committed>>
      BY <1>5, <2>5 DEF RecoverCommit
    <3> QED
      BY <2>1, <3>1, QuietS DEF SInv, Visits, BodiesStay
  <2> QED
    BY <2>4, <2>5
<1>6. ASSUME NEW s \in Scope, RecoverIntent(s) PROVE SInv'
  <2> DEFINE intent == intentFile[s].vis
             commit == Published(intent)
             known == committed[s] # None /\ committed[s].rec = intent.rec
  <2>1. phase' \in {"intents", "torn"} /\ deleted' = deleted /\ now' = now
    BY <1>6 DEF RecoverIntent, Continue
  <2>2. Visits'
    BY <2>1 DEF Visits
  <2>3. CASE ~known /\ ValidBody(s, intent.rec)
    <3>1. PICK o \in Outcome, at \in 1 .. 3 :
            /\ ReconcileBody(s, intent.rec, Nth(1, at, o))
            /\ commitFile' = [commitFile EXCEPT ![s] = Written(@, commit, Nth(3, at, o))]
            /\ committed' = IF o = "ok" THEN [committed EXCEPT ![s] = commit] ELSE committed
      BY <1>6, <2>3 DEF RecoverIntent
    <3>2. /\ Nth(1, at, o) = "ok" /\ intent.rec.disp \in Visible
               => bodyFile'[MessageOf[s]] = Settled(intent.rec.stored)
          /\ \A m \in Message : \A v : bodyFile[m] = Settled(v) => bodyFile'[m] = bodyFile[m]
      BY <2>3, <3>1, ReconcileBodyB
    <3>3. commit # None /\ commit.rec = intent.rec
      <4>1. intent \in Intent
        BY <1>6 DEF RecoverIntent, TInv, LocalsOK
      <4>2. commit \in Commit
        BY <4>1 DEF Intent, Commit, Published
      <4> QED
        BY <4>2, NoneAssumption DEF Published
    <3>4. BodiesStay
      BY <3>2 DEF BodiesStay
    <3> HIDE DEF commit, intent
    <3>5. CASE Nth(3, at, o) = "skipped"
      <4>1. o # "ok"
        BY <3>5 DEF Nth
      <4>2. commitFile' = commitFile /\ committed' = committed
        BY <3>1, <3>5, <4>1 DEF Written, TInv, TypeOK
      <4> QED
        BY <2>1, <2>2, <3>4, <4>2, QuietS
    <3>6. CASE Nth(3, at, o) # "skipped"
      <4>1. Nth(1, at, o) = "ok" /\ (Nth(3, at, o) = "ok" <=> o = "ok")
        BY <3>6 DEF Nth
      <4>2. committed' = IF Nth(3, at, o) = "ok" THEN [committed EXCEPT ![s] = commit] ELSE committed
        BY <3>1, <4>1
      <4>3. commit.rec.disp \in Visible => bodyFile'[MessageOf[s]] = Settled(commit.rec.stored)
        BY <3>2, <3>3, <4>1
      <4>4. \A t \in Scope : Survives(t)'
        BY <2>1, <3>1, <3>3, <3>4, <4>2, <4>3, CommitWritten
      <4> QED
        BY <2>2, <4>4 DEF SInv
    <3> QED
      BY <3>5, <3>6
  <2>4. CASE ~(~known /\ ValidBody(s, intent.rec))
    <3>1. UNCHANGED <<bodyFile, commitFile, committed>>
      BY <1>6, <2>4 DEF RecoverIntent
    <3> QED
      BY <2>1, <2>2, <3>1, QuietS DEF BodiesStay
  <2> QED
    BY <2>3, <2>4
<1> QED
  BY <1>1, <1>2, <1>3, <1>4, <1>5, <1>6 DEF Recovers

LEMMA TickS ==
    ASSUME TInv, SInv, Tick
    PROVE  SInv'
<1>1. /\ UNCHANGED <<bodyFile, commitFile, committed, deleted, phase, todo, job, victim>>
      /\ now \in Nat /\ now' = now + 1
  BY BoundAssumption DEF Tick, disk, memory, control, TInv, TypeOK
<1>2. ASSUME NEW s \in Scope, committed[s] # None, Live(committed[s].rec)'
      PROVE  Live(committed[s].rec)
  <2>1. committed[s].rec.at \in Nat
    BY <1>2, BoundAssumption DEF TInv, TypeOK, Commit, Record
  <2> QED
    BY <1>1, <1>2, <2>1, BoundAssumption DEF Live
<1>3. \A s \in Scope : Survives(s)'
  BY <1>1, <1>2 DEF SInv, Survives
<1>4. Visits'
  <2>1. ASSUME phase \in {"pruneIntent", "pruneCommit"}, NEW s \in todo
        PROVE  ~Live(committed[s].rec)'
    <3>1. committed[s] \in Commit /\ s \in Scope
      BY <2>1 DEF TInv, TypeOK, LocalsOK
    <3> QED
      BY <1>1, <1>2, <2>1, <3>1, NoneAssumption DEF SInv, Visits
  <2> QED
    BY <1>1, <2>1 DEF SInv, Visits
<1> QED
  BY <1>3, <1>4 DEF SInv

LEMMA SInit == Init => SInv
  BY DEF Init, SInv, Visits, Survives

LEMMA SNext ==
    ASSUME TInv, BInv, SInv, [Next]_vars
    PROVE  SInv'
<1>1. CASE UNCHANGED vars
  BY <1>1 DEF vars, disk, memory, control, SInv, Visits, Survives, Live
<1> QED
  BY <1>1, CommitsS, DeletesS, MaintainsS, HooksS, CrashesS, RecoversS, TickS DEF Next

(* A live receipt in memory comes back after any crash: whichever commit    *)
(* record a power loss leaves passes validate_body().                       *)
THEOREM ReceiptsSurvive == Spec => []ReceiptSurvives
<1>1. Init => TInv /\ BInv /\ SInv
  BY TInit, BInit, SInit
<1>2. TInv /\ BInv /\ SInv /\ [Next]_vars => (TInv /\ BInv /\ SInv)'
  BY TNext, BNext, SNext
<1>3. SInv => ReceiptSurvives
  BY DEF SInv, Survives, ReceiptSurvives
<1> QED
  BY <1>1, <1>2, <1>3, PTL DEF Spec

-----------------------------------------------------------------------------
(* The store implements the abstract archive.                               *)

(* Only a tombstone that was asked for is written, and it is settled before *)
(* a deletion takes effect or is confirmed; a confirmed one left no body.   *)
Tombs ==
    \A m \in Message :
        /\ tombFile[m].vis \in {None, m} /\ tombFile[m].may \subseteq {None, m}
        /\ m \notin deleteAsked => tombFile[m] = Settled(None)
        /\ m \in deleted \cup deleteDone => tombFile[m] = Settled(m) /\ m \in deleteAsked
        /\ m \in deleteDone => /\ bodyFile[m] = Settled(None)
                               /\ m \in deleted \/ phase \in {"down", "tombs"}

(* What was accepted is past its barriers.                                  *)
Archived(m) == \E v \in Image : bodyFile[m] = Settled(v)
AcceptedKept == \A s \in accepted : MessageOf[s] \notin deleteAsked => Archived(MessageOf[s])

AInv == Tombs /\ AcceptedKept

(* How a step may change a body: not at all, or there was none past its     *)
(* barriers and its deletion was not confirmed, or it is removed on request.*)
BodyMoves ==
    \A m \in Message :
        \/ bodyFile'[m] = bodyFile[m]
        \/ ~Archived(m) /\ m \notin deleteDone
        \/ m \in deleteAsked /\ \E o : bodyFile'[m] = Written(bodyFile[m], None, o)

Accepts ==
    \/ accepted' = accepted
    \/ \E s \in Scope : accepted' = accepted \cup {s} /\ Archived(MessageOf[s])'

Asks == deleteAsked' = deleteAsked \/ \E m \in Message : deleteAsked' = deleteAsked \cup {m}

Confirms ==
    \/ deleteDone' = deleteDone
    \/ \E m \in Message : /\ m \in deleted /\ deleted' = deleted
                          /\ bodyFile'[m] = Settled(None)
                          /\ deleteDone' = deleteDone \cup {m}

Moves == BodyMoves /\ Accepts /\ Asks /\ Confirms

LEMMA AcceptedStep ==
    ASSUME TInv, AInv, Moves
    PROVE  AcceptedKept'
<1> SUFFICES ASSUME NEW s \in accepted', MessageOf[s] \notin deleteAsked'
             PROVE  Archived(MessageOf[s])'
  BY DEF AcceptedKept
<1>1. MessageOf[s] \notin deleteAsked
  BY DEF Moves, Asks
<1>2. CASE s \in accepted
  <2>1. Archived(MessageOf[s]) /\ MessageOf[s] \in Message
    BY <1>1, <1>2, MessageAssumption DEF AInv, AcceptedKept, TInv, TypeOK
  <2>2. bodyFile'[MessageOf[s]] = bodyFile[MessageOf[s]]
    BY <1>1, <2>1 DEF Moves, BodyMoves
  <2> QED
    BY <2>1, <2>2 DEF Archived
<1>3. CASE s \notin accepted
  BY <1>3 DEF Moves, Accepts
<1> QED
  BY <1>2, <1>3

(* A confirmed deletion stays, and no body comes back.                      *)
LEMMA ConfirmedStep ==
    ASSUME TInv, AInv, Moves, NEW m \in Message, m \in deleteDone'
    PROVE  /\ bodyFile'[m] = Settled(None)
           /\ m \in deleteDone \/ (m \in deleted /\ deleted' = deleted)
<1>1. CASE m \in deleteDone
  <2>1. bodyFile[m] = Settled(None)
    BY <1>1 DEF AInv, Tombs
  <2>2. bodyFile'[m] = bodyFile[m] \/ \E o : bodyFile'[m] = Written(bodyFile[m], None, o)
    BY <1>1 DEF Moves, BodyMoves
  <2> QED
    BY <1>1, <2>1, <2>2, WrittenSettled
<1>2. CASE m \notin deleteDone
  BY <1>2 DEF Moves, Confirms
<1> QED
  BY <1>1, <1>2

(* Steps that touch no tombstone and forget none.                           *)
LEMMA QuietA ==
    ASSUME TInv, AInv, Moves, tombFile' = tombFile, deleted' = deleted,
           phase' \in {"down", "tombs"} \/ phase \notin {"down", "tombs"}
    PROVE  AInv'
<1> SUFFICES ASSUME NEW m \in Message
             PROVE  /\ tombFile[m].vis \in {None, m} /\ tombFile[m].may \subseteq {None, m}
                    /\ m \notin deleteAsked' => tombFile[m] = Settled(None)
                    /\ m \in deleted \cup deleteDone' => tombFile[m] = Settled(m) /\ m \in deleteAsked'
                    /\ m \in deleteDone' => /\ bodyFile'[m] = Settled(None)
                                            /\ m \in deleted \/ phase' \in {"down", "tombs"}
  BY AcceptedStep DEF AInv, Tombs
<1>1. m \in deleteDone' => bodyFile'[m] = Settled(None) /\ m \in deleted \cup deleteDone
  BY ConfirmedStep
<1>2. deleteAsked \subseteq deleteAsked'
  BY DEF Moves, Asks
<1> QED
  BY <1>1, <1>2 DEF AInv, Tombs, Moves, Confirms

(* Steps that touch nothing the archive can see.                            *)
LEMMA StillA ==
    ASSUME TInv, AInv, UNCHANGED <<bodyFile, tombFile, deleted, accepted, deleteAsked, deleteDone>>,
           phase' \in {"down", "tombs"} \/ phase \notin {"down", "tombs"}
    PROVE  Moves /\ AInv'
<1>1. Moves
  BY DEF Moves, BodyMoves, Accepts, Asks, Confirms
<1> QED
  BY <1>1, QuietA

LEMMA CommitsA ==
    ASSUME TInv, BInv, AInv, Commits
    PROVE  Moves /\ AInv'
<1>1. ASSUME NEW s \in Scope, NEW w \in Image, CommitAgain(s, w) PROVE Moves /\ AInv'
  <2> DEFINE m == MessageOf[s]
  <2>1. PICK o \in Outcome : /\ bodyFile' = [bodyFile EXCEPT ![m] = Reconciled(@, o)]
                             /\ accepted' = IF o = "ok" THEN accepted \cup {s} ELSE accepted
    BY <1>1 DEF CommitAgain
  <2>2. bodyFile[m] = Settled(committed[s].rec.stored) /\ committed[s].rec.stored \in Image
    BY <1>1 DEF CommitAgain, BInv, ReceiptBacked, TInv, TypeOK, Commit, Record, Visible, Invisible
  <2>3. Reconciled(bodyFile[m], o) = bodyFile[m]
    BY <2>2, WrittenSettled DEF Reconciled, Settled
  <2>4. UNCHANGED <<bodyFile, tombFile, deleted, deleteAsked, deleteDone>> /\ phase = "idle"
    BY <1>1, <2>1, <2>3 DEF CommitAgain, memory, TInv, TypeOK, Idle
  <2>5. Archived(m)'
    BY <2>2, <2>4 DEF Archived
  <2>6. Moves
    BY <2>1, <2>4, <2>5 DEF Moves, BodyMoves, Accepts, Asks, Confirms
  <2> QED
    BY <2>4, <2>6, QuietA
<1>2. CASE (\E s \in Scope, w \in Image, d \in Dispositions : StartCommit(s, w, d)) \/ WriteIntent
  <2>1. /\ UNCHANGED <<bodyFile, tombFile, deleted, accepted, deleteAsked, deleteDone>>
        /\ phase \notin {"down", "tombs"}
    BY <1>2 DEF StartCommit, WriteIntent, disk, memory, asked, Idle
  <2> QED
    BY <2>1, StillA
<1>3. CASE WriteBody
  <2> DEFINE m == MessageOf[job.scope]
  <2>1. PICK o \in Outcome : bodyFile' = [bodyFile EXCEPT ![m] = Written(@, job.rec.stored, o)]
    BY <1>3 DEF WriteBody
  <2>2. /\ UNCHANGED <<tombFile, deleted, accepted, deleteAsked, deleteDone>>
        /\ phase = "body"
    BY <1>3 DEF WriteBody, memory, asked
  <2>3. /\ job \in Job /\ job.rec.disp \in Visible
        /\ bodyFile[m].vis \in {None, job.rec.stored} /\ m \notin deleted
    BY <1>3 DEF WriteBody, TInv, LocalsOK, BInv, JobBacked
  <2>4. m \notin deleteDone
    BY <2>2, <2>3, MessageAssumption DEF AInv, Tombs, Job
  <2>5. Archived(m) => bodyFile'[m] = bodyFile[m]
    <3> SUFFICES ASSUME NEW v \in Image, bodyFile[m] = Settled(v)
                 PROVE  bodyFile'[m] = bodyFile[m]
      BY DEF Archived
    <3>1. job.rec.stored = v
      BY <2>3, MessageAssumption DEF Settled
    <3> QED
      BY <2>1, <2>3, <3>1, WrittenSettled, MessageAssumption DEF TInv, TypeOK, Job
  <2>6. \A k \in Message : k = m \/ bodyFile'[k] = bodyFile[k]
    BY <2>1 DEF TInv, TypeOK
  <2>7. Moves
    BY <2>2, <2>4, <2>5, <2>6 DEF Moves, BodyMoves, Accepts, Asks, Confirms
  <2> QED
    BY <2>2, <2>7, QuietA
<1>4. CASE WriteCommit
  <2>1. PICK o \in Outcome : accepted' = IF o = "ok" /\ job.rec.disp \in Visible
                                         THEN accepted \cup {job.scope} ELSE accepted
    BY <1>4 DEF WriteCommit
  <2>2. UNCHANGED <<bodyFile, tombFile, deleted, deleteAsked, deleteDone>> /\ phase = "commit"
    BY <1>4 DEF WriteCommit
  <2>3. /\ job.rec.disp \in Visible => bodyFile[MessageOf[job.scope]] = Settled(job.rec.stored)
        /\ job \in Job
    BY <1>4 DEF WriteCommit, BInv, JobBacked, TInv, LocalsOK
  <2>4. PICK s \in Scope : s = job.scope
    BY <2>3 DEF Job
  <2>5. job.rec.disp \in Visible => Archived(MessageOf[s])'
    BY <2>2, <2>3, <2>4 DEF Archived, Job, Record, Visible, Invisible
  <2>6. Moves
    BY <2>1, <2>2, <2>4, <2>5 DEF Moves, BodyMoves, Accepts, Asks, Confirms
  <2> QED
    BY <2>2, <2>6, QuietA
<1> QED
  BY <1>1, <1>2, <1>3, <1>4 DEF Commits

LEMMA DeletesA ==
    ASSUME TInv, BInv, AInv, Deletes
    PROVE  Moves /\ AInv'
<1>1. ASSUME NEW m \in Message, StartDelete(m) PROVE Moves /\ AInv'
  <2>1. PICK o \in Outcome :
          /\ tombFile' = [tombFile EXCEPT ![m] = Written(@, m, o)]
          /\ deleted' = IF o = "ok" THEN deleted \cup {m} ELSE deleted
    BY <1>1 DEF StartDelete
  <2>2. /\ UNCHANGED <<bodyFile, accepted, deleteDone>> /\ deleteAsked' = deleteAsked \cup {m}
        /\ phase = "idle"
    BY <1>1 DEF StartDelete, Idle
  <2>3. Moves
    BY <2>2 DEF Moves, BodyMoves, Accepts, Asks, Confirms
  <2>4. AcceptedKept'
    BY <2>3, AcceptedStep
  <2>5. /\ tombFile'[m] = Written(tombFile[m], m, o)
        /\ \A k \in Message \ {m} : tombFile'[k] = tombFile[k]
    BY <2>1 DEF TInv, TypeOK
  <2>6. /\ tombFile'[m].vis \in {None, m} /\ tombFile'[m].may \subseteq {None, m}
        /\ o = "ok" => tombFile'[m] = Settled(m)
        /\ tombFile[m] = Settled(m) => tombFile'[m] = Settled(m)
    <3>1. tombFile[m].vis \in {None, m} /\ tombFile[m].may \subseteq {None, m}
      BY DEF AInv, Tombs
    <3> QED
      BY <2>5, <3>1, WrittenSettled, WrittenOk DEF Written, Settled
  <2>7. Tombs'
    <3> SUFFICES ASSUME NEW k \in Message
                 PROVE  /\ tombFile'[k].vis \in {None, k} /\ tombFile'[k].may \subseteq {None, k}
                        /\ k \notin deleteAsked' => tombFile'[k] = Settled(None)
                        /\ k \in deleted' \cup deleteDone' => tombFile'[k] = Settled(k) /\ k \in deleteAsked'
                        /\ k \in deleteDone' => /\ bodyFile'[k] = Settled(None)
                                                /\ k \in deleted' \/ phase' \in {"down", "tombs"}
      BY DEF Tombs
    <3>1. CASE k = m
      BY <2>1, <2>2, <2>6, <3>1 DEF AInv, Tombs
    <3>2. CASE k # m
      BY <2>1, <2>2, <2>5, <3>2 DEF AInv, Tombs
    <3> QED
      BY <3>1, <3>2
  <2> QED
    BY <2>3, <2>4, <2>7 DEF AInv
<1>2. CASE (\E s \in Scope : DeleteIntent(s)) \/ DeleteCommit
  <2>1. /\ UNCHANGED <<bodyFile, tombFile, deleted, accepted, deleteAsked, deleteDone>>
        /\ phase \notin {"down", "tombs"}
    BY <1>2 DEF DeleteIntent, DeleteCommit, memory, asked
  <2> QED
    BY <2>1, StillA
<1>3. CASE DeleteBody
  <2>1. PICK o \in Outcome :
          /\ bodyFile' = [bodyFile EXCEPT ![victim] = Written(@, None, o)]
          /\ deleteDone' = IF o = "ok" THEN deleteDone \cup {victim} ELSE deleteDone
    BY <1>3 DEF DeleteBody
  <2>2. /\ UNCHANGED <<tombFile, deleted, accepted, deleteAsked>> /\ phase = "delIntent"
        /\ victim \in deleted
    BY <1>3 DEF DeleteBody, memory, BInv, DeleteOrder
  <2>3. PICK m \in Message : m = victim
    BY <2>2 DEF TInv, LocalsOK
  <2>4. /\ bodyFile'[m] = Written(bodyFile[m], None, o)
        /\ \A k \in Message \ {m} : bodyFile'[k] = bodyFile[k]
    BY <2>1, <2>3 DEF TInv, TypeOK
  <2>5. m \in deleteAsked
    BY <2>2, <2>3 DEF AInv, Tombs
  <2>6. BodyMoves
    BY <2>4, <2>5 DEF BodyMoves
  <2>7. Confirms
    BY <2>1, <2>2, <2>3, <2>4, WrittenOk DEF Confirms
  <2>8. Moves
    BY <2>2, <2>6, <2>7 DEF Moves, Accepts, Asks
  <2> QED
    BY <2>2, <2>8, QuietA
<1> QED
  BY <1>1, <1>2, <1>3 DEF Deletes

LEMMA RestA ==
    ASSUME TInv, AInv, Maintains \/ Hooks \/ Tick \/ UNCHANGED vars
    PROVE  Moves /\ AInv'
<1>1. UNCHANGED <<bodyFile, tombFile, deleted, accepted, deleteAsked, deleteDone>>
  BY DEF Maintains, StartMaintain, PruneIntent, PruneCommit, Hooks, TakeHook, HookSucceeds, HookFails,
         CompleteHook, Tick, vars, disk, memory, asked
<1>2. phase' \in {"down", "tombs"} \/ phase \notin {"down", "tombs"}
  <2>1. CASE Maintains
    BY <2>1 DEF Maintains, StartMaintain, PruneIntent, PruneCommit, Idle
  <2>2. CASE Hooks \/ Tick \/ UNCHANGED vars
    BY <2>2 DEF Hooks, TakeHook, HookSucceeds, HookFails, CompleteHook, Tick, vars, control, Idle
  <2> QED
    BY <2>1, <2>2
<1> QED
  BY <1>1, <1>2, StillA

(* A crash leaves of each body and tombstone what the barriers fixed.       *)
LEMMA CrashesA ==
    ASSUME TInv, AInv, Crashes
    PROVE  Moves /\ AInv'
<1>1. Stopped /\ UNCHANGED <<accepted, deleteAsked, deleteDone>>
  BY DEF Crashes, Kill, PowerLoss, asked
<1>2. CASE Kill
  <2>1. UNCHANGED <<bodyFile, tombFile>>
    BY <1>2 DEF Kill, disk
  <2>2. Moves
    BY <1>1, <2>1 DEF Moves, BodyMoves, Accepts, Asks, Confirms
  <2>3. Tombs'
    BY <1>1, <2>1 DEF Stopped, AInv, Tombs
  <2> QED
    BY <2>2, <2>3, AcceptedStep DEF AInv
<1>3. CASE PowerLoss
  <2>1. PICK t \in [Message -> {None} \cup Message], b \in [Message -> {None} \cup Image] :
          /\ \A m \in Message : t[m] \in tombFile[m].may /\ b[m] \in bodyFile[m].may
          /\ tombFile' = [m \in Message |-> Settled(t[m])]
          /\ bodyFile' = [m \in Message |-> Settled(b[m])]
    BY <1>3 DEF PowerLoss
  <2>2. ASSUME NEW m \in Message, NEW v, bodyFile[m] = Settled(v)
        PROVE  bodyFile'[m] = bodyFile[m]
    <3>1. b[m] = v
      BY <2>1, <2>2, SettledHolds
    <3> QED
      BY <2>1, <2>2, <3>1
  <2>3. ASSUME NEW m \in Message, NEW v, tombFile[m] = Settled(v)
        PROVE  tombFile'[m] = tombFile[m]
    <3>1. t[m] = v
      BY <2>1, <2>3, SettledHolds
    <3> QED
      BY <2>1, <2>3, <3>1
  <2>4. BodyMoves
    <3>1. \A m \in Message : m \in deleteDone => bodyFile[m] = Settled(None)
      BY DEF AInv, Tombs
    <3> QED
      BY <2>2, <3>1 DEF BodyMoves, Archived
  <2>5. Moves
    BY <1>1, <2>4 DEF Moves, Accepts, Asks, Confirms
  <2>6. Tombs'
    <3> SUFFICES ASSUME NEW m \in Message
                 PROVE  /\ tombFile'[m].vis \in {None, m} /\ tombFile'[m].may \subseteq {None, m}
                        /\ m \notin deleteAsked => tombFile'[m] = Settled(None)
                        /\ m \in deleteDone => tombFile'[m] = Settled(m) /\ m \in deleteAsked
                        /\ m \in deleteDone => bodyFile'[m] = Settled(None)
      BY <1>1 DEF Stopped, Tombs
    <3>1. tombFile'[m].vis \in {None, m} /\ tombFile'[m].may \subseteq {None, m}
      BY <2>1 DEF AInv, Tombs, Settled
    <3> QED
      BY <2>2, <2>3, <3>1 DEF AInv, Tombs
  <2> QED
    BY <2>5, <2>6, AcceptedStep DEF AInv
<1> QED
  BY <1>2, <1>3 DEF Crashes

LEMMA ReconcileBodyA ==
    ASSUME TInv, AInv, NEW s \in Scope, NEW rec, NEW o, rec.stored \in Image \/ rec.disp \notin Visible,
           ReconcileBody(s, rec, o), ValidBody(s, rec)
    PROVE  BodyMoves
<1> DEFINE k == MessageOf[s]
<1>1. k \in Message
  BY MessageAssumption
<1>2. CASE rec.disp \in Visible
  <2>1. bodyFile' = [bodyFile EXCEPT ![k] = Written(@, @.vis, o)] /\ bodyFile[k].vis = rec.stored
    BY <1>2 DEF ReconcileBody, ValidBody, Reconciled
  <2>2. ASSUME NEW v, bodyFile[k] = Settled(v) PROVE bodyFile'[k] = bodyFile[k]
    BY <1>1, <2>1, <2>2, WrittenSettled DEF TInv, TypeOK, Settled
  <2>3. k \notin deleteDone
    <3>1. bodyFile[k].vis # None
      BY <1>2, <2>1, MessageAssumption
    <3> QED
      BY <1>1, <3>1, SettledHolds DEF AInv, Tombs
  <2>4. \A m \in Message : m = k \/ bodyFile'[m] = bodyFile[m]
    BY <2>1 DEF TInv, TypeOK
  <2> QED
    BY <2>2, <2>3, <2>4 DEF BodyMoves, Archived
<1>3. CASE rec.disp \notin Visible
  BY <1>3 DEF ReconcileBody, BodyMoves
<1> QED
  BY <1>2, <1>3

LEMMA RecoversA ==
    ASSUME TInv, BInv, AInv, Recovers
    PROVE  Moves /\ AInv'
<1> USE DEF Published
<1>0. UNCHANGED <<accepted, deleteAsked, deleteDone>>
  BY DEF Recovers, Open, RecoverTomb, TombsRecovered, RecoverCommit, CommitsRecovered,
         RecoverIntent, Recovered, asked
<1>1. CASE Open \/ CommitsRecovered \/ Recovered
  <2>1. /\ UNCHANGED <<bodyFile, tombFile, deleted>>
        /\ phase' \in {"down", "tombs"} \/ phase \notin {"down", "tombs"}
    BY <1>1 DEF Open, CommitsRecovered, Recovered, disk, memory
  <2> QED
    BY <1>0, <2>1, StillA
<1>2. CASE TombsRecovered
  <2>1. /\ UNCHANGED <<bodyFile, tombFile, deleted>>
        /\ \A m \in Message : tombFile[m].vis # None => m \in deleted
    BY <1>2 DEF TombsRecovered, disk, memory
  <2>2. Moves
    BY <1>0, <2>1 DEF Moves, BodyMoves, Accepts, Asks, Confirms
  <2>3. \A m \in Message : m # None
    BY MessageAssumption
  <2>4. \A m \in Message : m \in deleteDone => m \in deleted
    BY <2>1, <2>3, SettledHolds DEF AInv, Tombs
  <2>5. Tombs'
    BY <1>0, <2>1, <2>4 DEF AInv, Tombs
  <2> QED
    BY <2>2, <2>5, AcceptedStep DEF AInv
<1>3. ASSUME NEW m \in Message, RecoverTomb(m) PROVE Moves /\ AInv'
  <2>1. PICK o \in Outcome, at \in 1 .. 2 :
          /\ tombFile' = [tombFile EXCEPT ![m] = Reconciled(@, Nth(1, at, o))]
          /\ bodyFile' = [bodyFile EXCEPT ![m] = Written(@, None, Nth(2, at, o))]
          /\ IF o = "ok" THEN deleted' = deleted \cup {m} /\ phase' = phase
                         ELSE deleted' = {} /\ phase' = "down"
    BY <1>3 DEF RecoverTomb
  <2>2. tombFile[m].vis = m /\ m \in deleteAsked /\ phase = "tombs"
    BY <1>3, SettledHolds DEF RecoverTomb, AInv, Tombs
  <2>3. /\ bodyFile'[m] = Written(bodyFile[m], None, Nth(2, at, o))
        /\ \A k \in Message \ {m} : bodyFile'[k] = bodyFile[k]
        /\ tombFile'[m] = Written(tombFile[m], m, Nth(1, at, o))
        /\ \A k \in Message \ {m} : tombFile'[k] = tombFile[k]
    BY <2>1, <2>2 DEF TInv, TypeOK, Reconciled
  <2>4. Moves
    BY <1>0, <2>2, <2>3 DEF Moves, BodyMoves, Accepts, Asks, Confirms
  <2>5. /\ tombFile'[m].vis \in {None, m} /\ tombFile'[m].may \subseteq {None, m}
        /\ o = "ok" => tombFile'[m] = Settled(m)
        /\ tombFile[m] = Settled(m) => tombFile'[m] = Settled(m)
    <3>1. tombFile[m].vis \in {None, m} /\ tombFile[m].may \subseteq {None, m}
      BY DEF AInv, Tombs
    <3>2. o = "ok" => Nth(1, at, o) = "ok"
      BY DEF Nth
    <3> QED
      BY <2>3, <3>1, <3>2, WrittenSettled, WrittenOk DEF Written, Settled
  <2>6. \A k \in deleteDone : bodyFile'[k] = Settled(None)
    BY <1>0, <2>4, ConfirmedStep DEF TInv, TypeOK
  <2>7. Tombs'
    <3> SUFFICES ASSUME NEW k \in Message
                 PROVE  /\ tombFile'[k].vis \in {None, k} /\ tombFile'[k].may \subseteq {None, k}
                        /\ k \notin deleteAsked => tombFile'[k] = Settled(None)
                        /\ k \in deleted' \cup deleteDone => tombFile'[k] = Settled(k) /\ k \in deleteAsked
                        /\ k \in deleteDone => bodyFile'[k] = Settled(None)
      BY <1>0, <2>1, <2>2 DEF Tombs
    <3>1. CASE k = m
      BY <2>1, <2>2, <2>5, <2>6, <3>1 DEF AInv, Tombs
    <3>2. CASE k # m
      BY <2>1, <2>3, <2>6, <3>2 DEF AInv, Tombs
    <3> QED
      BY <3>1, <3>2
  <2> QED
    BY <2>4, <2>7, AcceptedStep DEF AInv
<1>4. ASSUME NEW s \in Scope, RecoverCommit(s) PROVE Moves /\ AInv'
  <2> DEFINE commit == commitFile[s].vis
  <2>1. UNCHANGED <<tombFile, deleted>> /\ phase = "commits" /\ s \in todo
    BY <1>4 DEF RecoverCommit
  <2>2. commit.rec.stored \in Image \/ commit.rec.disp \notin Visible
    BY <2>1 DEF TInv, LocalsOK, Commit, Record, Visible, Invisible
  <2>3. BodyMoves
    <3>1. CASE ValidBody(s, commit.rec)
      <4>1. PICK o \in Outcome, at \in 1 .. 2 : ReconcileBody(s, commit.rec, Nth(1, at, o))
        BY <1>4, <3>1 DEF RecoverCommit
      <4> QED
        BY <2>2, <3>1, <4>1, ReconcileBodyA
    <3>2. CASE ~ValidBody(s, commit.rec)
      BY <1>4, <3>2 DEF RecoverCommit, BodyMoves
    <3> QED
      BY <3>1, <3>2
  <2> QED
    BY <1>0, <2>1, <2>3, QuietA DEF Moves, Accepts, Asks, Confirms
<1>5. ASSUME NEW s \in Scope, RecoverIntent(s) PROVE Moves /\ AInv'
  <2> DEFINE intent == intentFile[s].vis
             known == committed[s] # None /\ committed[s].rec = intent.rec
  <2>1. UNCHANGED <<tombFile, deleted>> /\ phase = "intents" /\ s \in todo
    BY <1>5 DEF RecoverIntent
  <2>2. intent.rec.stored \in Image \/ intent.rec.disp \notin Visible
    BY <2>1 DEF TInv, LocalsOK, Intent, Record, Visible, Invisible
  <2>3. BodyMoves
    <3>1. CASE ~known /\ ValidBody(s, intent.rec)
      <4>1. PICK o \in Outcome, at \in 1 .. 3 : ReconcileBody(s, intent.rec, Nth(1, at, o))
        BY <1>5, <3>1 DEF RecoverIntent
      <4> QED
        BY <2>2, <3>1, <4>1, ReconcileBodyA
    <3>2. CASE ~(~known /\ ValidBody(s, intent.rec))
      BY <1>5, <3>2 DEF RecoverIntent, BodyMoves
    <3> QED
      BY <3>1, <3>2
  <2> QED
    BY <1>0, <2>1, <2>3, QuietA DEF Moves, Accepts, Asks, Confirms
<1> QED
  BY <1>1, <1>2, <1>3, <1>4, <1>5 DEF Recovers

LEMMA AInitial == Init => AInv
  BY DEF Init, AInv, Tombs, AcceptedKept, Settled

LEMMA ANextStep ==
    ASSUME TInv, BInv, AInv, [Next]_vars
    PROVE  Moves /\ AInv'
  BY CommitsA, DeletesA, RestA, CrashesA, RecoversA DEF Next

(* The refinement mapping: a step that moves a body in one of these ways is *)
(* a change the abstract archive allows.                                    *)
LEMMA DurableSettled ==
    ASSUME TInv, NEW m \in Message
    PROVE  /\ DurableBody(m) \in Image \cup {None}
           /\ Archived(m) <=> DurableBody(m) \in Image
           /\ Archived(m) <=> DurableBody(m) # None
           /\ \A v : bodyFile[m] = Settled(v) => DurableBody(m) = v
<1>1. bodyFile[m] \in File(Image)
  BY DEF TInv, TypeOK
<1>2. bodyFile[m] = [vis |-> bodyFile[m].vis, may |-> bodyFile[m].may]
  BY <1>1 DEF File
<1>3. DurableBody(m) \in Image => bodyFile[m] = Settled(DurableBody(m))
  BY <1>2, MessageAssumption DEF DurableBody, Settled
<1>4. \A v : bodyFile[m] = Settled(v) => DurableBody(m) = v
  BY DEF DurableBody, Settled
<1>5. DurableBody(m) \in Image \cup {None}
  BY <1>1 DEF DurableBody, File
<1> QED
  BY <1>3, <1>4, <1>5, MessageAssumption DEF Archived

DurableAll ==
    \A m \in Message : /\ DurableBody(m) \in Image \cup {None}
                       /\ Archived(m) => DurableBody(m) # None

LEMMA DurableNow == TInv => DurableAll
  BY DurableSettled DEF DurableAll

LEMMA DurableNext == TInv' => DurableAll'
  BY DurableNow, PTL

LEMMA ArchiveStep ==
    ASSUME TInv, TInv', AInv, AInv', Moves
    PROVE  A!ANext
<1> DEFINE archive == [m \in Message |-> DurableBody(m)]
<1>1. \A m \in Message : archive'[m] = DurableBody(m)' /\ archive[m] = DurableBody(m)
  OBVIOUS
<1>2. \A m \in Message : DurableBody(m)' \in Image \cup {None}
  BY DurableNext DEF DurableAll
<1>3. ASSUME NEW m \in Message, DurableBody(m)' # DurableBody(m)
      PROVE  \/ DurableBody(m) = None /\ DurableBody(m)' \in Image /\ m \notin deleteDone
             \/ DurableBody(m)' = None /\ m \notin A!Needed
  <2>1. CASE bodyFile'[m] = bodyFile[m]
    BY <1>3, <2>1 DEF DurableBody
  <2>2. CASE ~Archived(m) /\ m \notin deleteDone
    BY <1>2, <1>3, <2>2, DurableSettled
  <2>3. CASE m \in deleteAsked /\ \E o : bodyFile'[m] = Written(bodyFile[m], None, o)
    <3>1. m \notin A!Needed
      BY <2>3 DEF A!Needed
    <3>2. DurableBody(m)' = None
      BY <1>3, <2>3 DEF DurableBody, Written, Settled
    <3> QED
      BY <3>1, <3>2
  <2> QED
    BY <2>1, <2>2, <2>3 DEF Moves, BodyMoves
<1>4. A!Change
  BY <1>1, <1>2, <1>3 DEF A!Change
<1>5. accepted' = accepted \/ \E s \in Scope : A!Accept(s)
  <2>1. \A s \in Scope : Archived(MessageOf[s])' => archive'[MessageOf[s]] # None
    BY <1>1, DurableNext, MessageAssumption DEF DurableAll
  <2> QED
    BY <2>1 DEF Moves, Accepts, A!Accept
<1>6. deleteAsked' = deleteAsked \/ \E m \in Message : A!AskDelete(m)
  BY DEF Moves, Asks, A!AskDelete
<1>7. deleteDone' = deleteDone \/ \E m \in Message : A!ConfirmDelete(m)
  <2>1. \A m \in Message : m \in deleted => m \in deleteAsked
    BY DEF AInv, Tombs
  <2>2. \A m \in Message : bodyFile'[m] = Settled(None) => archive'[m] = None
    BY <1>1 DEF DurableBody, Settled
  <2> QED
    BY <2>1, <2>2 DEF Moves, Confirms, A!ConfirmDelete
<1> QED
  BY <1>4, <1>5, <1>6, <1>7 DEF A!ANext

LEMMA ArchiveInit == Init => A!AInit
  BY DEF Init, A!AInit, DurableBody, Settled

(* The store implements the abstract archive: what was accepted stays until *)
(* its deletion is asked for, nothing is replaced, and nothing comes back   *)
(* after a confirmed deletion, whatever fails or crashes in between.        *)
THEOREM StoreImplementsArchive == Spec => ImplementsArchive
<1>1. Init => TInv /\ BInv /\ AInv
  BY TInit, BInit, AInitial
<1>2. TInv /\ BInv /\ AInv /\ [Next]_vars => (TInv /\ BInv /\ AInv)'
  BY TNext, BNext, ANextStep
<1>3. TInv /\ TInv' /\ BInv /\ AInv /\ AInv' /\ [Next]_vars => [A!ANext]_(A!archiveVars)
  BY ANextStep, ArchiveStep
<1> QED
  BY <1>1, <1>2, <1>3, ArchiveInit, PTL DEF Spec, ImplementsArchive, A!ArchiveSpec
-----------------------------------------------------------------------------
(* No event is lost to a crash.                                             *)

(* The hook outbox.  What follows holds of crashes and committed messages   *)
(* only: a write that fails without the process dying can lose an event,    *)
(* and a policy discard of what was received replaces receipt and event.    *)
CrashesOnly == Faults \subseteq {"torn"} /\ Dispositions \subseteq {"Committed"}

Contents(file) == file.may \cup {file.vis}

(* No deletion of the message is settled.                                   *)
Standing(m) == tombFile[m] # Settled(m)

(* The event goes with the receipt that made the archive.                   *)
MarkedRec(r) == r.rec.disp = "Committed" => r.hook = RunHook
Marked ==
    /\ \A s \in Scope :
         /\ \A i \in Contents(intentFile[s]) \ {None} : MarkedRec(i)
         /\ \A c \in Contents(commitFile[s]) \ {None} : MarkedRec(c)
         /\ committed[s] # None => MarkedRec(committed[s])
    /\ phase \in {"intent", "body", "commit"} => MarkedRec(job)

HasEvent(s) == committed[s] # None /\ committed[s].rec.disp = "Committed"
CommitHolds(s, w) ==
    \A c \in Contents(commitFile[s]) :
        c # None /\ c.rec.disp = "Committed" /\ c.rec.stored = w
IntentHolds(s, w) ==
    /\ intentFile[s].may = {intentFile[s].vis} /\ intentFile[s].vis # None
    /\ intentFile[s].vis.rec.disp = "Committed" /\ intentFile[s].vis.rec.stored = w

(* Whatever a crash leaves of the archive comes with an event on disk.      *)
OnDisk(m) ==
    /\ tombFile[m].vis = None => tombFile[m] = Settled(None)
    /\ Standing(m) =>
         /\ bodyFile[m].may \subseteq {None, bodyFile[m].vis}
         /\ bodyFile[m].vis # None =>
              \E s \in Scope : /\ MessageOf[s] = m
                               /\ \/ IntentHolds(s, bodyFile[m].vis)
                                  \/ CommitHolds(s, bodyFile[m].vis)

(* The files of a scope while its message is not deleted.                   *)
FilesAgree(s) ==
    Standing(MessageOf[s]) =>
        /\ \A i \in Contents(intentFile[s]) \ {None} : i.rec.disp \in Visible
        /\ commitFile[s].vis = None => commitFile[s] = Settled(None)
        /\ \A c \in Contents(commitFile[s]) \ {None} :
             /\ c.rec.disp \in Visible /\ bodyFile[MessageOf[s]] = Settled(c.rec.stored)
             /\ intentFile[s].may = {intentFile[s].vis} /\ intentFile[s].vis # None
             /\ intentFile[s].vis.rec = c.rec

Running == phase \notin {"down", "tombs", "torn"}

(* What the process knows of a scope.                                       *)
Known(s) ==
    /\ phase # "torn" /\ committed[s] # None => commitFile[s] = Settled(committed[s])
    /\ Running /\ MessageOf[s] \notin deleted /\ committed[s] = None =>
         \/ commitFile[s] = Settled(None)
         \/ phase = "commits" /\ s \in todo

Event(m) ==
    Running /\ m \notin deleted =>
        /\ tombFile[m] = Settled(None)
        /\ bodyFile[m].vis # None =>
             \E s \in Scope :
                /\ MessageOf[s] = m
                /\ \/ HasEvent(s)
                   \/ phase = "commits" /\ CommitHolds(s, bodyFile[m].vis) /\ s \in todo
                   \/ phase = "commits" /\ IntentHolds(s, bodyFile[m].vis)
                   \/ phase = "intents" /\ IntentHolds(s, bodyFile[m].vis) /\ s \in todo
                   \/ phase = "commit" /\ job.scope = s /\ job.rec.disp = "Committed"

JobFresh ==
    LET s == job.scope
        m == MessageOf[s]
    IN  phase \in {"intent", "body", "commit"} /\ m \notin deleted =>
          /\ job.rec.disp \in Visible /\ committed[s] = None
          /\ phase # "commit" /\ job.rec.disp = "Duplicate" => bodyFile[m].vis # None
          /\ phase # "intent" => intentFile[s] = Settled([rec |-> job.rec, hook |-> job.hook])

HookInv ==
    /\ Marked /\ JobFresh
    /\ \A m \in Message : OnDisk(m) /\ Event(m)
    /\ \A s \in Scope : FilesAgree(s) /\ Known(s)

(* The task's message has its archive unless its deletion was asked for.    *)
TaskInv ==
    hookTask # None /\ MessageOf[hookTask.scope] \notin deleteAsked
        => bodyFile[MessageOf[hookTask.scope]].vis # None

HookBase == TInv /\ BInv /\ SInv /\ AInv /\ HookInv /\ CrashesOnly

-----------------------------------------------------------------------------
LEMMA CrashOutcome ==
    ASSUME CrashesOnly, NEW o \in Outcome PROVE o \in {"ok", "torn"}
  BY DEF CrashesOnly, Outcome

(* The contents of files are records of their kind.                         *)
LEMMA HookFacts ==
    ASSUME HookBase, NEW s \in Scope
    PROVE  /\ MessageOf[s] \in Message /\ committed[s] \in Commit \cup {None}
           /\ \A c \in Contents(commitFile[s]) : c \in Commit \cup {None}
           /\ \A i \in Contents(intentFile[s]) : i \in Intent \cup {None}
           /\ None \notin Intent \cup Commit
  BY MessageAssumption, NoneAssumption DEF HookBase, TInv, TypeOK, File, Contents

LEMMA DeletedGone ==
    ASSUME HookBase, NEW m \in Message
    PROVE  /\ m \in deleted => tombFile[m] = Settled(m)
           /\ m # None /\ Settled(m) # Settled(None)
           /\ tombFile[m].vis \in {None, m} /\ tombFile[m].may \subseteq {None, m}
           /\ m \in deleted => m \in deleteAsked
  BY MessageAssumption DEF HookBase, AInv, Tombs, Settled

(* A message whose files are as they were, or whose deletion is settled.    *)
Untouched(m) ==
    \/ tombFile'[m] = Settled(m)
    \/ /\ tombFile'[m] = tombFile[m] /\ bodyFile'[m] = bodyFile[m]
       /\ \A s \in Scope : MessageOf[s] = m =>
            intentFile'[s] = intentFile[s] /\ commitFile'[s] = commitFile[s]

LEMMA UntouchedKeeps ==
    ASSUME HookBase, NEW m \in Message, Untouched(m)
    PROVE  OnDisk(m)' /\ \A s \in Scope : MessageOf[s] = m => FilesAgree(s)'
  <1>1. CASE tombFile'[m] = Settled(m)
    BY <1>1, DeletedGone DEF OnDisk, FilesAgree, Standing, Settled
  <1>2. CASE /\ tombFile'[m] = tombFile[m] /\ bodyFile'[m] = bodyFile[m]
             /\ \A s \in Scope : MessageOf[s] = m =>
                  intentFile'[s] = intentFile[s] /\ commitFile'[s] = commitFile[s]
    <2>1. OnDisk(m)'
      <3>1. CASE bodyFile[m].vis = None \/ ~Standing(m)
        BY <1>2, <3>1 DEF HookBase, HookInv, OnDisk, Standing
      <3>2. CASE bodyFile[m].vis # None /\ Standing(m)
        <4>1. PICK s \in Scope : /\ MessageOf[s] = m
                                 /\ \/ IntentHolds(s, bodyFile[m].vis)
                                    \/ CommitHolds(s, bodyFile[m].vis)
          BY <3>2 DEF HookBase, HookInv, OnDisk
        <4>2. \/ IntentHolds(s, bodyFile[m].vis)'
              \/ CommitHolds(s, bodyFile[m].vis)'
          BY <1>2, <4>1 DEF IntentHolds, CommitHolds, Contents
        <4> QED BY <1>2, <4>1, <4>2 DEF HookBase, HookInv, OnDisk, Standing
      <3> QED BY <3>1, <3>2
    <2>2. ASSUME NEW s \in Scope, MessageOf[s] = m PROVE FilesAgree(s)'
      BY <1>2, <2>2 DEF HookBase, HookInv, FilesAgree, Standing, Contents
    <2> QED BY <2>1, <2>2
  <1> QED BY <1>1, <1>2 DEF Untouched

LEMMA AllUntouched ==
    ASSUME HookBase, \A m \in Message : Untouched(m)
    PROVE  (\A m \in Message : OnDisk(m)') /\ \A s \in Scope : FilesAgree(s)'
  BY UntouchedKeeps, HookFacts

(* While the mutex is free, or an operation under way, a receipt with an    *)
(* event is on disk, for the archive that is there.                         *)
LEMMA EventOnDisk ==
    ASSUME HookBase, phase # "torn", NEW s \in Scope, HasEvent(s), MessageOf[s] \notin deleted,
           Running
    PROVE  CommitHolds(s, bodyFile[MessageOf[s]].vis)
  <1>1. commitFile[s] = Settled(committed[s]) /\ committed[s] # None
    BY DEF HookBase, HookInv, Known, HasEvent
  <1>2. Standing(MessageOf[s])
    BY HookFacts, DeletedGone DEF HookBase, HookInv, Event, Standing
  <1>3. bodyFile[MessageOf[s]] = Settled(committed[s].rec.stored)
    BY <1>1, <1>2 DEF HookBase, HookInv, FilesAgree, Contents, Settled
  <1> QED BY <1>1, <1>3 DEF CommitHolds, Contents, Settled, HasEvent

(* A receipt that is not visible is of a message whose deletion is settled. *)
LEMMA InvisibleDeleted ==
    ASSUME HookBase, phase # "torn", NEW s \in Scope, committed[s] # None,
           committed[s].rec.disp \notin Visible
    PROVE  tombFile[MessageOf[s]] = Settled(MessageOf[s])
  <1>1. commitFile[s] = Settled(committed[s])
    BY DEF HookBase, HookInv, Known
  <1>2. committed[s] \in Contents(commitFile[s])
    BY <1>1 DEF Contents, Settled
  <1> QED BY <1>2 DEF HookBase, HookInv, FilesAgree, Standing

(* The parts of the invariant when files and memory are as they were.       *)
LEMMA QuietH ==
    ASSUME HookBase, UNCHANGED <<tombFile, intentFile, commitFile, bodyFile, committed, deleted>>
    PROVE  /\ \A m \in Message : OnDisk(m)'
           /\ \A s \in Scope : FilesAgree(s)'
           /\ phase' \notin {"intent", "body", "commit"} \/ MarkedRec(job') => Marked'
  <1>1. \A m \in Message : Untouched(m)
    BY DEF Untouched
  <1>2. phase' \notin {"intent", "body", "commit"} \/ MarkedRec(job') => Marked'
    BY DEF HookBase, HookInv, Marked, MarkedRec, Contents
  <1> QED BY <1>1, <1>2, AllUntouched

LEMMA HookInit == Init => HookInv
  BY DEF Init, HookInv, Marked, OnDisk, Event, FilesAgree, Known, JobFresh, Contents, Settled

LEMMA GoH ==
    ASSUME CrashesOnly, NEW o \in Outcome, NEW next, NEW j, NEW t, NEW v, Go(o, next, j, t, v)
    PROVE  \/ /\ o = "ok" /\ phase' = next
              /\ next # "idle" => job' = j /\ todo' = t /\ victim' = v
           \/ o = "torn" /\ phase' = "torn"
  BY CrashOutcome DEF Go

(* A process that died, or that has only started to recover, knows nothing. *)
LEMMA TornH ==
    ASSUME phase' = "torn" \/ (phase' \in {"down", "tombs"} /\ \A s \in Scope : committed'[s] = None),
           Marked', \A m \in Message : OnDisk(m)', \A s \in Scope : FilesAgree(s)'
    PROVE  HookInv'
  <1>1. JobFresh' /\ ~Running'
    BY DEF JobFresh, Running
  <1>2. ASSUME NEW m \in Message PROVE Event(m)'
    BY <1>1 DEF Event
  <1>3. ASSUME NEW s \in Scope PROVE Known(s)'
    BY <1>1 DEF Known
  <1> QED BY <1>1, <1>2, <1>3 DEF HookInv

(* Between the operations, and in those that have not written an archive:   *)
(* what is not deleted keeps its receipts and events.                       *)
LEMMA RemainsH ==
    ASSUME HookBase, Running, Running', phase \notin {"commits", "intents", "commit"},
           deleted \subseteq deleted',
           \A m \in Message \ deleted' : /\ tombFile'[m] = tombFile[m]
                                        /\ bodyFile'[m].vis = bodyFile[m].vis,
           \A s \in Scope :
              \/ committed'[s] = committed[s] /\ commitFile'[s] = commitFile[s]
              \/ /\ MessageOf[s] \in deleted'
                 /\ committed'[s] # None => commitFile'[s] = Settled(committed'[s])
    PROVE  (\A m \in Message : Event(m)') /\ \A s \in Scope : Known(s)'
  <1>1. ASSUME NEW m \in Message PROVE Event(m)'
    <2> SUFFICES ASSUME m \notin deleted' PROVE Event(m)'
      BY DEF Event
    <2>1. m \notin deleted /\ tombFile'[m] = tombFile[m] /\ bodyFile'[m].vis = bodyFile[m].vis
      OBVIOUS
    <2>2. CASE bodyFile[m].vis = None
      BY <2>1, <2>2 DEF HookBase, HookInv, Event
    <2>3. CASE bodyFile[m].vis # None
      <3>1. PICK s \in Scope : MessageOf[s] = m /\ HasEvent(s)
        BY <2>1, <2>3 DEF HookBase, HookInv, Event
      <3>2. HasEvent(s)'
        BY <3>1 DEF HasEvent
      <3> QED BY <2>1, <3>1, <3>2 DEF HookBase, HookInv, Event
    <2> QED BY <2>2, <2>3
  <1>2. ASSUME NEW s \in Scope PROVE Known(s)'
    <2>1. CASE committed'[s] = committed[s] /\ commitFile'[s] = commitFile[s]
      BY <2>1 DEF HookBase, HookInv, Known, Running
    <2>2. CASE /\ MessageOf[s] \in deleted'
               /\ committed'[s] # None => commitFile'[s] = Settled(committed'[s])
      BY <2>2 DEF Known
    <2> QED BY <2>1, <2>2
  <1> QED BY <1>1, <1>2

LEMMA RunningDeleted ==
    ASSUME HookBase, Running, NEW m \in Message
    PROVE  m \in deleted <=> tombFile[m] = Settled(m)
  BY DeletedGone DEF HookBase, HookInv, Event

-----------------------------------------------------------------------------
LEMMA CommitAgainH ==
    ASSUME HookBase, NEW s \in Scope, NEW w \in Image, CommitAgain(s, w) PROVE HookInv'
  <1> DEFINE m == MessageOf[s]
  <1>1. PICK o \in Outcome :
          bodyFile' = [bodyFile EXCEPT ![m] = Reconciled(@, o)] /\ Go(o, "idle", None, {}, None)
    BY DEF CommitAgain
  <1>2. UNCHANGED <<tombFile, intentFile, commitFile, committed, deleted>> /\ phase = "idle"
    BY DEF CommitAgain, memory, Idle
  <1>3. bodyFile' = bodyFile
    <2>1. bodyFile[m] = Settled(committed[s].rec.stored)
      BY DEF CommitAgain, HookBase, BInv, ReceiptBacked
    <2>2. Reconciled(bodyFile[m], o) = bodyFile[m]
      BY <2>1, WrittenSettled, SettledHolds DEF Reconciled
    <2> QED BY <1>1, <2>2 DEF HookBase, TInv, TypeOK
  <1>4. phase' \in {"idle", "torn"}
    BY <1>1, GoH DEF HookBase
  <1>5. Marked' /\ (\A n \in Message : OnDisk(n)') /\ \A t \in Scope : FilesAgree(t)'
    BY <1>2, <1>3, <1>4, QuietH
  <1>6. CASE phase' = "torn"
    BY <1>5, <1>6, TornH
  <1>7. CASE phase' = "idle"
    <2>1. Running /\ Running'
      BY <1>2, <1>7 DEF Running
    <2>2. (\A n \in Message : Event(n)') /\ \A t \in Scope : Known(t)'
      BY <1>2, <1>3, <2>1, RemainsH
    <2>3. JobFresh'
      BY <1>7 DEF JobFresh
    <2> QED BY <1>5, <2>2, <2>3 DEF HookInv
  <1> QED BY <1>4, <1>6, <1>7

LEMMA StartCommitH ==
    ASSUME HookBase, NEW s \in Scope, NEW w \in Image, NEW d \in Dispositions, StartCommit(s, w, d)
    PROVE  HookInv'
  <1> DEFINE m == MessageOf[s]
  <1>3. d = "Committed"
    BY DEF HookBase, CrashesOnly
  <1>1. /\ UNCHANGED <<tombFile, intentFile, commitFile, bodyFile, committed, deleted>>
        /\ phase = "idle" /\ phase' = "intent"
    BY DEF StartCommit, disk, memory, Idle
  <1>2. /\ job'.scope = s /\ (job'.rec.disp = "Committed" => job'.hook = RunHook)
        /\ m \notin deleted => /\ job'.rec.disp \in Visible
                               /\ job'.rec.disp = "Duplicate" => bodyFile[m].vis # None
    <2> DEFINE disp == Disposition(m, d)
               new == NewlyVisible(m, disp)
               rec == [disp |-> IF disp \in Visible /\ ~new THEN "Duplicate" ELSE disp, wire |-> w,
                       stored |-> StoredImage(m, w, disp), at |-> now]
    <2>1. job' = [scope |-> s, rec |-> rec, hook |-> RunHook /\ new]
      BY DEF StartCommit
    <2>2. disp = IF m \in deleted THEN "UserDeleted" ELSE "Committed"
      BY <1>3 DEF Disposition
    <2>3. new <=> disp \in Visible /\ bodyFile[m].vis = None
      BY DEF NewlyVisible
    <2>4. /\ job'.scope = s /\ job'.hook = (RunHook /\ new)
          /\ job'.rec.disp = IF disp \in Visible /\ ~new THEN "Duplicate" ELSE disp
      BY <2>1
    <2> HIDE DEF disp, new, rec
    <2> QED BY <2>2, <2>3, <2>4, BoundAssumption DEF Visible
  <1>4. m \notin deleted => committed[s] = None
    <2> SUFFICES ASSUME m \notin deleted, committed[s] # None PROVE FALSE
      OBVIOUS
    <2>1. committed[s].rec.disp \notin Visible
      BY <1>3 DEF StartCommit
    <2>2. tombFile[m] = Settled(m)
      BY <1>1, <2>1, InvisibleDeleted
    <2> QED BY <1>1, <2>2, RunningDeleted, HookFacts DEF Running
  <1>5. Marked' /\ (\A n \in Message : OnDisk(n)') /\ \A t \in Scope : FilesAgree(t)'
    BY <1>1, <1>2, QuietH DEF MarkedRec
  <1>6. Running /\ Running'
    BY <1>1 DEF Running
  <1>7. (\A n \in Message : Event(n)') /\ \A t \in Scope : Known(t)'
    BY <1>1, <1>6, RemainsH
  <1>8. JobFresh'
    BY <1>1, <1>2, <1>4 DEF JobFresh
  <1> QED BY <1>5, <1>7, <1>8 DEF HookInv

LEMMA WriteIntentH == ASSUME HookBase, WriteIntent PROVE HookInv'
  <1>. PICK s \in Scope, m \in Message, new \in Intent :
          s = job.scope /\ m = MessageOf[s] /\ new = [rec |-> job.rec, hook |-> job.hook]
    BY MessageAssumption DEF WriteIntent, HookBase, TInv, LocalsOK, Job, Intent
  <1>1. PICK o \in Outcome : /\ intentFile' = [intentFile EXCEPT ![s] = Written(@, new, o)]
                             /\ Go(o, AfterIntent(job.rec), job, {}, None)
    BY DEF WriteIntent
  <1>2. /\ UNCHANGED <<tombFile, commitFile, bodyFile, committed, deleted>> /\ phase = "intent"
        /\ job \in Job
    BY DEF WriteIntent, memory, HookBase, TInv, LocalsOK
  <1>3. /\ intentFile'[s] = Written(intentFile[s], new, o)
        /\ \A t \in Scope \ {s} : intentFile'[t] = intentFile[t]
    BY <1>1, <1>2 DEF HookBase, TInv, TypeOK
  <1>4. \/ o = "ok" /\ phase' = AfterIntent(job.rec) /\ job' = job
        \/ o = "torn" /\ phase' = "torn"
    BY <1>1, GoH DEF HookBase, AfterIntent
  <1>5. Running /\ (m \in deleted <=> tombFile[m] = Settled(m))
    BY <1>2, RunningDeleted DEF Running
  <1>6. m \notin deleted =>
          job.rec.disp \in Visible /\ committed[s] = None /\ commitFile[s] = Settled(None)
    BY <1>2, <1>5 DEF HookBase, HookInv, JobFresh, Known
  <1>7. \A i \in Contents(intentFile'[s]) : i \in Contents(intentFile[s]) \/ i = new
    BY <1>3 DEF Written, Contents, Settled
  <1>8. Marked'
    <2>1. MarkedRec(job) /\ MarkedRec(new)
      BY <1>2 DEF HookBase, HookInv, Marked, MarkedRec
    <2> QED BY <1>2, <1>3, <1>4, <1>7, <2>1 DEF HookBase, HookInv, Marked
  <1>9. ASSUME NEW n \in Message PROVE OnDisk(n)' /\ \A t \in Scope : MessageOf[t] = n => FilesAgree(t)'
    <2>1. CASE n # m \/ m \in deleted
      <3>1. Untouched(n)
        BY <1>2, <1>3, <1>5, <2>1 DEF Untouched
      <3> QED BY <3>1, UntouchedKeeps
    <2>2. CASE n = m /\ m \notin deleted
      <3>1. OnDisk(m)'
        <4>1. CASE bodyFile[m].vis = None
          BY <1>2, <4>1 DEF HookBase, HookInv, OnDisk, Standing
        <4>2. CASE bodyFile[m].vis # None
          <5>1. PICK t \in Scope : MessageOf[t] = m /\ HasEvent(t)
            BY <1>2, <1>5, <2>2, <4>2 DEF HookBase, HookInv, Event
          <5>2. CommitHolds(t, bodyFile[m].vis)
            BY <1>2, <1>5, <2>2, <5>1, EventOnDisk
          <5>3. CommitHolds(t, bodyFile[m].vis)'
            BY <1>2, <5>2 DEF CommitHolds
          <5> QED BY <1>2, <5>1, <5>3 DEF HookBase, HookInv, OnDisk, Standing
        <4> QED BY <4>1, <4>2
      <3>2. ASSUME NEW t \in Scope, MessageOf[t] = m, t # s PROVE FilesAgree(t)'
        BY <1>2, <1>3, <3>2 DEF HookBase, HookInv, FilesAgree, Standing
      <3>3. FilesAgree(s)'
        <4>1. \A i \in Contents(intentFile'[s]) \ {None} : i.rec.disp \in Visible
          BY <1>2, <1>5, <1>6, <1>7, <2>2 DEF HookBase, HookInv, FilesAgree, Standing
        <4>2. Contents(commitFile'[s]) = {None}
          BY <1>2, <1>6, <2>2 DEF Contents, Settled
        <4> QED BY <1>2, <1>6, <2>2, <4>1, <4>2 DEF FilesAgree
      <3> QED BY <2>2, <3>1, <3>2, <3>3
    <2> QED BY <2>1, <2>2
  <1>10. CASE phase' = "torn"
    <2>1. \A t \in Scope : FilesAgree(t)'
      BY <1>9, HookFacts
    <2> QED BY <1>8, <1>9, <1>10, <2>1, TornH
  <1>11. CASE o = "ok" /\ phase' = AfterIntent(job.rec) /\ job' = job
    <2>1. Running' /\ phase' \in {"body", "commit"}
      BY <1>11 DEF Running, AfterIntent
    <2>2. (\A n \in Message : Event(n)') /\ \A t \in Scope : Known(t)'
      BY <1>2, <1>5, <2>1, RemainsH
    <2>3. intentFile'[s] = Settled(new)
      BY <1>3, <1>11 DEF Written
    <2>4. JobFresh'
      BY <1>2, <1>11, <1>6, <2>1, <2>3 DEF JobFresh, HookBase, HookInv, AfterIntent
    <2> QED BY <1>8, <1>9, <2>2, <2>4, HookFacts DEF HookInv
  <1> QED BY <1>4, <1>10, <1>11

LEMMA WriteBodyH == ASSUME HookBase, WriteBody PROVE HookInv'
  <1>. PICK s \in Scope, m \in Message, w \in Image :
          s = job.scope /\ m = MessageOf[s] /\ w = job.rec.stored
    BY MessageAssumption DEF WriteBody, HookBase, TInv, LocalsOK, Job, Record, Visible, Invisible
  <1>1. PICK o \in Outcome : /\ bodyFile' = [bodyFile EXCEPT ![m] = Written(@, w, o)]
                             /\ Go(o, "commit", job, {}, None)
    BY DEF WriteBody
  <1>2. /\ UNCHANGED <<tombFile, intentFile, commitFile, committed, deleted>> /\ phase = "body"
        /\ job \in Job /\ job.rec.disp \in Visible
    BY DEF WriteBody, memory, HookBase, TInv, LocalsOK
  <1>3. /\ bodyFile'[m] = Written(bodyFile[m], w, o)
        /\ \A n \in Message \ {m} : bodyFile'[n] = bodyFile[n]
    BY <1>1 DEF HookBase, TInv, TypeOK
  <1>4. \/ o = "ok" /\ phase' = "commit" /\ job' = job
        \/ o = "torn" /\ phase' = "torn"
    BY <1>1, GoH DEF HookBase
  <1>5. Running /\ m \notin deleted /\ bodyFile[m].vis \in {None, w} /\ w # None
    BY <1>2, MessageAssumption DEF Running, HookBase, BInv, JobBacked
  <1>6. /\ committed[s] = None /\ intentFile[s] = Settled([rec |-> job.rec, hook |-> job.hook])
        /\ job.rec.disp = "Duplicate" => bodyFile[m].vis # None
    BY <1>2, <1>5 DEF HookBase, HookInv, JobFresh
  <1>7. Standing(m) /\ bodyFile[m].may \subseteq {None, w}
    BY <1>5, RunningDeleted DEF HookBase, HookInv, OnDisk, Standing
  <1>8. Marked'
    BY <1>2, <1>4 DEF HookBase, HookInv, Marked, MarkedRec
  <1>9. bodyFile'[m].vis = w /\ bodyFile'[m].may \subseteq {None, w}
    BY <1>3, <1>4, <1>7 DEF Written, Settled
  <1>10. \/ job.rec.disp = "Committed" /\ IntentHolds(s, w)
         \/ \E t \in Scope : MessageOf[t] = m /\ HasEvent(t) /\ CommitHolds(t, w)
    <2>1. CASE job.rec.disp = "Committed"
      <3>1. /\ intentFile[s].vis = [rec |-> job.rec, hook |-> job.hook]
            /\ intentFile[s].may = {intentFile[s].vis}
        BY <1>6 DEF Settled
      <3>2. intentFile[s].vis # None
        BY <1>2, <3>1, NoneAssumption DEF Job, Intent
      <3> QED BY <2>1, <3>1, <3>2 DEF IntentHolds
    <2>2. CASE job.rec.disp = "Duplicate"
      <3>1. PICK t \in Scope : MessageOf[t] = m /\ HasEvent(t)
        BY <1>2, <1>5, <1>6, <2>2 DEF HookBase, HookInv, Event
      <3>2. CommitHolds(t, w)
        BY <1>2, <1>5, <1>6, <2>2, <3>1, EventOnDisk
      <3> QED BY <3>1, <3>2
    <2> QED BY <1>2, <2>1, <2>2 DEF Visible
  <1>11. ASSUME NEW n \in Message PROVE OnDisk(n)' /\ \A t \in Scope : MessageOf[t] = n => FilesAgree(t)'
    <2>1. CASE n # m
      <3>1. Untouched(n)
        BY <1>2, <1>3, <2>1 DEF Untouched
      <3> QED BY <3>1, UntouchedKeeps
    <2>2. CASE n = m
      <3>1. PICK t \in Scope : MessageOf[t] = m /\ (IntentHolds(t, w) \/ CommitHolds(t, w))
        BY <1>10
      <3>2. IntentHolds(t, w)' \/ CommitHolds(t, w)'
        BY <1>2, <3>1 DEF IntentHolds, CommitHolds
      <3>3. OnDisk(m)'
        BY <1>2, <1>9, <3>1, <3>2 DEF HookBase, HookInv, OnDisk, Standing
      <3>4. ASSUME NEW u \in Scope, MessageOf[u] = m PROVE FilesAgree(u)'
        <4>1. ASSUME NEW c \in Contents(commitFile[u]) \ {None} PROVE bodyFile'[m] = bodyFile[m]
          <5>1. bodyFile[m] = Settled(c.rec.stored) /\ c.rec.disp \in Visible /\ c \in Commit
            BY <1>7, <3>4, HookFacts DEF HookBase, HookInv, FilesAgree
          <5>2. c.rec.stored # None
            BY <5>1 DEF Commit, Record, Visible, Invisible
          <5>3. c.rec.stored = w
            BY <1>5, <5>1, <5>2, SettledHolds
          <5> QED BY <1>3, <5>1, <5>3, WrittenSettled
        <4> QED BY <1>2, <3>4, <4>1 DEF HookBase, HookInv, FilesAgree, Standing, Contents
      <3> QED BY <2>2, <3>3, <3>4
    <2> QED BY <2>1, <2>2
  <1>12. \A t \in Scope : FilesAgree(t)'
    BY <1>11, HookFacts
  <1>13. CASE phase' = "torn"
    BY <1>8, <1>11, <1>12, <1>13, TornH
  <1>14. CASE phase' = "commit" /\ job' = job
    <2>1. ASSUME NEW n \in Message PROVE Event(n)'
      <3>1. CASE n = m
        <4>1. PICK t \in Scope : MessageOf[t] = m /\ (HasEvent(t) \/ (t = s /\ job.rec.disp = "Committed"))
          BY <1>10
        <4>2. HasEvent(t) => HasEvent(t)'
          BY <1>2 DEF HasEvent
        <4> QED BY <1>2, <1>5, <1>14, <3>1, <4>1, <4>2 DEF HookBase, HookInv, Event, Running
      <3>2. CASE n # m /\ n \notin deleted /\ bodyFile[n].vis # None
        <4>1. PICK t \in Scope : MessageOf[t] = n /\ HasEvent(t)
          BY <1>2, <1>5, <3>2 DEF HookBase, HookInv, Event
        <4>2. HasEvent(t)'
          BY <1>2, <4>1 DEF HasEvent
        <4> QED BY <1>2, <1>5, <3>2, <4>1, <4>2 DEF HookBase, HookInv, Event
      <3>3. CASE n # m /\ (n \in deleted \/ bodyFile[n].vis = None)
        BY <1>2, <1>3, <1>5, <3>3 DEF HookBase, HookInv, Event
      <3> QED BY <3>1, <3>2, <3>3
    <2>2. ASSUME NEW t \in Scope PROVE Known(t)'
      BY <1>2, <1>5, <1>14 DEF HookBase, HookInv, Known, Running
    <2>3. JobFresh'
      BY <1>2, <1>6, <1>14 DEF JobFresh
    <2> QED BY <1>8, <1>11, <1>12, <2>1, <2>2, <2>3 DEF HookInv
  <1> QED BY <1>4, <1>13, <1>14

LEMMA WriteCommitH == ASSUME HookBase, WriteCommit PROVE HookInv'
  <1>. PICK s \in Scope, m \in Message, new \in Commit :
          s = job.scope /\ m = MessageOf[s] /\ new = Published(job)
    BY MessageAssumption DEF WriteCommit, HookBase, TInv, LocalsOK, Job, Commit, Published
  <1>1. PICK o \in Outcome :
          /\ commitFile' = [commitFile EXCEPT ![s] = Written(@, new, o)]
          /\ committed' = IF o = "ok" THEN [committed EXCEPT ![s] = new] ELSE committed
          /\ Go(o, "idle", None, {}, None)
    BY DEF WriteCommit
  <1>2. /\ UNCHANGED <<tombFile, intentFile, bodyFile, deleted>> /\ phase = "commit"
        /\ job \in Job /\ new.rec = job.rec /\ new.hook = job.hook /\ new # None
    BY NoneAssumption DEF WriteCommit, HookBase, TInv, LocalsOK, Published
  <1>3. /\ commitFile'[s] = Written(commitFile[s], new, o)
        /\ \A t \in Scope \ {s} : commitFile'[t] = commitFile[t] /\ committed'[t] = committed[t]
        /\ committed'[s] = IF o = "ok" THEN new ELSE committed[s]
    BY <1>1 DEF HookBase, TInv, TypeOK
  <1>4. \/ o = "ok" /\ phase' = "idle"
        \/ o = "torn" /\ phase' = "torn"
    BY <1>1, GoH DEF HookBase
  <1>5. Running /\ (m \in deleted <=> tombFile[m] = Settled(m))
    BY <1>2, RunningDeleted DEF Running
  <1>6. m \notin deleted =>
          /\ job.rec.disp \in Visible /\ committed[s] = None /\ commitFile[s] = Settled(None)
          /\ bodyFile[m] = Settled(job.rec.stored)
          /\ intentFile[s] = Settled([rec |-> job.rec, hook |-> job.hook])
    <2> SUFFICES ASSUME m \notin deleted
                 PROVE  /\ job.rec.disp \in Visible /\ committed[s] = None /\ commitFile[s] = Settled(None)
                        /\ bodyFile[m] = Settled(job.rec.stored)
                        /\ intentFile[s] = Settled([rec |-> job.rec, hook |-> job.hook])
      OBVIOUS
    <2>1. /\ job.rec.disp \in Visible /\ committed[s] = None
          /\ intentFile[s] = Settled([rec |-> job.rec, hook |-> job.hook])
      BY <1>2 DEF HookBase, HookInv, JobFresh
    <2> QED BY <1>2, <1>5, <2>1 DEF HookBase, HookInv, Known, BInv, JobBacked
  <1>7. \A c \in Contents(commitFile'[s]) : c \in Contents(commitFile[s]) \/ c = new
    BY <1>3 DEF Written, Contents, Settled
  <1>8. Marked'
    <2>1. MarkedRec(new)
      BY <1>2 DEF HookBase, HookInv, Marked, MarkedRec
    <2> QED BY <1>2, <1>3, <1>4, <1>7, <2>1 DEF HookBase, HookInv, Marked
  <1>9. ASSUME NEW n \in Message PROVE OnDisk(n)' /\ \A t \in Scope : MessageOf[t] = n => FilesAgree(t)'
    <2>1. CASE n # m \/ m \in deleted
      <3>1. Untouched(n)
        BY <1>2, <1>3, <1>5, <2>1 DEF Untouched
      <3> QED BY <3>1, UntouchedKeeps
    <2>2. CASE n = m /\ m \notin deleted
      <3>1. ASSUME NEW t \in Scope, NEW w, w # None, IntentHolds(t, w) \/ CommitHolds(t, w), MessageOf[t] = m
            PROVE IntentHolds(t, w)' \/ CommitHolds(t, w)'
        <4>1. CASE t # s
          BY <1>2, <1>3, <3>1, <4>1 DEF IntentHolds, CommitHolds
        <4>2. CASE t = s
          <5>1. ~CommitHolds(s, w)
            BY <1>6, <2>2 DEF CommitHolds, Contents, Settled
          <5> QED BY <1>2, <3>1, <4>2, <5>1 DEF IntentHolds
        <4> QED BY <4>1, <4>2
      <3>2. OnDisk(m)'
        <4>1. CASE bodyFile[m].vis = None
          BY <1>2, <4>1 DEF HookBase, HookInv, OnDisk, Standing
        <4>2. CASE bodyFile[m].vis # None
          <5>1. PICK t \in Scope : /\ MessageOf[t] = m
                                   /\ \/ IntentHolds(t, bodyFile[m].vis)
                                      \/ CommitHolds(t, bodyFile[m].vis)
            BY <1>5, <2>2, <4>2 DEF HookBase, HookInv, OnDisk, Standing
          <5>2. IntentHolds(t, bodyFile[m].vis)' \/ CommitHolds(t, bodyFile[m].vis)'
            BY <1>2, <3>1, <4>2, <5>1
          <5> QED BY <1>2, <5>1, <5>2 DEF HookBase, HookInv, OnDisk, Standing
        <4> QED BY <4>1, <4>2
      <3>3. ASSUME NEW t \in Scope, MessageOf[t] = m, t # s PROVE FilesAgree(t)'
        BY <1>2, <1>3, <3>3 DEF HookBase, HookInv, FilesAgree, Standing
      <3>4. FilesAgree(s)'
        <4>1. \A c \in Contents(commitFile'[s]) \ {None} : c = new
          BY <1>6, <1>7, <2>2 DEF Contents, Settled
        <4>2. commitFile'[s].vis # None
          BY <1>2, <1>3, <1>4 DEF Written, Settled
        <4>3. /\ intentFile[s].vis = [rec |-> job.rec, hook |-> job.hook]
              /\ intentFile[s].may = {intentFile[s].vis}
          BY <1>6, <2>2 DEF Settled
        <4>4. intentFile[s].vis # None /\ intentFile[s].vis.rec = job.rec
          BY <1>2, <4>3, NoneAssumption DEF Job, Intent
        <4>5. \A i \in Contents(intentFile[s]) \ {None} : i.rec.disp \in Visible
          BY <1>6, <2>2, <4>3 DEF Contents
        <4> QED BY <1>2, <1>6, <2>2, <4>1, <4>2, <4>3, <4>4, <4>5 DEF FilesAgree
      <3> QED BY <2>2, <3>2, <3>3, <3>4
    <2> QED BY <2>1, <2>2
  <1>10. \A t \in Scope : FilesAgree(t)'
    BY <1>9, HookFacts
  <1>11. CASE phase' = "torn"
    BY <1>8, <1>9, <1>10, <1>11, TornH
  <1>12. CASE o = "ok" /\ phase' = "idle"
    <2>1. committed'[s] = new /\ commitFile'[s] = Settled(new)
      BY <1>3, <1>12 DEF Written
    <2>2. ASSUME NEW n \in Message PROVE Event(n)'
      <3> SUFFICES ASSUME n \notin deleted PROVE Event(n)'
        BY <1>2 DEF Event
      <3>1. tombFile[n] = Settled(None)
        BY <1>5 DEF HookBase, HookInv, Event
      <3>2. CASE bodyFile[n].vis = None
        BY <1>2, <3>1, <3>2 DEF Event
      <3>3. CASE bodyFile[n].vis # None
        <4>1. PICK t \in Scope : /\ MessageOf[t] = n
                                 /\ HasEvent(t) \/ (s = t /\ job.rec.disp = "Committed")
          BY <1>2, <1>5, <3>3 DEF HookBase, HookInv, Event
        <4>2. HasEvent(t)'
          <5>1. CASE t = s
            <6>1. job.rec.disp = "Committed"
              BY <1>6, <4>1, <5>1 DEF HasEvent
            <6> QED BY <1>2, <2>1, <5>1, <6>1 DEF HasEvent
          <5>2. CASE t # s
            BY <1>3, <4>1, <5>2 DEF HasEvent
          <5> QED BY <5>1, <5>2
        <4>3. \E u \in Scope : MessageOf[u] = n /\ HasEvent(u)'
          BY <4>1, <4>2
        <4> QED BY <1>2, <3>1, <4>3 DEF Event, HasEvent
      <3> QED BY <3>2, <3>3
    <2>3. ASSUME NEW t \in Scope PROVE Known(t)'
      <3>1. CASE t = s
        BY <1>2, <2>1, <3>1 DEF Known
      <3>2. CASE t # s
        BY <1>2, <1>3, <1>5, <3>2 DEF HookBase, HookInv, Known
      <3> QED BY <3>1, <3>2
    <2>4. JobFresh'
      BY <1>12 DEF JobFresh
    <2> QED BY <1>8, <1>9, <1>10, <2>2, <2>3, <2>4 DEF HookInv
  <1> QED BY <1>4, <1>11, <1>12

-----------------------------------------------------------------------------
(* A step of a deletion or of pruning, on what is deleted already.          *)
LEMMA DeletedStepH ==
    ASSUME HookBase, Running, phase \notin {"commits", "intents", "commit"}, NEW m \in deleted,
           phase' \in {"idle", "delIntent", "delCommit", "pruneIntent", "pruneCommit", "torn"},
           UNCHANGED <<tombFile, deleted>>,
           \A n \in Message \ {m} : bodyFile'[n] = bodyFile[n],
           \A s \in Scope :
              IF MessageOf[s] = m
              THEN phase' # "torn" /\ committed'[s] # None => commitFile'[s] = Settled(committed'[s])
              ELSE /\ intentFile'[s] = intentFile[s] /\ commitFile'[s] = commitFile[s]
                   /\ committed'[s] = committed[s],
           Marked'
    PROVE  HookInv'
  <1>1. m \in Message /\ tombFile[m] = Settled(m)
    BY DeletedGone DEF HookBase, TInv, TypeOK
  <1>2. ASSUME NEW n \in Message PROVE Untouched(n)
    BY <1>1 DEF Untouched
  <1>3. (\A n \in Message : OnDisk(n)') /\ \A s \in Scope : FilesAgree(s)'
    BY <1>2, AllUntouched
  <1>4. CASE phase' = "torn"
    BY <1>3, <1>4, TornH
  <1>5. CASE phase' # "torn"
    <2>1. Running'
      BY <1>5 DEF Running
    <2>2. (\A n \in Message : Event(n)') /\ \A s \in Scope : Known(s)'
      BY <1>5, <2>1, RemainsH
    <2>3. JobFresh'
      BY DEF JobFresh
    <2> QED BY <1>3, <2>2, <2>3 DEF HookInv
  <1> QED BY <1>4, <1>5

(* A durable write of a record keeps the marks of the other contents.       *)
LEMMA WrittenContents ==
    ASSUME NEW f, NEW v, NEW o, NEW x \in Contents(Written(f, v, o))
    PROVE  x \in Contents(f) \/ x = v
  BY DEF Written, Contents, Settled

LEMMA StartDeleteH ==
    ASSUME HookBase, NEW m \in Message, StartDelete(m) PROVE HookInv'
  <1>. PICK r \in SUBSET Scope : r = {s \in Scope : committed[s] # None /\ MessageOf[s] = m}
    OBVIOUS
  <1>1. PICK o \in Outcome : /\ tombFile' = [tombFile EXCEPT ![m] = Written(@, m, o)]
                             /\ deleted' = IF o = "ok" THEN deleted \cup {m} ELSE deleted
                             /\ Go(o, "delIntent", None, r, m)
    BY DEF StartDelete
  <1>2. UNCHANGED <<intentFile, commitFile, bodyFile, committed>> /\ phase = "idle"
    BY DEF StartDelete, Idle
  <1>3. /\ tombFile'[m] = Written(tombFile[m], m, o)
        /\ \A n \in Message \ {m} : tombFile'[n] = tombFile[n]
    BY <1>1 DEF HookBase, TInv, TypeOK
  <1>4. \/ o = "ok" /\ phase' = "delIntent"
        \/ o = "torn" /\ phase' = "torn"
    BY <1>1, GoH DEF HookBase
  <1>5. Marked'
    BY <1>2, <1>4 DEF HookBase, HookInv, Marked
  <1>6. ASSUME NEW n \in Message PROVE OnDisk(n)' /\ \A t \in Scope : MessageOf[t] = n => FilesAgree(t)'
    <2>1. CASE n # m
      <3>1. Untouched(n)
        BY <1>2, <1>3, <2>1 DEF Untouched
      <3> QED BY <3>1, UntouchedKeeps
    <2>2. CASE n = m
      <3>1. Standing(m)' => Standing(m)
        BY <1>3, WrittenSettled DEF Standing
      <3>2. tombFile'[m].vis # None
        BY <1>3, <1>4, DeletedGone DEF Written, Settled
      <3>3. OnDisk(m)'
        <4>1. CASE ~Standing(m)'
          BY <3>2, <4>1 DEF OnDisk
        <4>2. CASE Standing(m)'
          <5>1. CASE bodyFile[m].vis = None
            BY <1>2, <3>1, <3>2, <4>2, <5>1 DEF HookBase, HookInv, OnDisk
          <5>2. CASE bodyFile[m].vis # None
            <6>1. PICK t \in Scope : /\ MessageOf[t] = m
                                     /\ \/ IntentHolds(t, bodyFile[m].vis)
                                        \/ CommitHolds(t, bodyFile[m].vis)
              BY <3>1, <4>2, <5>2 DEF HookBase, HookInv, OnDisk
            <6>2. IntentHolds(t, bodyFile[m].vis)' \/ CommitHolds(t, bodyFile[m].vis)'
              BY <1>2, <6>1 DEF IntentHolds, CommitHolds
            <6> QED BY <1>2, <3>1, <3>2, <4>2, <6>1, <6>2 DEF HookBase, HookInv, OnDisk
          <5> QED BY <5>1, <5>2
        <4> QED BY <4>1, <4>2
      <3>4. ASSUME NEW t \in Scope, MessageOf[t] = m PROVE FilesAgree(t)'
        BY <1>2, <3>1, <3>4 DEF HookBase, HookInv, FilesAgree
      <3> QED BY <2>2, <3>3, <3>4
    <2> QED BY <2>1, <2>2
  <1>7. \A t \in Scope : FilesAgree(t)'
    BY <1>6, HookFacts
  <1>8. CASE phase' = "torn"
    BY <1>5, <1>6, <1>7, <1>8, TornH
  <1>9. CASE o = "ok" /\ phase' = "delIntent"
    <2>1. Running /\ Running' /\ deleted' = deleted \cup {m}
      BY <1>1, <1>2, <1>9 DEF Running
    <2>2. (\A n \in Message : Event(n)') /\ \A t \in Scope : Known(t)'
      BY <1>2, <1>3, <2>1, RemainsH
    <2>3. JobFresh'
      BY <1>9 DEF JobFresh
    <2> QED BY <1>5, <1>6, <1>7, <2>2, <2>3 DEF HookInv
  <1> QED BY <1>4, <1>8, <1>9

LEMMA DeleteIntentH ==
    ASSUME HookBase, NEW s \in Scope, DeleteIntent(s) PROVE HookInv'
  <1> DEFINE rec == [committed[s].rec EXCEPT !.disp = "UserDeleted", !.stored = None, !.at = now]
             new == [rec |-> rec, hook |-> FALSE]
  <1>1. PICK o \in Outcome :
          /\ intentFile' = [intentFile EXCEPT ![s] = Written(@, new, o)]
          /\ Go(o, "delCommit", [scope |-> s, rec |-> rec, hook |-> FALSE], todo, victim)
    BY DEF DeleteIntent
  <1>2. /\ UNCHANGED <<tombFile, commitFile, bodyFile, committed, deleted>> /\ phase = "delIntent"
        /\ MessageOf[s] = victim /\ victim \in deleted
    BY DEF DeleteIntent, memory, HookBase, SInv, Visits, BInv, DeleteOrder
  <1>3. /\ intentFile'[s] = Written(intentFile[s], new, o)
        /\ \A t \in Scope \ {s} : intentFile'[t] = intentFile[t]
    BY <1>1 DEF HookBase, TInv, TypeOK
  <1>4. phase' \in {"delCommit", "torn"}
    BY <1>1, GoH DEF HookBase
  <1>5. MarkedRec(new)
    <2>1. committed[s] \in Commit
      BY DEF DeleteIntent, HookBase, TInv, LocalsOK
    <2>2. new.rec.disp = "UserDeleted"
      BY <2>1 DEF Commit, Record
    <2> QED BY <2>2 DEF MarkedRec
  <1> HIDE DEF new
  <1>6. Marked'
    <2>1. \A i \in Contents(intentFile'[s]) : i \in Contents(intentFile[s]) \/ i = new
      BY <1>3, WrittenContents
    <2> QED BY <1>2, <1>3, <1>4, <1>5, <2>1 DEF HookBase, HookInv, Marked
  <1>7. ASSUME NEW t \in Scope
        PROVE  IF MessageOf[t] = victim
               THEN phase' # "torn" /\ committed'[t] # None => commitFile'[t] = Settled(committed'[t])
               ELSE /\ intentFile'[t] = intentFile[t] /\ commitFile'[t] = commitFile[t]
                    /\ committed'[t] = committed[t]
    BY <1>2, <1>3 DEF HookBase, HookInv, Known
  <1>8. Running
    BY <1>2 DEF Running
  <1> QED BY <1>2, <1>4, <1>6, <1>7, <1>8, DeletedStepH

LEMMA DeleteCommitH == ASSUME HookBase, DeleteCommit PROVE HookInv'
  <1>. PICK s \in Scope, new \in Commit :
          s = job.scope /\ new = [rec |-> job.rec, hook |-> FALSE, done |-> TRUE]
    BY DEF DeleteCommit, HookBase, TInv, LocalsOK, Job, Commit
  <1>1. PICK o \in Outcome :
          /\ commitFile' = [commitFile EXCEPT ![s] = Written(@, new, o)]
          /\ committed' = IF o = "ok" THEN [committed EXCEPT ![s] = new] ELSE committed
          /\ Go(o, "delIntent", None, todo \ {s}, victim)
    BY DEF DeleteCommit
  <1>2. /\ UNCHANGED <<tombFile, intentFile, bodyFile, deleted>> /\ phase = "delCommit"
        /\ MessageOf[s] = victim /\ victim \in deleted
    BY DEF DeleteCommit, HookBase, SInv, Visits, BInv, DeleteOrder
  <1>3. /\ commitFile'[s] = Written(commitFile[s], new, o)
        /\ \A t \in Scope \ {s} : commitFile'[t] = commitFile[t] /\ committed'[t] = committed[t]
        /\ committed'[s] = IF o = "ok" THEN new ELSE committed[s]
    BY <1>1 DEF HookBase, TInv, TypeOK
  <1>4. \/ o = "ok" /\ phase' = "delIntent"
        \/ o = "torn" /\ phase' = "torn"
    BY <1>1, GoH DEF HookBase
  <1>5. MarkedRec(new)
    BY <1>2 DEF MarkedRec, HookBase, BInv, DeleteOrder
  <1>6. Marked'
    <2>1. \A c \in Contents(commitFile'[s]) : c \in Contents(commitFile[s]) \/ c = new
      BY <1>3, WrittenContents
    <2> QED BY <1>2, <1>3, <1>4, <1>5, <2>1 DEF HookBase, HookInv, Marked
  <1>7. ASSUME NEW t \in Scope
        PROVE  IF MessageOf[t] = victim
               THEN phase' # "torn" /\ committed'[t] # None => commitFile'[t] = Settled(committed'[t])
               ELSE /\ intentFile'[t] = intentFile[t] /\ commitFile'[t] = commitFile[t]
                    /\ committed'[t] = committed[t]
    <2>1. CASE t = s
      BY <1>2, <1>3, <1>4, <2>1, WrittenOk
    <2>2. CASE t # s
      BY <1>2, <1>3, <2>2 DEF HookBase, HookInv, Known
    <2> QED BY <2>1, <2>2
  <1>8. Running
    BY <1>2 DEF Running
  <1> QED BY <1>2, <1>4, <1>6, <1>7, <1>8, DeletedStepH

LEMMA DeleteBodyH == ASSUME HookBase, DeleteBody PROVE HookInv'
  <1>1. PICK o \in Outcome : /\ bodyFile' = [bodyFile EXCEPT ![victim] = Written(@, None, o)]
                             /\ Go(o, "idle", None, {}, None)
    BY DEF DeleteBody
  <1>2. /\ UNCHANGED <<tombFile, intentFile, commitFile, committed, deleted>> /\ phase = "delIntent"
        /\ victim \in deleted
    BY DEF DeleteBody, memory, HookBase, BInv, DeleteOrder
  <1>3. \A n \in Message \ {victim} : bodyFile'[n] = bodyFile[n]
    BY <1>1 DEF HookBase, TInv, TypeOK
  <1>4. phase' \in {"idle", "torn"}
    BY <1>1, GoH DEF HookBase
  <1>5. Marked'
    BY <1>2, <1>4 DEF HookBase, HookInv, Marked
  <1>6. \A t \in Scope : committed[t] # None => commitFile[t] = Settled(committed[t])
    BY <1>2 DEF HookBase, HookInv, Known
  <1>7. Running
    BY <1>2 DEF Running
  <1> QED BY <1>2, <1>3, <1>4, <1>5, <1>6, <1>7, DeletedStepH

(* Only what is deleted is past its lifetime.                               *)
LEMMA PrunedDeleted ==
    ASSUME HookBase, phase \in {"pruneIntent", "pruneCommit"}, NEW s \in todo
    PROVE  s \in Scope /\ MessageOf[s] \in deleted
  <1>1. /\ s \in Scope /\ committed[s] \in Commit /\ committed[s] # None
        /\ committed[s].rec.disp \notin Visible
    BY NoneAssumption DEF HookBase, SInv, Visits, TInv, TypeOK, LocalsOK, Live
  <1>2. tombFile[MessageOf[s]] = Settled(MessageOf[s])
    BY <1>1, InvisibleDeleted
  <1> QED BY <1>1, <1>2, HookFacts, RunningDeleted DEF Running

LEMMA PruneIntentH ==
    ASSUME HookBase, NEW s \in Scope, PruneIntent(s) PROVE HookInv'
  <1>1. PICK o \in Outcome :
          /\ intentFile' = [intentFile EXCEPT ![s] = Written(@, None, o)]
          /\ Go(o, "pruneCommit", [scope |-> s, rec |-> committed[s].rec, hook |-> FALSE], todo, None)
    BY DEF PruneIntent
  <1>2. /\ UNCHANGED <<tombFile, commitFile, bodyFile, committed, deleted>> /\ phase = "pruneIntent"
        /\ MessageOf[s] \in deleted
    BY PrunedDeleted DEF PruneIntent, memory
  <1>3. /\ intentFile'[s] = Written(intentFile[s], None, o)
        /\ \A t \in Scope \ {s} : intentFile'[t] = intentFile[t]
    BY <1>1 DEF HookBase, TInv, TypeOK
  <1>4. phase' \in {"pruneCommit", "torn"}
    BY <1>1, GoH DEF HookBase
  <1>5. Marked'
    <2>1. \A i \in Contents(intentFile'[s]) : i \in Contents(intentFile[s]) \/ i = None
      BY <1>3, WrittenContents
    <2> QED BY <1>2, <1>3, <1>4, <2>1 DEF HookBase, HookInv, Marked
  <1>6. ASSUME NEW t \in Scope
        PROVE  IF MessageOf[t] = MessageOf[s]
               THEN phase' # "torn" /\ committed'[t] # None => commitFile'[t] = Settled(committed'[t])
               ELSE /\ intentFile'[t] = intentFile[t] /\ commitFile'[t] = commitFile[t]
                    /\ committed'[t] = committed[t]
    BY <1>2, <1>3 DEF HookBase, HookInv, Known
  <1>7. Running
    BY <1>2 DEF Running
  <1> QED BY <1>2, <1>4, <1>5, <1>6, <1>7, DeletedStepH

LEMMA PruneCommitH == ASSUME HookBase, PruneCommit PROVE HookInv'
  <1>. PICK s \in Scope, next \in {"idle", "pruneIntent"} :
          /\ s = job.scope /\ s \in todo /\ MessageOf[s] \in deleted
          /\ next = IF todo \ {s} = {} THEN "idle" ELSE "pruneIntent"
    BY PrunedDeleted DEF PruneCommit, HookBase, SInv, Visits
  <1>1. PICK o \in Outcome :
          /\ commitFile' = [commitFile EXCEPT ![s] = Written(@, None, o)]
          /\ committed' = IF o = "ok" THEN [committed EXCEPT ![s] = None] ELSE committed
          /\ Go(o, next, None, todo \ {s}, None)
    BY DEF PruneCommit
  <1>2. /\ UNCHANGED <<tombFile, intentFile, bodyFile, deleted>> /\ phase = "pruneCommit"
    BY DEF PruneCommit
  <1>3. /\ commitFile'[s] = Written(commitFile[s], None, o)
        /\ \A t \in Scope \ {s} : commitFile'[t] = commitFile[t] /\ committed'[t] = committed[t]
        /\ committed'[s] = IF o = "ok" THEN None ELSE committed[s]
    BY <1>1 DEF HookBase, TInv, TypeOK
  <1>4. \/ o = "ok" /\ phase' \in {"idle", "pruneIntent"}
        \/ o = "torn" /\ phase' = "torn"
    BY <1>1, GoH DEF HookBase
  <1>5. Marked'
    <2>1. \A c \in Contents(commitFile'[s]) : c \in Contents(commitFile[s]) \/ c = None
      BY <1>3, WrittenContents
    <2> QED BY <1>2, <1>3, <1>4, <2>1 DEF HookBase, HookInv, Marked
  <1>6. ASSUME NEW t \in Scope
        PROVE  IF MessageOf[t] = MessageOf[s]
               THEN phase' # "torn" /\ committed'[t] # None => commitFile'[t] = Settled(committed'[t])
               ELSE /\ intentFile'[t] = intentFile[t] /\ commitFile'[t] = commitFile[t]
                    /\ committed'[t] = committed[t]
    <2>1. CASE t = s
      BY <1>2, <1>3, <1>4, <2>1
    <2>2. CASE t # s
      BY <1>2, <1>3, <2>2 DEF HookBase, HookInv, Known
    <2> QED BY <2>1, <2>2
  <1>7. Running
    BY <1>2 DEF Running
  <1> QED BY <1>2, <1>4, <1>5, <1>6, <1>7, DeletedStepH

LEMMA StartMaintainH == ASSUME HookBase, StartMaintain PROVE HookInv'
  <1>1. /\ UNCHANGED <<tombFile, intentFile, commitFile, bodyFile, committed, deleted>>
        /\ phase = "idle" /\ phase' = "pruneIntent"
    BY DEF StartMaintain, disk, memory, Idle
  <1>2. Marked' /\ (\A n \in Message : OnDisk(n)') /\ \A t \in Scope : FilesAgree(t)'
    BY <1>1, QuietH
  <1>3. Running /\ Running'
    BY <1>1 DEF Running
  <1>4. (\A n \in Message : Event(n)') /\ \A t \in Scope : Known(t)'
    BY <1>1, <1>3, RemainsH
  <1>5. JobFresh'
    BY <1>1 DEF JobFresh
  <1> QED BY <1>2, <1>4, <1>5 DEF HookInv

-----------------------------------------------------------------------------
LEMMA UnchangedH ==
    ASSUME HookInv, UNCHANGED <<disk, memory, control>> PROVE HookInv'
  <1>1. UNCHANGED <<tombFile, intentFile, commitFile, bodyFile, committed, deleted, phase, todo, job>>
    BY DEF disk, memory, control
  <1>2. Marked' /\ JobFresh'
    BY <1>1 DEF HookInv, Marked, MarkedRec, JobFresh, Contents
  <1>4. ASSUME NEW m \in Message PROVE OnDisk(m)' /\ Event(m)'
    <2>1. OnDisk(m) /\ Event(m)
      BY DEF HookInv
    <2>2. OnDisk(m)'
      <3>1. CASE bodyFile[m].vis = None \/ ~Standing(m)
        BY <1>1, <2>1, <3>1 DEF OnDisk, Standing
      <3>2. CASE bodyFile[m].vis # None /\ Standing(m)
        <4>1. PICK s \in Scope : /\ MessageOf[s] = m
                                 /\ \/ IntentHolds(s, bodyFile[m].vis)
                                    \/ CommitHolds(s, bodyFile[m].vis)
          BY <2>1, <3>2 DEF OnDisk
        <4>2. IntentHolds(s, bodyFile[m].vis)' \/ CommitHolds(s, bodyFile[m].vis)'
          BY <1>1, <4>1 DEF IntentHolds, CommitHolds
        <4> QED BY <1>1, <2>1, <4>1, <4>2 DEF OnDisk, Standing
      <3> QED BY <3>1, <3>2
    <2>3. Event(m)'
      BY <1>1, <2>1 DEF Event, Running, HasEvent, CommitHolds, IntentHolds
    <2> QED BY <2>2, <2>3
  <1>5. ASSUME NEW s \in Scope PROVE FilesAgree(s)' /\ Known(s)'
    BY <1>1 DEF HookInv, FilesAgree, Known, Standing, Running
  <1> QED BY <1>2, <1>4, <1>5 DEF HookInv

LEMMA CompleteHookH == ASSUME HookBase, CompleteHook PROVE HookInv'
  <1>. PICK s \in Scope : s = hookTask.scope
    BY DEF CompleteHook, HookBase, TInv, TypeOK
  <1>0. CASE ~(committed[s] # None /\ committed[s].hook)
    BY <1>0, UnchangedH DEF CompleteHook, disk, memory, HookBase
  <1>. SUFFICES ASSUME committed[s] # None, committed[s].hook PROVE HookInv'
    BY <1>0
  <1>a. committed[s] \in Commit
    BY HookFacts
  <1>1. PICK new \in Commit, o \in Outcome :
          /\ new.rec = committed[s].rec /\ new.hook = committed[s].hook
          /\ commitFile' = [commitFile EXCEPT ![s] = Written(@, new, o)]
          /\ committed' = IF o = "ok" THEN [committed EXCEPT ![s] = new] ELSE committed
          /\ Go(o, "idle", None, {}, None)
    <2> DEFINE c == [committed[s] EXCEPT !.done = TRUE]
    <2>1. c \in Commit /\ c.rec = committed[s].rec /\ c.hook = committed[s].hook
      BY <1>a DEF Commit
    <2>2. PICK o \in Outcome :
            /\ commitFile' = [commitFile EXCEPT ![s] = Written(@, c, o)]
            /\ committed' = IF o = "ok" THEN [committed EXCEPT ![s] = c] ELSE committed
            /\ Go(o, "idle", None, {}, None)
      BY DEF CompleteHook
    <2> HIDE DEF c
    <2> QED BY <2>1, <2>2
  <1>2. UNCHANGED <<tombFile, intentFile, bodyFile, deleted>> /\ phase = "idle" /\ new # None
    BY NoneAssumption DEF CompleteHook, Idle
  <1>3. /\ commitFile'[s] = Written(commitFile[s], new, o)
        /\ \A t \in Scope \ {s} : commitFile'[t] = commitFile[t] /\ committed'[t] = committed[t]
        /\ committed'[s] = IF o = "ok" THEN new ELSE committed[s]
    BY <1>1 DEF HookBase, TInv, TypeOK
  <1>4. \/ o = "ok" /\ phase' = "idle"
        \/ o = "torn" /\ phase' = "torn"
    BY <1>1, GoH DEF HookBase
  <1>5. commitFile[s] = Settled(committed[s])
    BY <1>2 DEF HookBase, HookInv, Known
  <1>6. /\ \A c \in Contents(commitFile'[s]) : c = committed[s] \/ c = new
        /\ commitFile'[s].vis = new
    BY <1>3, <1>4, <1>5 DEF Written, Contents, Settled
  <1>7. Marked'
    <2>1. MarkedRec(new)
      BY <1>1 DEF HookBase, HookInv, Marked, MarkedRec
    <2> QED BY <1>2, <1>3, <1>4, <1>6, <2>1 DEF HookBase, HookInv, Marked
  <1>8. ASSUME NEW t \in Scope PROVE FilesAgree(t)'
    <2>1. CASE t # s
      BY <1>2, <1>3, <2>1 DEF HookBase, HookInv, FilesAgree, Standing
    <2>2. CASE t = s
      <3>1. committed[s] \in Contents(commitFile[s])
        BY <1>5 DEF Contents, Settled
      <3>2. FilesAgree(s)
        BY DEF HookBase, HookInv
      <3> QED BY <1>1, <1>2, <1>6, <2>2, <3>1, <3>2 DEF FilesAgree, Standing
    <2> QED BY <2>1, <2>2
  <1>9. ASSUME NEW m \in Message PROVE OnDisk(m)'
    <2>1. CASE bodyFile[m].vis = None \/ ~Standing(m)
      BY <1>2, <2>1 DEF HookBase, HookInv, OnDisk, Standing
    <2>2. CASE bodyFile[m].vis # None /\ Standing(m)
      <3>1. PICK t \in Scope : /\ MessageOf[t] = m
                               /\ \/ IntentHolds(t, bodyFile[m].vis)
                                  \/ CommitHolds(t, bodyFile[m].vis)
        BY <2>2 DEF HookBase, HookInv, OnDisk
      <3>2. IntentHolds(t, bodyFile[m].vis)' \/ CommitHolds(t, bodyFile[m].vis)'
        <4>1. CASE t # s \/ IntentHolds(t, bodyFile[m].vis)
          BY <1>2, <1>3, <3>1, <4>1 DEF IntentHolds, CommitHolds
        <4>2. CASE t = s /\ CommitHolds(t, bodyFile[m].vis)
          <5>1. committed[s] \in Contents(commitFile[s])
            BY <1>5 DEF Contents, Settled
          <5> QED BY <1>1, <1>2, <1>6, <4>2, <5>1 DEF CommitHolds
        <4> QED BY <3>1, <4>1, <4>2
      <3> QED BY <1>2, <2>2, <3>1, <3>2 DEF HookBase, HookInv, OnDisk, Standing
    <2> QED BY <2>1, <2>2
  <1>10. CASE phase' = "torn"
    BY <1>7, <1>8, <1>9, <1>10, TornH
  <1>11. CASE o = "ok" /\ phase' = "idle"
    <2>1. committed'[s] = new /\ commitFile'[s] = Settled(new)
      BY <1>3, <1>11 DEF Written
    <2>2. Running
      BY <1>2 DEF Running
    <2>3. ASSUME NEW n \in Message PROVE Event(n)'
      <3> SUFFICES ASSUME n \notin deleted PROVE Event(n)'
        BY <1>2 DEF Event
      <3>1. tombFile[n] = Settled(None)
        BY <2>2 DEF HookBase, HookInv, Event
      <3>2. CASE bodyFile[n].vis = None
        BY <1>2, <3>1, <3>2 DEF Event
      <3>3. CASE bodyFile[n].vis # None
        <4>1. PICK t \in Scope : MessageOf[t] = n /\ HasEvent(t)
          BY <1>2, <2>2, <3>3 DEF HookBase, HookInv, Event
        <4>2. HasEvent(t)'
          BY <1>1, <1>2, <1>3, <2>1, <4>1 DEF HasEvent
        <4> QED BY <1>2, <3>1, <4>1, <4>2 DEF Event
      <3> QED BY <3>2, <3>3
    <2>4. ASSUME NEW t \in Scope PROVE Known(t)'
      <3>1. CASE t = s
        BY <1>2, <2>1, <3>1 DEF Known
      <3>2. CASE t # s
        BY <1>2, <1>3, <2>2, <3>2 DEF HookBase, HookInv, Known
      <3> QED BY <3>1, <3>2
    <2>5. JobFresh'
      BY <1>11 DEF JobFresh
    <2> QED BY <1>7, <1>8, <1>9, <2>3, <2>4, <2>5 DEF HookInv
  <1> QED BY <1>4, <1>10, <1>11

-----------------------------------------------------------------------------
LEMMA KillH == ASSUME HookBase, Kill PROVE HookInv'
  <1>1. /\ UNCHANGED <<tombFile, intentFile, commitFile, bodyFile>> /\ phase' = "down"
        /\ \A s \in Scope : committed'[s] = None
    BY DEF Kill, Stopped, disk
  <1>2. \A m \in Message : Untouched(m)
    BY <1>1 DEF Untouched
  <1>3. Marked'
    BY <1>1 DEF HookBase, HookInv, Marked
  <1> QED BY <1>1, <1>2, <1>3, AllUntouched, TornH

LEMMA PowerLossH == ASSUME HookBase, PowerLoss PROVE HookInv'
  <1>1. /\ phase' = "down" /\ \A s \in Scope : committed'[s] = None
    BY DEF PowerLoss, Stopped
  <1>2. PICK t, b :
          /\ \A m \in Message : t[m] \in tombFile[m].may /\ b[m] \in bodyFile[m].may
          /\ tombFile' = [m \in Message |-> Settled(t[m])]
          /\ bodyFile' = [m \in Message |-> Settled(b[m])]
    BY DEF PowerLoss
  <1>3. PICK i, c :
          /\ \A s \in Scope : i[s] \in intentFile[s].may /\ c[s] \in commitFile[s].may
          /\ intentFile' = [s \in Scope |-> Settled(i[s])]
          /\ commitFile' = [s \in Scope |-> Settled(c[s])]
    BY DEF PowerLoss
  <1>4. ASSUME NEW s \in Scope
        PROVE  /\ i[s] \in Contents(intentFile[s]) /\ c[s] \in Contents(commitFile[s])
               /\ Contents(intentFile'[s]) = {i[s]} /\ Contents(commitFile'[s]) = {c[s]}
               /\ intentFile'[s].vis = i[s] /\ intentFile'[s].may = {i[s]}
               /\ commitFile'[s] = Settled(c[s]) /\ commitFile'[s].vis = c[s]
    BY <1>3 DEF Contents, Settled
  <1>5. ASSUME NEW m \in Message
        PROVE  /\ tombFile'[m] = Settled(t[m]) /\ t[m] \in {None, m} /\ tombFile'[m].vis = t[m]
               /\ bodyFile'[m] = Settled(b[m]) /\ b[m] \in bodyFile[m].may
               /\ bodyFile'[m].vis = b[m] /\ bodyFile'[m].may = {b[m]}
               /\ Standing(m)' => Standing(m)
    <2>1. /\ tombFile'[m] = Settled(t[m]) /\ t[m] \in tombFile[m].may
          /\ bodyFile'[m] = Settled(b[m]) /\ b[m] \in bodyFile[m].may
      BY <1>2
    <2>2. ASSUME tombFile[m] = Settled(m) PROVE tombFile'[m] = Settled(m)
      <3>1. t[m] = m
        BY <2>1, <2>2, SettledHolds
      <3> QED BY <2>1, <3>1
    <2>3. Standing(m)' => Standing(m)
      BY <2>2 DEF Standing
    <2> QED BY <2>1, <2>3, DeletedGone, SettledHolds
  <1>6. Marked'
    BY <1>1, <1>4 DEF HookBase, HookInv, Marked
  <1>7. ASSUME NEW m \in Message PROVE OnDisk(m)'
    <2>1. CASE ~Standing(m)' \/ b[m] = None
      BY <1>5, <2>1 DEF OnDisk
    <2>2. CASE Standing(m)' /\ b[m] # None
      <3>1. b[m] = bodyFile[m].vis
        BY <1>5, <2>2 DEF HookBase, HookInv, OnDisk
      <3>2. PICK s \in Scope : /\ MessageOf[s] = m
                               /\ IntentHolds(s, b[m]) \/ CommitHolds(s, b[m])
        BY <1>5, <2>2, <3>1 DEF HookBase, HookInv, OnDisk
      <3>3. IntentHolds(s, b[m]) => i[s] = intentFile[s].vis
        BY <1>3 DEF IntentHolds
      <3>4. IntentHolds(s, b[m])' \/ CommitHolds(s, b[m])'
        <4>1. PICK v : v = b[m] /\ b'[m] = v
          OBVIOUS
        <4>2. CASE IntentHolds(s, v)
          BY <1>4, <3>3, <4>1, <4>2 DEF IntentHolds
        <4>3. CASE CommitHolds(s, v)
          BY <1>4, <4>1, <4>3 DEF CommitHolds
        <4> QED BY <3>2, <4>1, <4>2, <4>3
      <3> QED BY <1>5, <3>2, <3>4 DEF OnDisk
    <2> QED BY <2>1, <2>2
  <1>8. ASSUME NEW s \in Scope PROVE FilesAgree(s)'
    <2> SUFFICES ASSUME Standing(MessageOf[s])' PROVE FilesAgree(s)'
      BY DEF FilesAgree
    <2>1. Standing(MessageOf[s]) /\ FilesAgree(s)
      BY <1>5, HookFacts DEF HookBase, HookInv
    <2>2. CASE c[s] = None
      BY <1>4, <2>1, <2>2 DEF FilesAgree
    <2>3. CASE c[s] # None
      <3>1. /\ c[s].rec.disp \in Visible /\ bodyFile[MessageOf[s]] = Settled(c[s].rec.stored)
            /\ intentFile[s].may = {intentFile[s].vis} /\ intentFile[s].vis # None
            /\ intentFile[s].vis.rec = c[s].rec
        BY <1>4, <2>1, <2>3 DEF FilesAgree
      <3>2. i[s] = intentFile[s].vis
        BY <1>3, <3>1
      <3>3. b[MessageOf[s]] = c[s].rec.stored
        BY <1>5, <3>1, HookFacts, SettledHolds
      <3>4. bodyFile'[MessageOf[s]] = Settled(c[s].rec.stored)
        BY <1>5, <3>3, HookFacts
      <3>5. /\ Contents(intentFile'[s]) = {i[s]} /\ Contents(commitFile'[s]) = {c[s]}
            /\ intentFile'[s].vis = i[s] /\ intentFile'[s].may = {i[s]}
            /\ commitFile'[s].vis = c[s] /\ i[s] \in Contents(intentFile[s])
        BY <1>4
      <3>6. \A j \in Contents(intentFile[s]) \ {None} : j.rec.disp \in Visible
        BY <2>1 DEF FilesAgree
      <3> QED BY <2>3, <3>1, <3>2, <3>4, <3>5, <3>6 DEF FilesAgree
    <2> QED BY <2>2, <2>3
  <1> QED BY <1>1, <1>6, <1>7, <1>8, TornH

-----------------------------------------------------------------------------
(* Recovery.                                                                *)

LEMMA OpenH == ASSUME HookBase, Open PROVE HookInv'
  <1>1. /\ UNCHANGED <<tombFile, intentFile, commitFile, bodyFile, committed, deleted>>
        /\ phase = "down" /\ phase' = "tombs"
    BY DEF Open, disk, memory
  <1>2. \A s \in Scope : committed'[s] = None
    BY <1>1 DEF HookBase, BInv, RecoveryOrder
  <1> QED BY <1>1, <1>2, QuietH, TornH

LEMMA RecoverTombH ==
    ASSUME HookBase, NEW m \in Message, RecoverTomb(m) PROVE HookInv'
  <1>1. PICK o \in Outcome, at \in 1 .. 2 :
          /\ tombFile' = [tombFile EXCEPT ![m] = Reconciled(@, Nth(1, at, o))]
          /\ bodyFile' = [bodyFile EXCEPT ![m] = Written(@, None, Nth(2, at, o))]
          /\ phase' = IF o = "ok" THEN phase ELSE "down"
    BY DEF RecoverTomb
  <1>2. /\ UNCHANGED <<intentFile, commitFile, committed>> /\ phase = "tombs"
        /\ tombFile[m].vis = m
    BY DeletedGone DEF RecoverTomb
  <1>3. /\ tombFile'[m] = Written(tombFile[m], m, Nth(1, at, o))
        /\ bodyFile'[m] = Written(bodyFile[m], None, Nth(2, at, o))
        /\ \A n \in Message \ {m} : tombFile'[n] = tombFile[n] /\ bodyFile'[n] = bodyFile[n]
    BY <1>1, <1>2 DEF HookBase, TInv, TypeOK, Reconciled
  <1>4. phase' \in {"down", "tombs"} /\ \A s \in Scope : committed'[s] = None
    BY <1>1, <1>2 DEF HookBase, BInv, RecoveryOrder
  <1>5. Marked'
    BY <1>2, <1>4 DEF HookBase, HookInv, Marked
  <1>6. o \in {"ok", "torn"}
    BY CrashOutcome DEF HookBase
  <1>7. ASSUME NEW n \in Message PROVE OnDisk(n)' /\ \A t \in Scope : MessageOf[t] = n => FilesAgree(t)'
    <2>1. CASE n # m \/ tombFile'[m] = Settled(m)
      <3>1. Untouched(n)
        BY <1>2, <1>3, <2>1 DEF Untouched
      <3> QED BY <3>1, UntouchedKeeps
    <2>2. CASE n = m /\ tombFile'[m] # Settled(m)
      <3>1. o = "torn" /\ at = 1
        BY <1>3, <1>6, <2>2, WrittenOk DEF Nth
      <3>2. bodyFile'[m] = bodyFile[m] /\ Standing(m)
        BY <1>3, <2>2, <3>1, WrittenSettled DEF Nth, Written, Standing
      <3>3. tombFile'[m].vis = m
        BY <1>3, <3>1 DEF Nth, Written
      <3>4. OnDisk(m)'
        <4>1. CASE bodyFile[m].vis = None
          BY <3>2, <3>3, <4>1, DeletedGone DEF HookBase, HookInv, OnDisk
        <4>2. CASE bodyFile[m].vis # None
          <5>1. PICK t \in Scope : /\ MessageOf[t] = m
                                   /\ \/ IntentHolds(t, bodyFile[m].vis)
                                      \/ CommitHolds(t, bodyFile[m].vis)
            BY <3>2, <4>2 DEF HookBase, HookInv, OnDisk
          <5>2. IntentHolds(t, bodyFile[m].vis)' \/ CommitHolds(t, bodyFile[m].vis)'
            BY <1>2, <3>2, <5>1 DEF IntentHolds, CommitHolds
          <5> QED BY <3>2, <3>3, <5>1, <5>2, DeletedGone DEF HookBase, HookInv, OnDisk
        <4> QED BY <4>1, <4>2
      <3>5. ASSUME NEW t \in Scope, MessageOf[t] = m PROVE FilesAgree(t)'
        BY <1>2, <3>2, <3>5 DEF HookBase, HookInv, FilesAgree
      <3> QED BY <2>2, <3>4, <3>5
    <2> QED BY <2>1, <2>2
  <1>8. \A t \in Scope : FilesAgree(t)'
    BY <1>7, HookFacts
  <1> QED BY <1>4, <1>5, <1>7, <1>8, TornH

LEMMA TombsRecoveredH == ASSUME HookBase, TombsRecovered PROVE HookInv'
  <1>1. /\ UNCHANGED <<tombFile, intentFile, commitFile, bodyFile, committed, deleted>>
        /\ phase = "tombs" /\ phase' = "commits"
        /\ todo' = {s \in Scope : commitFile[s].vis # None}
        /\ \A m \in Message : tombFile[m].vis # None => m \in deleted
    BY DEF TombsRecovered, disk, memory
  <1>2. Marked' /\ (\A n \in Message : OnDisk(n)') /\ \A t \in Scope : FilesAgree(t)'
    BY <1>1, QuietH
  <1>3. \A s \in Scope : committed[s] = None
    BY <1>1 DEF HookBase, BInv, RecoveryOrder
  <1>4. ASSUME NEW m \in Message, m \notin deleted PROVE tombFile[m] = Settled(None) /\ Standing(m)
    <2>1. tombFile[m] = Settled(None)
      BY <1>1, <1>4 DEF HookBase, HookInv, OnDisk
    <2> QED BY <2>1, DeletedGone DEF Standing
  <1>5. ASSUME NEW m \in Message PROVE Event(m)'
    <2> SUFFICES ASSUME m \notin deleted PROVE Event(m)'
      BY <1>1 DEF Event
    <2>1. tombFile[m] = Settled(None) /\ Standing(m)
      BY <1>4
    <2>2. CASE bodyFile[m].vis = None
      BY <1>1, <2>1, <2>2 DEF Event
    <2>3. CASE bodyFile[m].vis # None
      <3>1. PICK t \in Scope : /\ MessageOf[t] = m
                               /\ \/ IntentHolds(t, bodyFile[m].vis)
                                  \/ CommitHolds(t, bodyFile[m].vis)
        BY <2>1, <2>3 DEF HookBase, HookInv, OnDisk
      <3>2. CASE IntentHolds(t, bodyFile[m].vis)
        <4>1. IntentHolds(t, bodyFile[m].vis)'
          BY <1>1, <3>2 DEF IntentHolds
        <4> QED BY <1>1, <2>1, <3>1, <4>1 DEF Event
      <3>3. CASE CommitHolds(t, bodyFile[m].vis)
        <4>1. CommitHolds(t, bodyFile[m].vis)' /\ t \in todo'
          BY <1>1, <3>3 DEF CommitHolds, Contents
        <4> QED BY <1>1, <2>1, <3>1, <4>1 DEF Event
      <3> QED BY <3>1, <3>2, <3>3
    <2> QED BY <2>2, <2>3
  <1>6. ASSUME NEW s \in Scope PROVE Known(s)'
    <2>1. CASE commitFile[s].vis = None /\ MessageOf[s] \notin deleted
      <3>1. commitFile[s] = Settled(None)
        BY <1>4, <2>1, HookFacts DEF HookBase, HookInv, FilesAgree
      <3> QED BY <1>1, <1>3, <3>1 DEF Known
    <2>2. CASE commitFile[s].vis # None \/ MessageOf[s] \in deleted
      BY <1>1, <1>3, <2>2 DEF Known
    <2> QED BY <2>1, <2>2
  <1>7. JobFresh'
    BY <1>1 DEF JobFresh
  <1> QED BY <1>2, <1>5, <1>6, <1>7 DEF HookInv

(* The archive of what is not deleted needs no new barrier.                 *)
LEMMA ReconcileNothing ==
    ASSUME HookBase, NEW s \in Scope, NEW rec, NEW o, ReconcileBody(s, rec, o),
           rec.disp \in Visible => bodyFile[MessageOf[s]] = Settled(rec.stored)
    PROVE  bodyFile' = bodyFile
  <1>1. CASE rec.disp \in Visible
    <2>1. Reconciled(bodyFile[MessageOf[s]], o) = bodyFile[MessageOf[s]]
      BY <1>1, WrittenSettled, SettledHolds DEF Reconciled
    <2> QED BY <1>1, <2>1 DEF ReconcileBody, HookBase, TInv, TypeOK
  <1> QED BY <1>1 DEF ReconcileBody

LEMMA RecoverCommitH ==
    ASSUME HookBase, NEW s \in Scope, RecoverCommit(s) PROVE HookInv'
  <1>. PICK m \in Message, commit \in Commit : m = MessageOf[s] /\ commit = commitFile[s].vis
    BY HookFacts DEF RecoverCommit, HookBase, TInv, LocalsOK
  <1>1. /\ UNCHANGED <<tombFile, intentFile, deleted, job>> /\ phase = "commits" /\ s \in todo
        /\ todo' = todo \ {s} /\ committed[s] = None /\ commit # None
        /\ commit \in Contents(commitFile[s])
    BY NoneAssumption DEF RecoverCommit, HookBase, SInv, Visits, Contents
  <1>2. Running /\ (m \in deleted <=> tombFile[m] = Settled(m))
    BY <1>1, RunningDeleted DEF Running
  <1>3. m \notin deleted =>
          /\ commit.rec.disp \in Visible /\ bodyFile[m] = Settled(commit.rec.stored)
          /\ ValidBody(s, commit.rec)
    <2> SUFFICES ASSUME m \notin deleted
                 PROVE  /\ commit.rec.disp \in Visible /\ bodyFile[m] = Settled(commit.rec.stored)
                        /\ ValidBody(s, commit.rec)
      OBVIOUS
    <2>1. commit.rec.disp \in Visible /\ bodyFile[m] = Settled(commit.rec.stored)
      BY <1>1, <1>2 DEF HookBase, HookInv, FilesAgree, Standing
    <2> QED BY <2>1, SettledHolds DEF ValidBody
  (* The files and the receipt of this scope, however the step ends.        *)
  <1>4. /\ m \notin deleted => bodyFile' = bodyFile
        /\ \A n \in Message \ {m} : bodyFile'[n] = bodyFile[n]
        /\ \A t \in Scope \ {s} : commitFile'[t] = commitFile[t] /\ committed'[t] = committed[t]
        /\ Contents(commitFile'[s]) \subseteq Contents(commitFile[s])
        /\ commitFile'[s].vis = commit
        /\ \/ phase' = "commits" /\ committed'[s] = commit /\ commitFile'[s] = Settled(commit)
           \/ phase' = "commits" /\ m \in deleted /\ committed'[s] = None
           \/ phase' = "torn" /\ committed'[s] = None
    <2>1. CASE ~ValidBody(s, commit.rec)
      BY <1>1, <1>3, <2>1 DEF RecoverCommit
    <2>2. CASE ValidBody(s, commit.rec)
      <3>1. PICK o \in Outcome, at \in 1 .. 2 :
              /\ ReconcileBody(s, commit.rec, Nth(1, at, o))
              /\ commitFile' = [commitFile EXCEPT ![s] = Reconciled(@, Nth(2, at, o))]
              /\ committed' = IF o = "ok" THEN [committed EXCEPT ![s] = commit] ELSE committed
              /\ Continue(o)
        BY <2>2 DEF RecoverCommit
      <3>2. m \notin deleted => bodyFile' = bodyFile
        BY <1>3, <3>1, ReconcileNothing
      <3>3. \A n \in Message \ {m} : bodyFile'[n] = bodyFile[n]
        BY <3>1 DEF ReconcileBody, HookBase, TInv, TypeOK
      <3>4. /\ commitFile'[s] = Written(commitFile[s], commit, Nth(2, at, o))
            /\ \A t \in Scope \ {s} : commitFile'[t] = commitFile[t] /\ committed'[t] = committed[t]
            /\ committed'[s] = IF o = "ok" THEN commit ELSE committed[s]
        BY <3>1 DEF HookBase, TInv, TypeOK, Reconciled
      <3>5. o \in {"ok", "torn"} /\ (o = "ok" => phase' = "commits") /\ (o = "torn" => phase' = "torn")
        BY <1>1, <3>1, CrashOutcome DEF Continue, HookBase
      <3>6. Contents(commitFile'[s]) \subseteq Contents(commitFile[s]) /\ commitFile'[s].vis = commit
        BY <1>1, <3>4 DEF Written, Contents, Settled
      <3>7. o = "ok" => commitFile'[s] = Settled(commit)
        BY <3>4, WrittenOk DEF Nth
      <3> QED BY <1>1, <3>2, <3>3, <3>4, <3>5, <3>6, <3>7
    <2> QED BY <2>1, <2>2
  <1>5. Marked'
    BY <1>1, <1>4 DEF HookBase, HookInv, Marked
  <1>6. ASSUME NEW n \in Message PROVE OnDisk(n)' /\ \A t \in Scope : MessageOf[t] = n => FilesAgree(t)'
    <2>1. CASE n # m \/ m \in deleted
      <3>1. Untouched(n)
        BY <1>1, <1>2, <1>4, <2>1 DEF Untouched
      <3> QED BY <3>1, UntouchedKeeps
    <2>2. CASE n = m /\ m \notin deleted
      <3>1. bodyFile' = bodyFile /\ Standing(m)
        BY <1>2, <1>4, <2>2 DEF Standing
      <3>2. OnDisk(m)'
        <4>1. CASE bodyFile[m].vis = None
          BY <1>1, <3>1, <4>1 DEF HookBase, HookInv, OnDisk
        <4>2. CASE bodyFile[m].vis # None
          <5>1. PICK t \in Scope : /\ MessageOf[t] = m
                                   /\ \/ IntentHolds(t, bodyFile[m].vis)
                                      \/ CommitHolds(t, bodyFile[m].vis)
            BY <3>1, <4>2 DEF HookBase, HookInv, OnDisk
          <5>2. Contents(commitFile'[t]) \subseteq Contents(commitFile[t])
            BY <1>4
          <5>3. IntentHolds(t, bodyFile[m].vis)' \/ CommitHolds(t, bodyFile[m].vis)'
            BY <1>1, <3>1, <5>1, <5>2 DEF IntentHolds, CommitHolds
          <5> QED BY <1>1, <3>1, <5>1, <5>3 DEF HookBase, HookInv, OnDisk
        <4> QED BY <4>1, <4>2
      <3>3. ASSUME NEW t \in Scope, MessageOf[t] = m PROVE FilesAgree(t)'
        <4>1. CASE t = s
          BY <1>1, <1>4, <3>1, <4>1 DEF HookBase, HookInv, FilesAgree, Standing
        <4>2. CASE t # s
          BY <1>1, <1>4, <3>1, <4>2 DEF HookBase, HookInv, FilesAgree, Standing
        <4> QED BY <4>1, <4>2
      <3> QED BY <2>2, <3>2, <3>3
    <2> QED BY <2>1, <2>2
  <1>7. \A t \in Scope : FilesAgree(t)'
    BY <1>6, HookFacts
  <1>8. CASE phase' = "torn"
    BY <1>5, <1>6, <1>7, <1>8, TornH
  <1>9. CASE phase' = "commits"
    <2>1. ASSUME NEW n \in Message PROVE Event(n)'
      <3> SUFFICES ASSUME n \notin deleted PROVE Event(n)'
        BY <1>1 DEF Event
      <3>1. tombFile[n] = Settled(None) /\ bodyFile'[n] = bodyFile[n]
        BY <1>2, <1>4 DEF HookBase, HookInv, Event
      <3>2. CASE bodyFile[n].vis = None
        BY <1>1, <3>1, <3>2 DEF Event
      <3>3. CASE bodyFile[n].vis # None
        <4>1. PICK t \in Scope : /\ MessageOf[t] = n
                                 /\ \/ HasEvent(t)
                                    \/ CommitHolds(t, bodyFile[n].vis) /\ t \in todo
                                    \/ IntentHolds(t, bodyFile[n].vis)
          BY <1>1, <1>2, <3>3 DEF HookBase, HookInv, Event
        <4>2. CASE HasEvent(t)
          <5>1. HasEvent(t)'
            BY <1>1, <1>4, <4>2 DEF HasEvent
          <5> QED BY <1>1, <3>1, <4>1, <5>1 DEF Event
        <4>3. CASE IntentHolds(t, bodyFile[n].vis)
          <5>1. IntentHolds(t, bodyFile[n].vis)'
            BY <1>1, <3>1, <4>3 DEF IntentHolds
          <5> QED BY <1>1, <1>9, <3>1, <4>1, <5>1 DEF Event
        <4>4. CASE CommitHolds(t, bodyFile[n].vis) /\ t \in todo
          <5>1. CASE t = s
            <6>1. HasEvent(t)'
              BY <1>1, <1>4, <1>9, <4>1, <4>4, <5>1 DEF HasEvent, CommitHolds
            <6> QED BY <1>1, <3>1, <4>1, <6>1 DEF Event
          <5>2. CASE t # s
            <6>1. CommitHolds(t, bodyFile[n].vis)' /\ t \in todo'
              BY <1>1, <1>4, <3>1, <4>4, <5>2 DEF CommitHolds
            <6> QED BY <1>1, <1>9, <3>1, <4>1, <6>1 DEF Event
          <5> QED BY <5>1, <5>2
        <4> QED BY <4>1, <4>2, <4>3, <4>4
      <3> QED BY <3>2, <3>3
    <2>2. ASSUME NEW t \in Scope PROVE Known(t)'
      <3>1. CASE t = s
        BY <1>1, <1>4, <1>9, <3>1 DEF Known
      <3>2. CASE t # s
        BY <1>1, <1>2, <1>4, <1>9, <3>2 DEF HookBase, HookInv, Known
      <3> QED BY <3>1, <3>2
    <2>3. JobFresh'
      BY <1>9 DEF JobFresh
    <2> QED BY <1>5, <1>6, <1>7, <2>1, <2>2, <2>3 DEF HookInv
  <1> QED BY <1>4, <1>8, <1>9

LEMMA CommitsRecoveredH == ASSUME HookBase, CommitsRecovered PROVE HookInv'
  <1>1. /\ UNCHANGED <<tombFile, intentFile, commitFile, bodyFile, committed, deleted>>
        /\ phase = "commits" /\ phase' = "intents" /\ todo = {}
        /\ todo' = {s \in Scope : intentFile[s].vis # None}
    BY DEF CommitsRecovered, disk, memory
  <1>2. Marked' /\ (\A n \in Message : OnDisk(n)') /\ \A t \in Scope : FilesAgree(t)'
    BY <1>1, QuietH
  <1>3. Running
    BY <1>1 DEF Running
  <1>4. ASSUME NEW m \in Message PROVE Event(m)'
    <2> SUFFICES ASSUME m \notin deleted PROVE Event(m)'
      BY <1>1 DEF Event
    <2>1. tombFile[m] = Settled(None)
      BY <1>3 DEF HookBase, HookInv, Event
    <2>2. CASE bodyFile[m].vis = None
      BY <1>1, <2>1, <2>2 DEF Event
    <2>3. CASE bodyFile[m].vis # None
      <3>1. PICK t \in Scope : MessageOf[t] = m /\ (HasEvent(t) \/ IntentHolds(t, bodyFile[m].vis))
        BY <1>1, <1>3, <2>3 DEF HookBase, HookInv, Event
      <3>2. CASE HasEvent(t)
        <4>1. HasEvent(t)'
          BY <1>1, <3>2 DEF HasEvent
        <4> QED BY <1>1, <2>1, <3>1, <4>1 DEF Event
      <3>3. CASE IntentHolds(t, bodyFile[m].vis)
        <4>1. IntentHolds(t, bodyFile[m].vis)' /\ t \in todo'
          BY <1>1, <3>3 DEF IntentHolds
        <4> QED BY <1>1, <2>1, <3>1, <4>1 DEF Event
      <3> QED BY <3>1, <3>2, <3>3
    <2> QED BY <2>2, <2>3
  <1>5. ASSUME NEW s \in Scope PROVE Known(s)'
    BY <1>1, <1>3 DEF HookBase, HookInv, Known
  <1>6. JobFresh'
    BY <1>1 DEF JobFresh
  <1> QED BY <1>2, <1>4, <1>5, <1>6 DEF HookInv

LEMMA RecoveredH == ASSUME HookBase, Recovered PROVE HookInv'
  <1>1. /\ UNCHANGED <<tombFile, intentFile, commitFile, bodyFile, committed, deleted>>
        /\ phase = "intents" /\ phase' = "idle" /\ todo = {}
    BY DEF Recovered, disk, memory
  <1>2. Marked' /\ (\A n \in Message : OnDisk(n)') /\ \A t \in Scope : FilesAgree(t)'
    BY <1>1, QuietH
  <1>3. Running
    BY <1>1 DEF Running
  <1>4. ASSUME NEW m \in Message PROVE Event(m)'
    <2> SUFFICES ASSUME m \notin deleted PROVE Event(m)'
      BY <1>1 DEF Event
    <2>1. tombFile[m] = Settled(None)
      BY <1>3 DEF HookBase, HookInv, Event
    <2>2. CASE bodyFile[m].vis = None
      BY <1>1, <2>1, <2>2 DEF Event
    <2>3. CASE bodyFile[m].vis # None
      <3>1. PICK t \in Scope : MessageOf[t] = m /\ HasEvent(t)
        BY <1>1, <1>3, <2>3 DEF HookBase, HookInv, Event
      <3>2. HasEvent(t)'
        BY <1>1, <3>1 DEF HasEvent
      <3> QED BY <1>1, <2>1, <3>1, <3>2 DEF Event
    <2> QED BY <2>2, <2>3
  <1>5. ASSUME NEW s \in Scope PROVE Known(s)'
    BY <1>1, <1>3 DEF HookBase, HookInv, Known
  <1>6. JobFresh'
    BY <1>1 DEF JobFresh
  <1> QED BY <1>2, <1>4, <1>5, <1>6 DEF HookInv

(* A file that may only be what it reads back stays so when that is written *)
(* again.                                                                   *)
LEMMA WrittenSame ==
    ASSUME NEW f, NEW o
    PROVE  LET g == Written(f, f.vis, o)
           IN  /\ g.vis = f.vis /\ g.may \subseteq f.may \cup {f.vis}
               /\ f.may = {f.vis} => g.may = {g.vis}
               /\ o = "ok" => g = Settled(f.vis)
  BY DEF Written, Settled

LEMMA NthOutcomes ==
    ASSUME NEW o \in {"ok", "torn"}, NEW at \in 1 .. 3
    PROVE  /\ o = "ok" => Nth(1, at, o) = "ok" /\ Nth(2, at, o) = "ok" /\ Nth(3, at, o) = "ok"
           /\ Nth(3, at, o) # "skipped" => Nth(1, at, o) = "ok" /\ Nth(2, at, o) = "ok"
           /\ Nth(3, at, o) \in {"ok", "torn", "skipped"}
  BY DEF Nth

(* What the recovery of one intent does when it finds it valid: o1, o2, o3  *)
(* are how the three durable calls end.                                     *)
Publishes(s, m, intent, new, o1, o2, o3) ==
    /\ bodyFile'[m] = bodyFile[m] \/ bodyFile'[m] = Written(bodyFile[m], bodyFile[m].vis, o1)
    /\ m \notin deleted => bodyFile'[m] = Written(bodyFile[m], bodyFile[m].vis, o1)
    /\ \A n \in Message \ {m} : bodyFile'[n] = bodyFile[n]
    /\ intentFile'[s] = Written(intentFile[s], intentFile[s].vis, o2)
    /\ commitFile'[s] = Written(commitFile[s], new, o3)
    /\ \A t \in Scope \ {s} : /\ intentFile'[t] = intentFile[t] /\ commitFile'[t] = commitFile[t]
                              /\ committed'[t] = committed[t]
    /\ o3 # "skipped" => o1 = "ok" /\ o2 = "ok"
    /\ o3 \in {"ok", "torn", "skipped"}
    /\ \/ phase' = "intents" /\ o3 = "ok" /\ committed'[s] = new
       \/ phase' = "torn" /\ committed'[s] = committed[s]

LEMMA PublishesFiles ==
    ASSUME HookBase, phase = "intents", NEW s \in Scope, NEW m \in Message, NEW intent \in Intent, NEW new \in Commit,
           NEW o1, NEW o2, NEW o3, Publishes(s, m, intent, new, o1, o2, o3),
           UNCHANGED <<tombFile, deleted>>, m = MessageOf[s], intent = intentFile[s].vis,
           new = Published(intent), ValidBody(s, intent.rec)
    PROVE  Marked' /\ (\A n \in Message : OnDisk(n)') /\ \A t \in Scope : FilesAgree(t)'
  <1>1. Running /\ (m \in deleted <=> tombFile[m] = Settled(m))
    BY RunningDeleted DEF Running
  <1>2. /\ new.rec = intent.rec /\ new.hook = intent.hook /\ new # None /\ intent # None
        /\ intent \in Contents(intentFile[s])
    BY NoneAssumption DEF Published, Contents
  <1>3. /\ Contents(intentFile'[s]) \subseteq Contents(intentFile[s])
        /\ Contents(commitFile'[s]) \subseteq Contents(commitFile[s]) \cup {new}
        /\ o3 = "skipped" => commitFile'[s] = commitFile[s]
        /\ o3 # "skipped" => commitFile'[s].vis = new
    BY DEF Publishes, Written, Contents, Settled
  <1>4. intentFile'[s].vis = intent /\ (intentFile[s].may = {intent} => intentFile'[s].may = {intent})
    <2>1. /\ Written(intentFile[s], intentFile[s].vis, o2).vis = intentFile[s].vis
          /\ intentFile[s].may = {intentFile[s].vis} =>
               Written(intentFile[s], intentFile[s].vis, o2).may = {intentFile[s].vis}
      BY DEF Written, Settled
    <2> QED BY <2>1 DEF Publishes
  <1>5. Marked'
    <2>1. MarkedRec(new)
      BY <1>2 DEF HookBase, HookInv, Marked, MarkedRec
    <2>2. phase' \notin {"intent", "body", "commit"}
      BY DEF Publishes
    <2>3. ASSUME NEW t \in Scope
          PROVE  /\ \A i \in Contents(intentFile'[t]) \ {None} : MarkedRec(i)
                 /\ \A c \in Contents(commitFile'[t]) \ {None} : MarkedRec(c)
                 /\ committed'[t] # None => MarkedRec(committed'[t])
      <3>1. CASE t = s
        BY <1>3, <2>1, <3>1 DEF Publishes, HookBase, HookInv, Marked
      <3>2. CASE t # s
        BY <3>2 DEF Publishes, HookBase, HookInv, Marked
      <3> QED BY <3>1, <3>2
    <2> QED BY <2>2, <2>3 DEF Marked
  <1>6. ASSUME NEW n \in Message PROVE OnDisk(n)' /\ \A t \in Scope : MessageOf[t] = n => FilesAgree(t)'
    <2>1. CASE n # m \/ m \in deleted
      <3>1. Untouched(n)
        BY <1>1, <2>1 DEF Untouched, Publishes
      <3> QED BY <3>1, UntouchedKeeps
    <2>2. CASE n = m /\ m \notin deleted
      <3>1. Standing(m) /\ intent.rec.disp \in Visible
        BY <1>1, <1>2, <2>2 DEF Standing, HookBase, HookInv, FilesAgree
      <3>2. bodyFile[m].vis = intent.rec.stored /\ intent.rec.stored # None
        BY <3>1, MessageAssumption DEF ValidBody, Intent, Record, Visible, Invisible
      <3>3. /\ bodyFile'[m].vis = bodyFile[m].vis
            /\ bodyFile'[m].may \subseteq bodyFile[m].may \cup {bodyFile[m].vis}
            /\ o1 = "ok" => bodyFile'[m] = Settled(intent.rec.stored)
        <4>1. bodyFile'[m] = Written(bodyFile[m], bodyFile[m].vis, o1)
          BY <2>2 DEF Publishes
        <4>2. bodyFile[m].vis = intent.rec.stored
          BY <3>2
        <4>3. /\ Written(bodyFile[m], bodyFile[m].vis, o1).vis = bodyFile[m].vis
              /\ Written(bodyFile[m], bodyFile[m].vis, o1).may \subseteq bodyFile[m].may \cup {bodyFile[m].vis}
              /\ o1 = "ok" => Written(bodyFile[m], bodyFile[m].vis, o1) = Settled(bodyFile[m].vis)
          BY WrittenSame
        <4> QED BY <4>1, <4>2, <4>3
      <3>4. ASSUME NEW t \in Scope, MessageOf[t] = m, NEW c \in Contents(commitFile[t]), c # None
            PROVE  /\ c.rec.disp \in Visible /\ bodyFile[m] = Settled(c.rec.stored)
                   /\ bodyFile'[m] = bodyFile[m]
                   /\ intentFile[t].may = {intentFile[t].vis} /\ intentFile[t].vis # None
                   /\ intentFile[t].vis.rec = c.rec
        <4>1. /\ c.rec.disp \in Visible /\ bodyFile[m] = Settled(c.rec.stored)
              /\ intentFile[t].may = {intentFile[t].vis} /\ intentFile[t].vis # None
              /\ intentFile[t].vis.rec = c.rec
          BY <3>1, <3>4 DEF HookBase, HookInv, FilesAgree
        <4>2. bodyFile'[m] = bodyFile[m]
          <5>1. bodyFile'[m] = Written(bodyFile[m], bodyFile[m].vis, o1)
            BY <2>2 DEF Publishes
          <5> QED BY <4>1, <5>1, WrittenSettled, SettledHolds
        <4> QED BY <4>1, <4>2
      <3>5. OnDisk(m)'
        <4>1. PICK t \in Scope : /\ MessageOf[t] = m
                                 /\ \/ IntentHolds(t, bodyFile[m].vis)
                                    \/ CommitHolds(t, bodyFile[m].vis)
          BY <3>1, <3>2 DEF HookBase, HookInv, OnDisk
        <4>2. IntentHolds(t, bodyFile[m].vis)' \/ CommitHolds(t, bodyFile[m].vis)'
          <5>1. CASE t # s
            BY <3>3, <4>1, <5>1 DEF Publishes, IntentHolds, CommitHolds
          <5>2. CASE t = s /\ IntentHolds(s, bodyFile[m].vis)
            BY <1>2, <1>4, <3>3, <5>2 DEF IntentHolds
          <5>3. CASE t = s /\ CommitHolds(s, bodyFile[m].vis)
            <6>1. PICK c \in Contents(commitFile[s]) : c = commitFile[s].vis
              BY DEF Contents
            <6>2. c # None /\ c.rec.disp = "Committed" /\ c.rec.stored = bodyFile[m].vis
              BY <5>3 DEF CommitHolds
            <6>3. new.rec = c.rec
              BY <1>2, <3>4, <6>2
            <6> QED BY <1>2, <1>3, <3>3, <5>3, <6>2, <6>3 DEF CommitHolds
          <5> QED BY <4>1, <5>1, <5>2, <5>3
        <4>3. bodyFile'[m].may \subseteq {None, bodyFile'[m].vis}
          BY <3>1, <3>3 DEF HookBase, HookInv, OnDisk
        <4>4. tombFile[m] = Settled(None)
          BY <1>1, <2>2 DEF HookBase, HookInv, Event
        <4> QED BY <3>3, <4>1, <4>2, <4>3, <4>4 DEF OnDisk
      <3>6. ASSUME NEW t \in Scope, MessageOf[t] = m, t # s PROVE FilesAgree(t)'
        <4>1. /\ \A i \in Contents(intentFile[t]) \ {None} : i.rec.disp \in Visible
              /\ commitFile[t].vis = None => commitFile[t] = Settled(None)
          BY <3>1, <3>6 DEF HookBase, HookInv, FilesAgree
        <4>2. intentFile'[t] = intentFile[t] /\ commitFile'[t] = commitFile[t]
          BY <3>6 DEF Publishes
        <4> QED BY <3>4, <3>6, <4>1, <4>2 DEF FilesAgree
      <3>7. FilesAgree(s)'
        <4>1. /\ \A i \in Contents(intentFile[s]) \ {None} : i.rec.disp \in Visible
              /\ commitFile[s].vis = None => commitFile[s] = Settled(None)
          BY <3>1 DEF HookBase, HookInv, FilesAgree
        <4>2. ASSUME NEW c \in Contents(commitFile'[s]), c # None
              PROVE  /\ c.rec.disp \in Visible /\ bodyFile'[m] = Settled(c.rec.stored)
                     /\ intentFile'[s].may = {intentFile'[s].vis} /\ intentFile'[s].vis # None
                     /\ intentFile'[s].vis.rec = c.rec
          <5>1. CASE c \in Contents(commitFile[s])
            BY <1>2, <1>4, <3>4, <4>2, <5>1
          <5>2. CASE c \notin Contents(commitFile[s])
            <6>1. c = new /\ o3 # "skipped"
              BY <1>3, <4>2, <5>2
            <6>2. o1 = "ok" /\ o2 = "ok"
              BY <6>1 DEF Publishes
            <6>3. intentFile'[s].may = {intentFile'[s].vis}
              BY <6>2, WrittenOk, SettledHolds DEF Publishes
            <6> QED BY <1>2, <1>4, <3>1, <3>3, <6>1, <6>2, <6>3
          <5> QED BY <5>1, <5>2
        <4>3. commitFile'[s].vis = None => commitFile'[s] = Settled(None)
          BY <1>2, <1>3, <4>1
        <4> QED BY <1>3, <4>1, <4>2, <4>3 DEF FilesAgree
      <3> QED BY <2>2, <3>5, <3>6, <3>7
    <2> QED BY <2>1, <2>2
  <1> QED BY <1>5, <1>6, HookFacts

LEMMA RecoverIntentH ==
    ASSUME HookBase, NEW s \in Scope, RecoverIntent(s) PROVE HookInv'
  <1>. PICK m \in Message, intent \in Intent, new \in Commit :
         m = MessageOf[s] /\ intent = intentFile[s].vis /\ new = Published(intent)
    BY HookFacts DEF RecoverIntent, HookBase, TInv, LocalsOK, Published, Intent, Commit
  <1>1. /\ UNCHANGED <<tombFile, deleted>> /\ phase = "intents" /\ s \in todo
        /\ todo' = todo \ {s} /\ intent # None /\ new # None
        /\ new.rec = intent.rec
    BY NoneAssumption DEF RecoverIntent, Published
  <1>2. Running /\ (m \in deleted <=> tombFile[m] = Settled(m))
    BY <1>1, RunningDeleted DEF Running
  <1>3. m \notin deleted => intent.rec.disp \in Visible
    BY <1>1, <1>2 DEF HookBase, HookInv, FilesAgree, Standing, Contents
  <1>4. m \notin deleted /\ committed[s] # None => committed[s].rec = intent.rec
    <2> SUFFICES ASSUME m \notin deleted, committed[s] # None
                 PROVE  committed[s].rec = intent.rec
      OBVIOUS
    <2>1. committed[s] \in Contents(commitFile[s])
      <3>1. commitFile[s] = Settled(committed[s])
        BY <1>1 DEF HookBase, HookInv, Known
      <3> QED BY <3>1 DEF Contents, Settled
    <2> QED BY <1>2, <2>1 DEF HookBase, HookInv, FilesAgree, Standing
  <1>5. CASE (committed[s] # None /\ committed[s].rec = intent.rec) \/ ~ValidBody(s, intent.rec)
    <2>1. UNCHANGED <<tombFile, intentFile, commitFile, bodyFile, committed, deleted, phase>>
      BY <1>1, <1>5 DEF RecoverIntent
    <2>2. Marked' /\ (\A n \in Message : OnDisk(n)') /\ \A t \in Scope : FilesAgree(t)'
      BY <1>1, <2>1, QuietH
    <2>3. ASSUME NEW n \in Message PROVE Event(n)'
      <3> SUFFICES ASSUME n \notin deleted PROVE Event(n)'
        BY <2>1 DEF Event
      <3>1. tombFile[n] = Settled(None)
        BY <1>2 DEF HookBase, HookInv, Event
      <3>2. CASE bodyFile[n].vis = None
        BY <2>1, <3>1, <3>2 DEF Event
      <3>3. CASE bodyFile[n].vis # None
        <4>1. PICK t \in Scope : /\ MessageOf[t] = n
                                 /\ HasEvent(t) \/ (IntentHolds(t, bodyFile[n].vis) /\ t \in todo)
          BY <1>1, <1>2, <3>3 DEF HookBase, HookInv, Event
        <4>2. CASE HasEvent(t)
          <5>1. HasEvent(t)'
            BY <2>1, <4>2 DEF HasEvent
          <5> QED BY <2>1, <3>1, <4>1, <5>1 DEF Event
        <4>3. CASE IntentHolds(t, bodyFile[n].vis) /\ t # s /\ t \in todo
          <5>1. IntentHolds(t, bodyFile[n].vis)' /\ t \in todo'
            BY <1>1, <2>1, <4>3 DEF IntentHolds
          <5> QED BY <1>1, <2>1, <3>1, <4>1, <5>1 DEF Event
        <4>4. CASE IntentHolds(s, bodyFile[n].vis) /\ t = s
          <5>1. intent.rec.disp = "Committed" /\ intent.rec.stored = bodyFile[n].vis /\ m = n
            BY <4>1, <4>4 DEF IntentHolds
          <5>2. ValidBody(s, intent.rec)
            BY <5>1 DEF ValidBody
          <5>3. HasEvent(s)'
            BY <1>5, <2>1, <5>1, <5>2 DEF HasEvent
          <5> QED BY <2>1, <3>1, <4>1, <4>4, <5>3 DEF Event
        <4> QED BY <4>1, <4>2, <4>3, <4>4
      <3> QED BY <3>2, <3>3
    <2>4. ASSUME NEW t \in Scope PROVE Known(t)'
      BY <1>1, <1>2, <2>1 DEF HookBase, HookInv, Known
    <2>5. JobFresh'
      BY <1>1, <2>1 DEF JobFresh
    <2> QED BY <2>2, <2>3, <2>4, <2>5 DEF HookInv
  <1>6. CASE ~(committed[s] # None /\ committed[s].rec = intent.rec) /\ ValidBody(s, intent.rec)
    <2>1. PICK o \in Outcome, at \in 1 .. 3 :
            /\ ReconcileBody(s, intent.rec, Nth(1, at, o))
            /\ intentFile' = [intentFile EXCEPT ![s] = Reconciled(@, Nth(2, at, o))]
            /\ commitFile' = [commitFile EXCEPT ![s] = Written(@, new, Nth(3, at, o))]
            /\ committed' = IF o = "ok" THEN [committed EXCEPT ![s] = new] ELSE committed
            /\ Continue(o)
      BY <1>6 DEF RecoverIntent
    <2>2. PICK o1, o2, o3 : o1 = Nth(1, at, o) /\ o2 = Nth(2, at, o) /\ o3 = Nth(3, at, o)
      OBVIOUS
    <2>3. o \in {"ok", "torn"} /\ (o = "ok" => phase' = "intents") /\ (o = "torn" => phase' = "torn")
      BY <1>1, <2>1, CrashOutcome DEF Continue, HookBase
    <2>4. /\ o = "ok" => o3 = "ok"
          /\ o3 # "skipped" => o1 = "ok" /\ o2 = "ok"
          /\ o3 \in {"ok", "torn", "skipped"}
      BY <2>2, <2>3, NthOutcomes
    <2>5. /\ bodyFile'[m] = bodyFile[m] \/ bodyFile'[m] = Written(bodyFile[m], bodyFile[m].vis, o1)
          /\ m \notin deleted => bodyFile'[m] = Written(bodyFile[m], bodyFile[m].vis, o1)
          /\ \A n \in Message \ {m} : bodyFile'[n] = bodyFile[n]
      BY <1>3, <2>1, <2>2 DEF ReconcileBody, Reconciled, HookBase, TInv, TypeOK
    <2>6. /\ intentFile'[s] = Written(intentFile[s], intentFile[s].vis, o2)
          /\ commitFile'[s] = Written(commitFile[s], new, o3)
          /\ \A t \in Scope \ {s} : /\ intentFile'[t] = intentFile[t] /\ commitFile'[t] = commitFile[t]
                                    /\ committed'[t] = committed[t]
          /\ committed'[s] = IF o = "ok" THEN new ELSE committed[s]
      BY <2>1, <2>2 DEF Reconciled, HookBase, TInv, TypeOK
    <2>7. Publishes(s, m, intent, new, o1, o2, o3)
      BY <2>3, <2>4, <2>5, <2>6 DEF Publishes
    <2>8. Marked' /\ (\A n \in Message : OnDisk(n)') /\ \A t \in Scope : FilesAgree(t)'
      BY <1>1, <1>6, <2>7, PublishesFiles
    <2>9. CASE phase' = "torn"
      BY <2>8, <2>9, TornH
    <2>10. CASE phase' = "intents"
      <3>1. o = "ok"
        BY <2>3, <2>10
      <3>2. committed'[s] = new /\ commitFile'[s] = Settled(new)
        BY <2>4, <2>6, <3>1, WrittenOk
      <3>3. m \notin deleted => bodyFile'[m].vis = bodyFile[m].vis
        <4>1. Written(bodyFile[m], bodyFile[m].vis, o1).vis = bodyFile[m].vis
          BY WrittenSame
        <4> QED BY <2>5, <4>1
      <3>4. ASSUME NEW n \in Message PROVE Event(n)'
        <4> SUFFICES ASSUME n \notin deleted PROVE Event(n)'
          BY <1>1 DEF Event
        <4>1. tombFile'[n] = Settled(None) /\ bodyFile'[n].vis = bodyFile[n].vis
          BY <1>1, <1>2, <2>5, <3>3 DEF HookBase, HookInv, Event
        <4>2. CASE bodyFile[n].vis = None
          BY <4>1, <4>2 DEF Event
        <4>3. CASE bodyFile[n].vis # None
          <5>1. PICK t \in Scope : /\ MessageOf[t] = n
                                   /\ HasEvent(t) \/ (IntentHolds(t, bodyFile[n].vis) /\ t \in todo)
            BY <1>1, <1>2, <4>3 DEF HookBase, HookInv, Event
          <5>2. CASE t = s
            <6>1. ~HasEvent(t)
              BY <1>4, <1>6, <5>1, <5>2 DEF HasEvent
            <6>2. intent.rec.disp = "Committed"
              BY <5>1, <5>2, <6>1 DEF IntentHolds
            <6>3. HasEvent(s)'
              BY <1>1, <3>2, <6>2 DEF HasEvent
            <6> QED BY <4>1, <5>1, <5>2, <6>3 DEF Event
          <5>3. CASE t # s /\ HasEvent(t)
            <6>1. HasEvent(t)'
              BY <2>6, <5>3 DEF HasEvent
            <6> QED BY <4>1, <5>1, <6>1 DEF Event
          <5>4. CASE t # s /\ IntentHolds(t, bodyFile[n].vis) /\ t \in todo
            <6>1. IntentHolds(t, bodyFile[n].vis)' /\ t \in todo'
              BY <1>1, <2>6, <4>1, <5>4 DEF IntentHolds
            <6> QED BY <2>10, <4>1, <5>1, <6>1 DEF Event
          <5> QED BY <5>1, <5>2, <5>3, <5>4
        <4> QED BY <4>2, <4>3
      <3>5. ASSUME NEW t \in Scope PROVE Known(t)'
        <4>1. CASE t = s
          BY <1>1, <3>2, <4>1 DEF Known
        <4>2. CASE t # s
          BY <1>1, <1>2, <2>6, <2>10, <4>2 DEF HookBase, HookInv, Known
        <4> QED BY <4>1, <4>2
      <3>6. JobFresh'
        BY <2>10 DEF JobFresh
      <3> QED BY <2>8, <3>4, <3>5, <3>6 DEF HookInv
    <2> QED BY <2>3, <2>9, <2>10
  <1> QED BY <1>5, <1>6

LEMMA HookNext == ASSUME HookBase, [Next]_vars PROVE HookInv'
  <1>1. HookInv
    BY DEF HookBase
  <1>2. CASE UNCHANGED <<disk, memory, control>>
    BY <1>1, <1>2, UnchangedH
  <1>3. CASE Commits
    BY <1>3, CommitAgainH, StartCommitH, WriteIntentH, WriteBodyH, WriteCommitH DEF Commits
  <1>4. CASE Deletes
    BY <1>4, StartDeleteH, DeleteIntentH, DeleteCommitH, DeleteBodyH DEF Deletes
  <1>5. CASE Maintains
    BY <1>5, StartMaintainH, PruneIntentH, PruneCommitH DEF Maintains
  <1>6. CASE Hooks
    BY <1>2, <1>6, CompleteHookH DEF Hooks, TakeHook, HookSucceeds, HookFails
  <1>7. CASE Crashes
    BY <1>7, KillH, PowerLossH DEF Crashes
  <1>8. CASE Recovers
    BY <1>8, OpenH, RecoverTombH, TombsRecoveredH, RecoverCommitH, CommitsRecoveredH,
       RecoverIntentH, RecoveredH DEF Recovers
  <1>9. CASE Tick
    BY <1>2, <1>9 DEF Tick
  <1>10. CASE UNCHANGED vars
    BY <1>2, <1>10 DEF vars
  <1> QED BY <1>3, <1>4, <1>5, <1>6, <1>7, <1>8, <1>9, <1>10 DEF Next

-----------------------------------------------------------------------------
(* The worker's task keeps its archive, however steps fail.                 *)
LEMMA TaskKeeps ==
    ASSUME TInv, TaskInv, hookTask' # None => hookTask # None /\ hookTask'.scope = hookTask.scope,
           deleteAsked \subseteq deleteAsked',
           \A m \in Message \ deleteAsked' : bodyFile[m].vis # None => bodyFile'[m].vis # None
    PROVE  TaskInv'
  <1>1. hookTask # None => MessageOf[hookTask.scope] \in Message
    BY MessageAssumption DEF TInv, TypeOK
  <1> QED BY <1>1 DEF TaskInv

LEMMA TaskQuiet ==
    ASSUME TInv, TaskInv, bodyFile' = bodyFile, deleteAsked \subseteq deleteAsked',
           hookTask' \in {None, hookTask}
    PROVE  TaskInv'
  BY TaskKeeps

(* Reading a body back does not take it away.                               *)
LEMMA TaskReconciled ==
    ASSUME TInv, TaskInv, hookTask' = hookTask, deleteAsked' = deleteAsked, NEW m \in Message, NEW o,
           bodyFile' = bodyFile \/ bodyFile' = [bodyFile EXCEPT ![m] = Reconciled(@, o)]
    PROVE  TaskInv'
  <1>1. ASSUME NEW n \in Message PROVE bodyFile'[n].vis = bodyFile[n].vis
    <2>1. Reconciled(bodyFile[m], o).vis = bodyFile[m].vis
      BY WrittenSame DEF Reconciled
    <2> QED BY <2>1 DEF TInv, TypeOK
  <1> QED BY <1>1, TaskKeeps

LEMMA TaskWritten ==
    ASSUME TInv, TaskInv, hookTask' = hookTask, deleteAsked' = deleteAsked, NEW m \in Message,
           NEW v, NEW o, bodyFile' = [bodyFile EXCEPT ![m] = Written(@, v, o)],
           v # None \/ m \in deleteAsked
    PROVE  TaskInv'
  <1>1. ASSUME NEW n \in Message, n \notin deleteAsked, bodyFile[n].vis # None
        PROVE  bodyFile'[n].vis # None
    <2>1. Written(bodyFile[m], v, o).vis \in {v, bodyFile[m].vis}
      BY DEF Written, Settled
    <2> QED BY <1>1, <2>1 DEF TInv, TypeOK
  <1> QED BY <1>1, TaskKeeps

LEMMA TaskNext == ASSUME TInv, BInv, AInv, TaskInv, [Next]_vars PROVE TaskInv'
  <1>1. CASE /\ UNCHANGED <<bodyFile, hookTask>>
             /\ deleteAsked' = deleteAsked \/ \E m \in Message : deleteAsked' = deleteAsked \cup {m}
    BY <1>1, TaskQuiet
  <1>2. CASE Commits
    <2>1. ASSUME NEW s \in Scope, NEW w \in Image, CommitAgain(s, w) PROVE TaskInv'
      BY <2>1, TaskReconciled, MessageAssumption DEF CommitAgain
    <2>2. CASE WriteBody
      <3>1. PICK m \in Message, w \in Image : m = MessageOf[job.scope] /\ w = job.rec.stored /\ w # None
        BY <2>2, MessageAssumption DEF WriteBody, TInv, LocalsOK, Job, Record, Visible, Invisible
      <3>2. PICK o \in Outcome : bodyFile' = [bodyFile EXCEPT ![m] = Written(@, w, o)]
        BY <2>2, <3>1 DEF WriteBody
      <3>3. UNCHANGED <<hookTask, deleteAsked>>
        BY <2>2 DEF WriteBody, asked
      <3>4. /\ hookTask' = hookTask /\ deleteAsked' = deleteAsked
            /\ bodyFile' = [bodyFile EXCEPT ![m] = Written(@, w, o)]
            /\ w # None \/ m \in deleteAsked
        BY <3>1, <3>2, <3>3
      <3> QED BY <3>4, TaskWritten, Zenon
    <2> QED BY <1>1, <1>2, <2>1, <2>2 DEF Commits, StartCommit, WriteIntent, WriteCommit, disk, asked
  <1>3. CASE Deletes
    <2>1. CASE DeleteBody
      <3>1. PICK o \in Outcome : bodyFile' = [bodyFile EXCEPT ![victim] = Written(@, None, o)]
        BY <2>1 DEF DeleteBody
      <3>2. victim \in Message /\ victim \in deleteAsked
        BY <2>1 DEF DeleteBody, TInv, LocalsOK, BInv, DeleteOrder, AInv, Tombs
      <3>3. UNCHANGED <<hookTask, deleteAsked>>
        BY <2>1 DEF DeleteBody
      <3> QED BY <3>1, <3>2, <3>3, TaskWritten
    <2> QED BY <1>1, <1>3, <2>1 DEF Deletes, StartDelete, DeleteIntent, DeleteCommit, asked
  <1>4. CASE Maintains
    BY <1>1, <1>4 DEF Maintains, StartMaintain, PruneIntent, PruneCommit, disk, asked
  <1>5. CASE Hooks
    <2>1. ASSUME NEW s \in Scope, TakeHook(s) PROVE TaskInv'
      <3> SUFFICES ASSUME MessageOf[s] \notin deleteAsked PROVE bodyFile[MessageOf[s]].vis # None
        BY <2>1 DEF TakeHook, disk, asked, TaskInv
      <3>1. committed[s] \in Commit /\ committed[s].rec.disp \in Visible
        BY <2>1 DEF TakeHook, Pending, TInv, TypeOK
      <3>2. MessageOf[s] \notin deleted
        BY MessageAssumption DEF AInv, Tombs
      <3>3. bodyFile[MessageOf[s]].vis = committed[s].rec.stored
        BY <3>1, <3>2, NoneAssumption, SettledHolds DEF BInv, ReceiptBacked
      <3> QED BY <3>1, <3>3 DEF Commit, Record, Visible, Invisible
    <2>2. CASE HookSucceeds
      <3>1. hookTask' # None => hookTask # None /\ hookTask'.scope = hookTask.scope
        BY <2>2 DEF HookSucceeds, TInv, TypeOK
      <3> QED BY <2>2, <3>1, TaskKeeps DEF HookSucceeds, disk
    <2>3. CASE HookFails
      BY <2>3, TaskQuiet DEF HookFails, disk, asked
    <2>4. CASE CompleteHook
      BY <2>4, TaskQuiet DEF CompleteHook, asked
    <2> QED BY <1>5, <2>1, <2>2, <2>3, <2>4 DEF Hooks
  <1>6. CASE Crashes
    BY <1>6 DEF Crashes, Kill, PowerLoss, Stopped, TaskInv
  <1>7. CASE Recovers
    <2>1. ASSUME NEW m \in Message, RecoverTomb(m) PROVE TaskInv'
      <3>1. PICK o \in Outcome, at \in 1 .. 2 :
              bodyFile' = [bodyFile EXCEPT ![m] = Written(@, None, Nth(2, at, o))]
        BY <2>1 DEF RecoverTomb
      <3>2. m \in deleteAsked
        BY <2>1, SettledHolds DEF RecoverTomb, AInv, Tombs
      <3>3. UNCHANGED <<hookTask, deleteAsked>>
        BY <2>1 DEF RecoverTomb, asked
      <3> QED BY <3>1, <3>2, <3>3, TaskWritten
    <2>2. ASSUME NEW s \in Scope, RecoverCommit(s) PROVE TaskInv'
      <3>1. UNCHANGED <<hookTask, deleteAsked>>
        BY <2>2 DEF RecoverCommit, asked
      <3>2. \E o : bodyFile' = bodyFile
                   \/ bodyFile' = [bodyFile EXCEPT ![MessageOf[s]] = Reconciled(@, o)]
        BY <2>2 DEF RecoverCommit, ReconcileBody
      <3> QED BY <3>1, <3>2, TaskReconciled, MessageAssumption
    <2>3. ASSUME NEW s \in Scope, RecoverIntent(s) PROVE TaskInv'
      <3>1. UNCHANGED <<hookTask, deleteAsked>>
        BY <2>3 DEF RecoverIntent, asked
      <3>2. \E o : bodyFile' = bodyFile
                   \/ bodyFile' = [bodyFile EXCEPT ![MessageOf[s]] = Reconciled(@, o)]
        BY <2>3 DEF RecoverIntent, ReconcileBody
      <3> QED BY <3>1, <3>2, TaskReconciled, MessageAssumption
    <2> QED BY <1>1, <1>7, <2>1, <2>2, <2>3 DEF Recovers, Open, TombsRecovered, CommitsRecovered,
            Recovered, disk, asked
  <1>8. CASE Tick
    BY <1>1, <1>8 DEF Tick, disk, asked
  <1>9. CASE UNCHANGED vars
    BY <1>1, <1>9 DEF vars, disk, asked
  <1> QED BY <1>2, <1>3, <1>4, <1>5, <1>6, <1>7, <1>8, <1>9 DEF Next

LEMMA TaskInit == Init => TaskInv
  BY DEF Init, TaskInv

LEMMA HookHolds == ASSUME HookBase, TaskInv PROVE HookHonoured
  <1>1. ASSUME Idle, RunHook, NEW s \in Scope, committed[s] # None,
               committed[s].rec.disp \in Visible, MessageOf[s] \notin deleted
        PROVE  \E t \in Scope : /\ MessageOf[t] = MessageOf[s]
                                /\ committed[t] # None /\ committed[t].hook
    <2>1. bodyFile[MessageOf[s]].vis = committed[s].rec.stored
      BY <1>1, SettledHolds DEF HookBase, BInv, ReceiptBacked
    <2>2. bodyFile[MessageOf[s]].vis # None /\ MessageOf[s] \in Message
      BY <1>1, <2>1, HookFacts DEF Commit, Record, Visible, Invisible
    <2>3. PICK t \in Scope : MessageOf[t] = MessageOf[s] /\ HasEvent(t)
      BY <1>1, <2>2 DEF HookBase, HookInv, Event, Running, Idle
    <2>4. committed[t].hook = RunHook
      BY <2>3 DEF HookBase, HookInv, Marked, MarkedRec, HasEvent
    <2> QED BY <1>1, <2>3, <2>4 DEF HasEvent
  <1>2. HookWithReceipt
    BY <1>1 DEF HookWithReceipt
  <1> QED BY <1>2 DEF HookHonoured, TaskInv

(* "One atomic logical commit publishes both the receipt and pending hook   *)
(* event" (admission_store.rs:28), where every write either succeeds or is  *)
(* cut by the end of the process and policy discards nothing: whenever the  *)
(* mutex is free, a receipted message has had its command run or has an     *)
(* event; and the command that lxmd starts finds the archive, unless its    *)
(* deletion was asked for.                                                  *)
THEOREM HooksSurviveCrashes == ASSUME CrashesOnly PROVE Spec => []HookHonoured
<1>1. Init => TInv /\ BInv /\ SInv /\ AInv /\ HookInv /\ TaskInv
  BY TInit, BInit, SInit, AInitial, HookInit, TaskInit
<1>2. TInv /\ BInv /\ SInv /\ AInv /\ HookInv /\ TaskInv /\ [Next]_vars
        => (TInv /\ BInv /\ SInv /\ AInv /\ HookInv /\ TaskInv)'
  BY TNext, BNext, SNext, ANextStep, HookNext, TaskNext DEF HookBase
<1>3. TInv /\ BInv /\ SInv /\ AInv /\ HookInv /\ TaskInv => HookHonoured
  BY HookHolds DEF HookBase
<1> QED
  BY <1>1, <1>2, <1>3, PTL DEF Spec
=============================================================================
