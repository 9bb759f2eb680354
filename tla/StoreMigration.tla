---------------------------- MODULE StoreMigration ----------------------------
(***************************************************************************)
(* The move of a relay store to format v2 and the import of old messages   *)
(* from its archive (crates/lxmf-core/src/propagation_store_v2/            *)
(* migration.rs, recovery.rs, offline.rs): the old directory is renamed to *)
(* a sibling, a file is put in its place and the new store is made, with a *)
(* journal written before every step.  A later run renews the archive by   *)
(* moving it to a third name and back.                                     *)
(*                                                                         *)
(* All commands and the host hold one lock, so only failures come between  *)
(* the steps: a write that fails, perhaps with its effect, the death of    *)
(* the process (a write that fails without) and a power loss.  A power     *)
(* loss keeps the changes of a directory up to some point in their order.  *)
(* Nothing else writes these paths, as the callers promise.                *)
(***************************************************************************)
EXTENDS Naturals, FiniteSets

CONSTANTS
    OldImage,           \* the images of messages in the old directory
    TidOf,              \* the message each is an image of
    Eligible,           \* those that pass validation: opaque, intact, well stamped
    Manifests,          \* what an operator may approve: sets of those images
    MaxRelayed,         \* maximum_store_bytes
    Gone,               \* the content of what is not there
    MaxMoves,           \* bound: renewals of the archive
    MaxStoreFaults,     \* bound: failed writes and power losses
    MaxCommands         \* bound: commands started

Relayed == {TidOf[w] : w \in OldImage}

(* The journal: had_legacy, phase, renewal (0 is none), renewal_sequence.   *)
Journal == [had: BOOLEAN, phase: 0 .. 4, renewal: 0 .. MaxMoves, sequence: 0 .. MaxMoves]

Legacy == <<"legacy">>
Archive == <<"archive">>
Renewal(n) == <<"renewal", n>>
Place == {Legacy, Archive} \cup {Renewal(n) : n \in 1 .. MaxMoves}

ASSUME MigrationAssumption ==
    /\ Eligible \subseteq OldImage /\ Manifests \subseteq SUBSET OldImage
    /\ IsFiniteSet(OldImage)
    /\ MaxRelayed \in Nat /\ MaxMoves \in Nat /\ MaxStoreFaults \in Nat /\ MaxCommands \in Nat
    /\ Gone \notin OldImage \cup Journal \cup Place \cup {"format", "guard"}

VARIABLES
    journal,            \* <store>.migration
    olddir,             \* where the directory of the old store is
    guardFile,          \* the regular file at the old path
    survivors,          \* what a power loss can leave of these three
    format,             \* <store>.v2, complete with its FORMAT
    active,             \* <store>.v2/objects: the image each index names
    command,            \* the command that runs, and what it holds
    hosting,            \* a daemon has the store open
    told,               \* how the last command ended
    reported,           \* history: what the last import reported as there
    commands, storeFaults

parent == <<journal, olddir, guardFile, survivors>>
migrationFiles == <<parent, format, active>>
migrationVars == <<migrationFiles, command, hosting, told, reported, commands, storeFaults>>

Store == INSTANCE DurableFile WITH None <- Gone

NoCommand == [kind |-> "none", at |-> "none", j |-> Gone]

Siblings == [journal |-> journal, olddir |-> olddir, guardFile |-> guardFile]

MigrationInit ==
    /\ journal = Gone /\ olddir \in {Legacy, Gone} /\ guardFile = Gone
    /\ survivors = {Siblings} /\ format = Store!Settled(Gone)
    /\ active = [t \in Relayed |-> Store!Settled(Gone)]
    /\ command = NoCommand /\ hosting = FALSE /\ told = "nothing"
    /\ reported = {} /\ commands = 0 /\ storeFaults = 0

-----------------------------------------------------------------------------
(* Writes.  After an error the command ends; `told` then says "failed".     *)

StepOutcomes ==
    {"ok"} \cup IF storeFaults < MaxStoreFaults THEN {"notCommitted", "uncertain"} ELSE {}

Continue(o, next) ==
    /\ storeFaults' = IF o = "ok" THEN storeFaults ELSE storeFaults + 1
    /\ command' = IF o = "ok" THEN next ELSE NoCommand
    /\ told' = IF o = "ok" THEN "nothing" ELSE "failed"

CommandEnds(answer) == command' = NoCommand /\ told' = answer

At(p) == command.at = p
GoesWith(p, j) == [kind |-> command.kind, at |-> p, j |-> j]
Goes(p) == GoesWith(p, command.j)

(* A change of the directory of the store, and its barrier.                 *)
Changed(old, new, o) == IF o = "notCommitted" THEN old ELSE new
Barrier(o) ==
    survivors' = IF o = "ok" THEN {Siblings'}
                 ELSE IF o = "uncertain" THEN survivors \cup {Siblings'} ELSE survivors

(* save, then the next step.                                                *)
SaveAs(j, next) ==
    \E o \in StepOutcomes :
        /\ journal' = Changed(journal, j, o)
        /\ Continue(o, GoesWith(next, j))
        /\ UNCHANGED <<olddir, guardFile>> /\ Barrier(o)
        /\ UNCHANGED <<format, active, hosting, reported, commands>>

(* durable_rename_directory, then the next step.                            *)
MoveTo(place, next) ==
    \E o \in StepOutcomes :
        /\ olddir' = Changed(olddir, place, o)
        /\ Continue(o, Goes(next))
        /\ UNCHANGED <<journal, guardFile>> /\ Barrier(o)
        /\ UNCHANGED <<format, active, hosting, reported, commands>>

-----------------------------------------------------------------------------
(* Commands.                                                                *)

Idle == command = NoCommand /\ ~hosting
Started(kind, at, j) ==
    /\ commands < MaxCommands /\ commands' = commands + 1
    /\ command' = [kind |-> kind, at |-> at, j |-> j]
    /\ told' = "nothing"
    /\ UNCHANGED <<migrationFiles, hosting, reported, storeFaults>>

FreshJournal(had) == [had |-> had, phase |-> 0, renewal |-> 0, sequence |-> 0]
There(content) == content # Gone

(* migrate_store_offline                                                    *)
StartMigration ==
    /\ Idle
    /\ IF There(journal) THEN Started("migrate", "run", journal)
       ELSE IF olddir = Archive \/ There(format.vis)
       THEN commands < MaxCommands /\ commands' = commands + 1 /\ CommandEnds("ambiguous")
            /\ UNCHANGED <<migrationFiles, hosting, reported, storeFaults>>
       ELSE Started("migrate", "begin", FreshJournal(olddir = Legacy))

(* verify_published: what the store must have, with its barriers renewed.   *)
Mut_StoreComplete(j) == j.phase = 4         \* with the archive under way
StoreComplete(j) == j.phase = 4 /\ j.renewal = 0
Published == guardFile = "guard" /\ format.vis = "format"
RenewPublished(o) ==
    /\ Published
    /\ UNCHANGED <<journal, olddir, guardFile>> /\ Barrier(o)
    /\ format' = IF o = "ok" THEN Store!Reconciled(format, o) ELSE format

(* open_store: a complete store, or the initialization of one that never    *)
(* was; everything else is for the operator.                                *)
OpenComplete ==
    /\ Idle /\ commands < MaxCommands /\ commands' = commands + 1
    /\ There(journal) /\ StoreComplete(journal)
    /\ \E o \in StepOutcomes :
         /\ RenewPublished(o) /\ Continue(o, NoCommand)
         /\ hosting' = (o = "ok")
    /\ UNCHANGED <<active, reported>>

OpenFresh ==
    /\ Idle /\ ~There(journal) /\ ~There(olddir) /\ ~There(guardFile) /\ ~There(format.vis)
    /\ Started("open", "begin", FreshJournal(FALSE))

Begin == At("begin") /\ SaveAs(command.j, "run")

-----------------------------------------------------------------------------
(* run: the directory to its archive.                                       *)

Ambiguous ==
    /\ CommandEnds("ambiguous")
    /\ UNCHANGED <<migrationFiles, hosting, reported, commands, storeFaults>>
Proceed(p, j) ==
    /\ command' = GoesWith(p, j)
    /\ UNCHANGED <<migrationFiles, hosting, told, reported, commands, storeFaults>>

(* verify_inventory: the whole of the old directory is in this place.       *)
Verified(place) == olddir = place

(* The next renewal is to a name that never was used.                       *)
NextRenewal(j) == [j EXCEPT !.renewal = j.sequence + 1, !.sequence = j.sequence + 1]
Settle(j) == [j EXCEPT !.renewal = 0]

FirstArchive ==
    LET j == command.j
    IN  /\ At("run") /\ j.had /\ Verified(Legacy)
        /\ IF j.phase # 0 \/ j.renewal # 0 THEN Ambiguous ELSE Proceed("moving", j)

Mut_RenewArchive ==                    \* an interrupted renewal is not taken back
    LET j == command.j
    IN  /\ At("run") /\ j.had /\ olddir # Legacy
        /\ IF Verified(Archive)
           THEN j.sequence < MaxMoves /\ Proceed("renewing", NextRenewal(j))
           ELSE Ambiguous

RenewArchive ==
    LET j == command.j
    IN  /\ At("run") /\ j.had /\ olddir # Legacy
        /\ IF j.renewal # 0 /\ Verified(Renewal(j.renewal)) THEN Proceed("returning", j)
           ELSE IF Verified(Archive)
           THEN j.sequence < MaxMoves /\ Proceed("renewing", NextRenewal(j))
           ELSE Ambiguous

NothingToArchive == At("run") /\ ~command.j.had /\ Proceed("archived", command.j)

SaveMove == At("moving") /\ SaveAs(command.j, "move")
Move == At("move") /\ MoveTo(Archive, "archived")
SaveRenewal == At("renewing") /\ SaveAs(command.j, "out")
MoveOut == At("out") /\ MoveTo(Renewal(command.j.renewal), "returning")
SaveReturn == At("returning") /\ SaveAs(command.j, "back")
MoveBack == At("back") /\ MoveTo(Archive, "settling")
SaveSettled == At("settling") /\ SaveAs(Settle(command.j), "archived")

-----------------------------------------------------------------------------
(* run: the guard at the old path, the new store, the phases.               *)

(* A phase that was reached before is not written again.                    *)
Reach(phase, next) ==
    IF command.j.phase < phase THEN SaveAs([command.j EXCEPT !.phase = phase], next)
    ELSE Proceed(next, command.j)

Archived == At("archived") /\ Reach(1, "guarding")

WriteGuard ==
    /\ At("guarding")
    /\ \E o \in StepOutcomes :
         /\ guardFile' = Changed(guardFile, "guard", o)
         /\ UNCHANGED <<journal, olddir>> /\ Barrier(o)
         /\ Continue(o, Goes("guarded"))
    /\ UNCHANGED <<format, active, hosting, reported, commands>>

Guarded == At("guarded") /\ Reach(2, "witness")
SaveWitness == At("witness") /\ SaveAs(command.j, "creating")

(* The directory and its subdirectory, then FORMAT.                         *)
Create ==
    /\ At("creating")
    /\ \E o \in StepOutcomes :
         /\ format' = Store!Written(format, "format", o)
         /\ IF o = "ok" THEN UNCHANGED <<journal, olddir, guardFile>> /\ Barrier(o)
            ELSE UNCHANGED parent
         /\ Continue(o, Goes("created"))
    /\ UNCHANGED <<active, hosting, reported, commands>>

Created == At("created") /\ Reach(3, "verifying")
Verify ==
    /\ At("verifying")
    /\ \E o \in StepOutcomes : RenewPublished(o) /\ Continue(o, Goes("publishing"))
    /\ UNCHANGED <<active, hosting, reported, commands>>

Publish ==
    /\ At("publishing")
    /\ \E o \in StepOutcomes :
         /\ journal' = Changed(journal, [command.j EXCEPT !.phase = 4], o)
         /\ UNCHANGED <<olddir, guardFile>> /\ Barrier(o)
         /\ storeFaults' = IF o = "ok" THEN storeFaults ELSE storeFaults + 1
         /\ CommandEnds(IF o = "ok" THEN "migrated" ELSE "failed")
         /\ hosting' = (o = "ok" /\ command.kind = "open")
    /\ UNCHANGED <<format, active, reported, commands>>

-----------------------------------------------------------------------------
(* import_trusted_recovery_manifest: everything is checked first, and what  *)
(* is missing is published one after the other.                             *)

Relays == {t \in Relayed : There(active[t].vis)}
Missing(approved) == {w \in approved : ~There(active[TidOf[w]].vis)}
Mut_Replaces(approved) == FALSE        \* another image counts as present
Replaces(approved) ==
    \E w \in approved : active[TidOf[w]].vis \notin {Gone, w}
Repeats(approved) == Cardinality({TidOf[w] : w \in approved}) < Cardinality(approved)

StartImport(approved) ==
    /\ Idle /\ commands < MaxCommands /\ commands' = commands + 1
    /\ There(journal) /\ StoreComplete(journal) /\ Verified(Archive)
    /\ approved \subseteq Eligible /\ ~Repeats(approved) /\ ~Replaces(approved)
    /\ \/ Missing(approved) = {}
       \/ Cardinality(Relays) + Cardinality(Missing(approved)) <= MaxRelayed
    /\ \E o \in StepOutcomes :
         /\ RenewPublished(o)
         /\ Continue(o, [kind |-> "import", at |-> "importing", j |-> Missing(approved)])
    /\ reported' = approved
    /\ UNCHANGED <<active, hosting>>

ImportOne(w) ==
    /\ At("importing") /\ w \in command.j
    /\ \E o \in StepOutcomes :
         /\ active' = [active EXCEPT ![TidOf[w]] = Store!Written(@, w, o)]
         /\ Continue(o, GoesWith("importing", command.j \ {w}))
    /\ UNCHANGED <<parent, format, hosting, reported, commands>>

ImportEnds ==
    /\ At("importing") /\ command.j = {}
    /\ CommandEnds("imported")
    /\ UNCHANGED <<migrationFiles, hosting, reported, commands, storeFaults>>

-----------------------------------------------------------------------------
(* The host admits and retires messages (RelayStore has the steps of it).   *)
HostStores(w) ==
    /\ hosting /\ ~There(active[TidOf[w]].vis)
    /\ active' = [active EXCEPT ![TidOf[w]] = Store!Settled(w)]
    /\ UNCHANGED <<parent, format, command, hosting, told, reported,
                   commands, storeFaults>>

HostRetires(t) ==
    /\ hosting /\ There(active[t].vis)
    /\ active' = [active EXCEPT ![t] = Store!Settled(Gone)]
    /\ UNCHANGED <<parent, format, command, hosting, told, reported,
                   commands, storeFaults>>

HostStops ==
    /\ hosting /\ hosting' = FALSE
    /\ UNCHANGED <<migrationFiles, command, told, reported, commands, storeFaults>>

Left(file) == {Store!Settled(v) : v \in file.may}
LosePower ==
    /\ storeFaults < MaxStoreFaults /\ storeFaults' = storeFaults + 1
    /\ \E s \in survivors :
         journal' = s.journal /\ olddir' = s.olddir /\ guardFile' = s.guardFile /\ survivors' = {s}
    /\ format' \in Left(format)
    /\ active' \in {a \in [Relayed -> UNION {Left(active[t]) : t \in Relayed}] :
                      \A t \in Relayed : a[t] \in Left(active[t])}
    /\ hosting' = FALSE /\ CommandEnds("failed")
    /\ UNCHANGED <<reported, commands>>

MigrationNext ==
    \/ StartMigration \/ OpenComplete \/ OpenFresh \/ Begin
    \/ FirstArchive \/ RenewArchive \/ NothingToArchive
    \/ SaveMove \/ Move
    \/ SaveRenewal \/ MoveOut \/ SaveReturn \/ MoveBack \/ SaveSettled
    \/ Archived \/ WriteGuard \/ Guarded \/ SaveWitness \/ Create \/ Created
    \/ Verify \/ Publish
    \/ \E approved \in Manifests : StartImport(approved)
    \/ \E w \in OldImage : ImportOne(w) \/ HostStores(w)
    \/ ImportEnds
    \/ \E t \in Relayed : HostRetires(t)
    \/ HostStops \/ LosePower

MigrationSpec == MigrationInit /\ [][MigrationNext]_migrationVars

-----------------------------------------------------------------------------
(* Properties.                                                              *)

(* What a command holds: the journal it writes, or the images it imports.   *)
CommandTypes ==
    /\ command = [kind |-> command.kind, at |-> command.at, j |-> command.j]
    /\ command.kind \in {"none", "migrate", "open", "import"}
    /\ command.kind = "none" => command = NoCommand
    /\ command.kind \in {"migrate", "open"} => command.j \in Journal /\ ~At("importing")
    /\ command.kind = "import" => command.j \subseteq OldImage /\ At("importing")

MigrationTypeOK ==
    /\ Siblings \in survivors
    /\ survivors \subseteq [journal: Journal \cup {Gone}, olddir: Place \cup {Gone},
                           guardFile: {"guard", Gone}]
    /\ format \in Store!File({"format"}) /\ active \in [Relayed -> Store!File(OldImage)]
    /\ CommandTypes
    /\ hosting \in BOOLEAN /\ reported \subseteq OldImage
    /\ told \in {"nothing", "failed", "migrated", "imported", "ambiguous"}
    /\ commands \in 0 .. MaxCommands /\ storeFaults \in 0 .. MaxStoreFaults

(* Whatever failed at whatever step, and whatever a power loss took, the    *)
(* same command goes on: it never meets a place of the directory that the   *)
(* journal does not explain ("Interrupted runs resume through the same      *)
(* command").                                                               *)
Resumable == told # "ambiguous"

(* A store is hosted only when the old path is guarded, the new store is    *)
(* complete and the old files are in their archive, all of it for good: no  *)
(* power loss brings an old daemon back to its directory.                   *)
For(file, v) == file.vis = v /\ file.may = {v}
HostedSafely ==
    hosting => /\ For(format, "format")
               /\ \A s \in survivors : s.guardFile = "guard" /\ s.olddir \in {Archive, Gone}

(* A reported import is true of every approved message, after any number of *)
(* attempts that failed half-way: its approved image is the one relayed.    *)
ImportAccounted == told = "imported" => \A w \in reported : active[TidOf[w]].vis = w
=============================================================================
