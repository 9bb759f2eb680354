--------------------------- MODULE DeliveryRatchet ---------------------------
(***************************************************************************)
(* The ratchets of an LXMF delivery destination                            *)
(* (crates/lxmf-core/src/delivery_ratchet.rs): the ring of private keys    *)
(* that incoming messages are decrypted with, the control record that      *)
(* orders announces, and the announces that tell the network which ratchet *)
(* to encrypt to.                                                          *)
(*                                                                         *)
(* The state belongs to lxmd's loop and every operation takes &mut self,   *)
(* so each is one step, with the outcomes of its two writes as inputs.  A  *)
(* process that dies inside an operation is the outcome "torn" of a write  *)
(* or "killed" before it; a kill between operations, a power loss and a    *)
(* damaged file are steps of their own.                                    *)
(*                                                                         *)
(* Ratchets are numbered in the order they are generated.  The two formats *)
(* of the ring file (rewritten when an old one is loaded) and the replay   *)
(* of a cached path response, which changes nothing, are left out.         *)
(***************************************************************************)
EXTENDS Integers, Sequences, DurableFile

CONSTANTS
    Damaged,    \* a file's content that load_verified rejects
    RotationInterval, \* ratchet_interval()
    Retain,     \* private keys a ring holds
    Wall,       \* what the wall clock may show; it may go back
    Faults,     \* how a write may fail, beside "ok"
    MaxFaults,  \* bound on failed writes, losses and damage
    MaxMade     \* bound on generated ratchets

ASSUME RotationIntervalAssumption == RotationInterval \in Nat
ASSUME RetainAssumption == Retain \in Nat \ {0}
ASSUME WallAssumption == Wall \subseteq Nat \ {0} /\ Wall # {}
ASSUME FaultAssumption == Faults \subseteq {"notCommitted", "uncertain", "torn", "killed"}
ASSUME BoundAssumption == MaxFaults \in Nat /\ MaxMade \in Nat

VARIABLES
    ringFile,       \* the file at ring_path
    controlFile,    \* the file at control_path
    up,             \* whether the daemon holds a DeliveryRatchetState
    ring,           \* its ring, newest ratchet first
    control,        \* its control record
    ringTrusted,    \* ring_file_trusted
    controlTrusted, \* control_file_trusted
    made,           \* the newest ratchet generated
    emitted,        \* the last announce given to the transport
    advertised,     \* ratchets announced so far
    readBack,       \* history: "unsettled" once a ring was loaded from a write
                    \* whose barriers failed, "lost" once power was lost then
    ratchetFaults

ratchetFiles == <<ringFile, controlFile>>
ratchetState == <<up, ring, control, ringTrusted, controlTrusted>>
ratchetHistory == <<emitted, advertised, readBack>>
ratchetVars == <<ratchetFiles, ratchetState, made, ratchetHistory, ratchetFaults>>

Ratchet == 1 .. MaxMade
Ring == {r \in Seq(Ratchet) : Len(r) <= Retain}
Unknown == 0    \* None in a field of the control record
Control == [wire: Wall \cup {Unknown}, rotation: Wall \cup {Unknown}]
Fresh == [wire |-> Unknown, rotation |-> Unknown]

ASSUME NoneAssumption ==
    /\ None \notin Ring \cup Control \cup Ratchet \cup {Damaged}
    /\ Damaged \notin Ring \cup Control

-----------------------------------------------------------------------------
(* RatchetRing and RatchetControlState (rns_identity).                      *)

Rotated(r) == SubSeq(<<made + 1>> \o r, 1, IF Len(r) < Retain THEN Len(r) + 1 ELSE Retain)
Current == IF ring = <<>> THEN None ELSE ring[1]
RotationDue(wall) == control.rotation = Unknown \/ wall >= control.rotation + RotationInterval
RotationAt(c, wall) == [c EXCEPT !.rotation = wall]
Anchored(c, wall) == IF c.rotation = Unknown THEN RotationAt(c, wall) ELSE c
AnnounceAt(c, wall) == [c EXCEPT !.wire = wall]

(* The outcomes of the writes of one operation.  "none": the operation does *)
(* not come to this write.                                                  *)
WriteOutcome == {"ok", "none"} \cup Faults
Deadly == {"torn", "killed"}
Failures(o) == IF o \in {"ok", "none"} THEN 0 ELSE 1
Reached(o, condition) == (o # "none") <=> condition

(* The operation ends, or the process dies in it and its memory is gone.    *)
Ends(or, oc, r, c, rt, ct) ==
    /\ ratchetFaults' = ratchetFaults + Failures(or) + Failures(oc)
    /\ ratchetFaults' <= MaxFaults
    /\ up' = (Deadly \cap {or, oc} = {})
    /\ ring' = IF up' THEN r ELSE <<>>
    /\ control' = IF up' THEN c ELSE Fresh
    /\ ringTrusted' = (up' /\ rt)
    /\ controlTrusted' = (up' /\ ct)

Mut_Loads(file) == TRUE
Loads(file) == file.vis # Damaged
Mut_Announced(oc) == oc \notin Deadly \cup {"none"}
Announced(oc) == oc = "ok"
Mut_AnnouncedRatchet(or) == IF or # "none" THEN made + 1 ELSE Current
AnnouncedRatchet(or) == IF or = "ok" THEN made + 1 ELSE Current

(* A ratchet that reached the file, whether or not its caller knows.        *)
Generated(or) == made' = IF or \in {"ok", "uncertain", "torn"} THEN made + 1 ELSE made

-----------------------------------------------------------------------------
RatchetInit ==
    /\ ringFile = Settled(None) /\ controlFile = Settled(None)
    /\ up = FALSE /\ ring = <<>> /\ control = Fresh
    /\ ringTrusted = FALSE /\ controlTrusted = FALSE
    /\ made = 0
    /\ emitted = [wire |-> Unknown, ratchet |-> None]
    /\ advertised = {} /\ readBack = "settled"
    /\ ratchetFaults = 0

(* load_or_initialize(): what cannot be verified is kept aside; a ring is   *)
(* generated, stored and then used if there is none and the order of        *)
(* announces is known; the control record is stored if it changed, and a    *)
(* failure of that is only logged.                                          *)
LoadOrInitialize(wall, or, oc) ==
    LET rt == Loads(ringFile)
        ct == Loads(controlFile)
        stored == IF ringFile.vis \in {None, Damaged} THEN <<>> ELSE ringFile.vis
        known == IF controlFile.vis \in {None, Damaged} THEN Fresh ELSE controlFile.vis
        initializes == stored = <<>> /\ rt /\ ct
        c == IF ~ct THEN known
             ELSE IF or = "ok" THEN RotationAt(known, wall) ELSE Anchored(known, wall)
    IN
    /\ ~up
    /\ Reached(or, initializes) /\ (initializes => made < MaxMade)
    /\ Reached(oc, or \notin Deadly /\ ct /\ (or = "ok" \/ c # controlFile.vis))
    /\ ringFile' = Written(ringFile, Rotated(stored), or)
    /\ controlFile' = Written(controlFile, c, oc)
    /\ Generated(or)
    /\ Ends(or, oc, IF or = "ok" THEN Rotated(stored) ELSE stored, c, rt, ct)
    /\ readBack' = IF readBack = "lost" THEN "lost"
                   ELSE IF or = "ok" \/ ringFile.may = {ringFile.vis} THEN "settled"
                   ELSE "unsettled"
    /\ UNCHANGED <<emitted, advertised>>

(* create_announce(): a ratchet that is due is stored before the control    *)
(* record that orders the announce, and the announce leaves last.  Without  *)
(* the first the last stored ratchet is announced, without the second       *)
(* nothing is.  The wall clock must have passed the last announce.          *)
CreateAnnounce(wall, or, oc) ==
    LET due == ring = <<>> \/ RotationDue(wall)
        c == AnnounceAt(IF or = "ok" THEN RotationAt(control, wall) ELSE control, wall)
    IN
    /\ up /\ controlTrusted /\ wall > control.wire
    /\ Reached(or, due /\ ringTrusted) /\ (due /\ ringTrusted => made < MaxMade)
    /\ Reached(oc, or \notin Deadly)
    /\ ringFile' = Written(ringFile, Rotated(ring), or)
    /\ controlFile' = Written(controlFile, c, oc)
    /\ Generated(or)
    /\ Ends(or, oc, IF Announced(oc) /\ or = "ok" THEN Rotated(ring) ELSE ring,
            IF Announced(oc) THEN c ELSE control, ringTrusted, controlTrusted)
    /\ emitted' = IF Announced(oc) THEN [wire |-> wall, ratchet |-> AnnouncedRatchet(or)] ELSE emitted
    /\ advertised' =
         IF Announced(oc) THEN advertised \cup ({AnnouncedRatchet(or)} \ {None}) ELSE advertised
    /\ readBack' = IF or = "ok" /\ readBack = "unsettled" THEN "settled" ELSE readBack

(* save(): each file that was not kept aside, whatever happens to the other.*)
Save(or, oc) ==
    /\ up
    /\ Reached(or, ringTrusted) /\ Reached(oc, or \notin Deadly /\ controlTrusted)
    /\ ringFile' = Written(ringFile, ring, or)
    /\ controlFile' = Written(controlFile, control, oc)
    /\ Ends(or, oc, ring, control, ringTrusted, controlTrusted)
    /\ readBack' = IF or = "ok" /\ readBack = "unsettled" THEN "settled" ELSE readBack
    /\ UNCHANGED <<made, emitted, advertised>>

(* save_durable(), lxmd's checkpoint at shutdown: both files or an error at *)
(* the first that fails.                                                    *)
SaveDurable(or, oc) ==
    /\ ringTrusted /\ controlTrusted
    /\ or # "none" /\ Reached(oc, or = "ok")
    /\ ringFile' = Written(ringFile, ring, or)
    /\ controlFile' = Written(controlFile, control, oc)
    /\ up /\ Ends(or, oc, ring, control, ringTrusted, controlTrusted)
    /\ readBack' = IF or = "ok" /\ readBack = "unsettled" THEN "settled" ELSE readBack
    /\ UNCHANGED <<made, emitted, advertised>>

-----------------------------------------------------------------------------
(* The environment.                                                         *)

Stopped ==
    /\ up' = FALSE /\ ring' = <<>> /\ control' = Fresh
    /\ ringTrusted' = FALSE /\ controlTrusted' = FALSE

Kill ==
    /\ up /\ Stopped
    /\ UNCHANGED <<ratchetFiles, made, ratchetHistory, ratchetFaults>>

PowerLost(r, c) ==
    /\ ratchetFaults < MaxFaults /\ ratchetFaults' = ratchetFaults + 1
    /\ ringFile' = Settled(r) /\ controlFile' = Settled(c)
    /\ Stopped
    /\ readBack' = IF readBack = "unsettled" THEN "lost" ELSE readBack
    /\ UNCHANGED <<made, emitted, advertised>>

DamageRing ==
    /\ ~up /\ ratchetFaults < MaxFaults /\ ratchetFaults' = ratchetFaults + 1
    /\ ringFile' = Settled(Damaged)
    /\ UNCHANGED <<controlFile, ratchetState, made, ratchetHistory>>

DamageControl ==
    /\ ~up /\ ratchetFaults < MaxFaults /\ ratchetFaults' = ratchetFaults + 1
    /\ controlFile' = Settled(Damaged)
    /\ UNCHANGED <<ringFile, ratchetState, made, ratchetHistory>>

RatchetNext ==
    \/ \E wall \in Wall, or, oc \in WriteOutcome :
         LoadOrInitialize(wall, or, oc) \/ CreateAnnounce(wall, or, oc)
    \/ \E or, oc \in WriteOutcome : Save(or, oc) \/ SaveDurable(or, oc)
    \/ Kill
    \/ \E r \in ringFile.may, c \in controlFile.may : PowerLost(r, c)
    \/ DamageRing
    \/ DamageControl

RatchetSpec == RatchetInit /\ [][RatchetNext]_ratchetVars
-----------------------------------------------------------------------------
RatchetTypeOK ==
    /\ ringFile \in File(Ring \cup {Damaged})
    /\ controlFile \in File(Control \cup {Damaged})
    /\ up \in BOOLEAN
    /\ ring \in Ring /\ control \in Control
    /\ ringTrusted \in BOOLEAN /\ controlTrusted \in BOOLEAN
    /\ made \in 0 .. MaxMade
    /\ emitted \in [wire: Wall \cup {Unknown}, ratchet: Ratchet \cup {None}]
    /\ advertised \subseteq Ratchet
    /\ readBack \in {"settled", "unsettled", "lost"}
    /\ ratchetFaults \in 0 .. MaxFaults

(* The private keys a file's content holds.                                 *)
Keys(content) == IF content = None THEN {} ELSE {content[i] : i \in 1 .. Len(content)}

(* Every announced ratchet is there, unless Retain newer ones were stored.  *)
Holds(content) == \A r \in advertised : made - r < Retain => r \in Keys(content)

(* A message encrypted to any ratchet that was ever announced can be        *)
(* decrypted: the ratchet is in memory, and in whatever file a restart or a *)
(* power loss leaves behind, until Retain newer ones have replaced it.  The *)
(* exception is a ring that was read back from a write whose barriers had   *)
(* failed: it is used without passing them again, so it is sure to survive  *)
(* a restart only.  A damaged file holds nothing.                           *)
AdvertisedKept ==
    readBack # "lost" =>
        /\ ringTrusted => Holds(ring)
        /\ ringFile.vis # Damaged => Holds(ringFile.vis)
        /\ readBack = "settled" =>
             \A c \in ringFile.may : c # Damaged => Holds(c)

(* Announces leave in increasing wire order over every restart, whatever    *)
(* fails and however the wall clock moves: receivers drop the others.       *)
AnnouncesOrdered ==
    [][emitted' # emitted => emitted'.wire > emitted.wire]_emitted

(* A file that load_verified rejects is preserved for the operator: no load *)
(* generates a ring over it and no checkpoint replaces it.                  *)
RejectedPreserved ==
    [][/\ ringFile.vis = Damaged => ringFile' = ringFile
       /\ controlFile.vis = Damaged => controlFile' = controlFile]_ratchetFiles
=============================================================================
