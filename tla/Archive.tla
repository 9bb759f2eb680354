------------------------------- MODULE Archive -------------------------------
(***************************************************************************)
(* What the durable admission contract promises about a message            *)
(* (DurableAdmissionBackend and DurableHave in                             *)
(* crates/lxmf-core/src/admission.rs), without files, steps or crashes: an *)
(* accepted message is in the archive, unchanged, until the user has it    *)
(* deleted, and a deletion that was confirmed is for ever.                 *)
(***************************************************************************)
CONSTANTS Scope, Message, Image, None, MessageOf

VARIABLES
    archive,      \* the durable content of each message
    accepted,     \* scopes whose acceptance was reported to the caller
    deleteAsked,  \* messages the user asked to delete
    deleteDone    \* messages whose deletion was confirmed

archiveVars == <<archive, accepted, deleteAsked, deleteDone>>

AInit ==
    /\ archive = [m \in Message |-> None]
    /\ accepted = {} /\ deleteAsked = {} /\ deleteDone = {}

(* Needed \in SUBSET Message: the messages the archive may not lose.        *)
Needed == {MessageOf[s] : s \in accepted} \ deleteAsked

(* Any message not needed may appear or disappear (a power loss decides on  *)
(* writes that were never confirmed), but none is ever replaced, and none   *)
(* comes back after a confirmed deletion.                                   *)
Change ==
    /\ \A m \in Message : archive'[m] # archive[m] =>
         \/ archive[m] = None /\ archive'[m] \in Image /\ m \notin deleteDone
         \/ archive'[m] = None /\ m \notin Needed
    /\ archive' \in [Message -> Image \cup {None}]

Accept(s) == accepted' = accepted \cup {s} /\ archive'[MessageOf[s]] # None

AskDelete(m) == deleteAsked' = deleteAsked \cup {m}

ConfirmDelete(m) ==
    m \in deleteAsked /\ archive'[m] = None /\ deleteDone' = deleteDone \cup {m}

ANext ==
    /\ Change
    /\ accepted' = accepted \/ \E s \in Scope : Accept(s)
    /\ deleteAsked' = deleteAsked \/ \E m \in Message : AskDelete(m)
    /\ deleteDone' = deleteDone \/ \E m \in Message : ConfirmDelete(m)

ArchiveSpec == AInit /\ [][ANext]_archiveVars
=============================================================================
