------------------------------ MODULE Settlement ------------------------------
(***************************************************************************)
(* What starting a Link delivery promises (LinkDeliveryManager in          *)
(* crates/lxmf-core/src/link_delivery.rs), without Links, queues or        *)
(* timeouts: a copy of a message that was accepted is settled once, and it *)
(* is reported complete only when the recipient has all of it.             *)
(***************************************************************************)
CONSTANT Copies

VARIABLES
    outcome,      \* what became of each copy
    received      \* the copies whose last part the recipient proved

Settled == {"complete", "rejected", "failed", "cancelled", "discarded"}

SInit == outcome = [c \in Copies |-> "new"] /\ received = {}

Accept(c) == outcome[c] = "new" /\ outcome' = [outcome EXCEPT ![c] = "open"]

(* One call may settle several copies; none is settled twice.               *)
Settle ==
    /\ outcome' \in [Copies -> {"new", "open"} \cup Settled]
    /\ \A c \in Copies : outcome'[c] # outcome[c] =>
         outcome[c] = "open" /\ outcome'[c] \in Settled
    /\ \A c \in Copies : outcome'[c] = "complete" => c \in received

Receive(c) == outcome[c] # "new" /\ received' = received \cup {c}

SNext ==
    \/ received' = received /\ (Settle \/ \E c \in Copies : Accept(c))
    \/ outcome' = outcome /\ \E c \in Copies : Receive(c)

SettlementSpec == SInit /\ [][SNext]_<<outcome, received>>
=============================================================================
