------------------------------ MODULE MCStores ------------------------------
(* One TLC run for two stores of a node: the durable admission of inbound   *)
(* messages (AdmissionStore) and the offers of a relay store to its peers   *)
(* (PeerSync).  They share no state; the first state chooses which runs.    *)
EXTENDS MCAdmissionStore, PeerSync

CONSTANTS x, y, n1                 \* two relayed messages, a peer

(* A peer that accepts everything, one at a time or both at once, and one   *)
(* that refuses the first of two messages.                                  *)
MCTerms ==
    {[refuse |-> {}, room |-> 1], [refuse |-> {}, room |-> 2], [refuse |-> {x}, room |-> 2]}

VARIABLE which
StoreVars == <<vars, peerVars, which>>

StoresInit == which \in {"inbound", "offers"} /\ Init /\ PeerInit

(* Of the two messages the peer deposits only the first.  After a restart   *)
(* it stays and keeps its terms.                                            *)
Steady ==
    /\ \A c \in credits' : c[2] = x
    /\ restarts > 0 /\ restarts' = restarts =>
         /\ Cardinality(credits') <= Cardinality(credits)
         /\ \A n \in Known : peers'[n] # NoNode /\ peers'[n].terms = peers[n].terms

StoresNext ==
    /\ UNCHANGED which
    /\ \/ which = "inbound" /\ Next /\ UNCHANGED peerVars
       \/ which = "offers" /\ PeerNext /\ Steady /\ UNCHANGED vars

StoresSpec == StoresInit /\ [][StoresNext]_StoreVars
=============================================================================
