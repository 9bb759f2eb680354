-------------------------- MODULE MCRouterOutbound --------------------------
(* One TLC run for the two ways of an outbound message, through the router  *)
(* (RouterOutbound) and over a Link that its recipient opened (Backchannel),*)
(* and for the Resources that come back: over a Link this node opened       *)
(* (InboundResource), and as the registry of them sees it (InboundTracker). *)
(* They share no state; the first state chooses which runs.                 *)
EXTENDS RouterOutbound, Backchannel, InboundResource, InboundTracker, TLC

CONSTANTS m1, m2, x, l1, l2, i1, i2, i3

ThreeOneTwo == i1 :> 3 @@ i2 :> 1 @@ i3 :> 2
SameOnTwo == {<<l1, i1>>, <<l2, i1>>}

AnyMethod == [m \in Messages |-> Method]
Perms == Permutations(Messages)

(* Three submissions only where both messages are Opportunistic, two        *)
(* otherwise; a one-shot command submits one message.  Announces matter to  *)
(* a message over a propagation node; two such messages see none.           *)
Fewer ==
    /\ (\A m \in Messages : method[m] # "Large") => UNCHANGED <<key, cost>>
    /\ shot # "daemon" => submits' <= 1
    /\ (\E m \in Messages : method[m] # "Opportunistic") => submits' <= 2

(* A Link of the peer is registered again only while an attempt is left.    *)
Useful == owner' \in {owner, NoLink} \/ \E a \in Tries : fate[a] = "new"

VARIABLE side
SendVars == <<vars, backVars, inboundVars, trackerVars, side>>

(* Two messages of one method, or one over a propagation node beside a      *)
(* Large one: their stamps are what they share.                             *)
Pairs ==
    LET used == {method[m] : m \in Messages}
    IN  Cardinality(used) = 1 \/ used = {"Propagated", "Large"}

(* The last attempt over the backchannel is a packet.                       *)
SendInit ==
    /\ side \in {"router", "backchannel", "resource", "tracker"}
    /\ Init /\ BackInit /\ InboundInit /\ TrackerInit
    /\ side = "router" => Pairs /\ \A a \in Tries : try[a].kind = "packet"
    /\ side # "router" =>
         /\ shot = "daemon" /\ \A m \in Messages : method[m] = "Direct"
         /\ try[MaxTries].kind = "packet"
    /\ side \in {"resource", "tracker"} => \A a \in Tries : try[a].kind = "packet"
    /\ side # "resource" => sending

SendNext ==
    /\ UNCHANGED side
    /\ IF side = "router" THEN Next /\ Fewer ELSE UNCHANGED vars
    /\ IF side = "backchannel" THEN BackNext /\ Useful ELSE UNCHANGED backVars
    /\ IF side = "resource" THEN InboundNext ELSE UNCHANGED inboundVars
    /\ IF side = "tracker" THEN TrackerNext ELSE UNCHANGED trackerVars

SendSpec == SendInit /\ [][SendNext]_SendVars
=============================================================================
