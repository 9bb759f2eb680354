--------------------------- MODULE MCLinkDelivery ---------------------------
(* TLC instances of LinkDelivery: the second copy is a Resource of two      *)
(* segments, the first and the third are retries of one packet; copies in   *)
(* OneShot are deposits at a propagation node, the others Direct.           *)
EXTENDS LinkDelivery, TLC

CONSTANTS l1, l2, peer1, node, m1, m2

Contents == [c \in 1..N |-> IF c = 2 THEN m2 ELSE m1]
Destinations == [c \in 1..N |-> IF c \in OneShot THEN node ELSE peer1]
Sizes == [c \in 1..N |-> IF c = 2 THEN 2 ELSE 0]

(* For the long queue: at most one copy is cancelled.                       *)
OneCancel == Next /\ Cardinality({c \in Copies : outcome'[c] = "cancelled"}) <= 1
BriefSpec == Init /\ [][OneCancel]_vars /\ Fairness
=============================================================================
