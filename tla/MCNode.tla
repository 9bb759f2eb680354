------------------------------- MODULE MCNode -------------------------------
(* One TLC run for the parts of a node that share no state: admission of    *)
(* inbound syncs, delivery ratchets, reply tickets, the relay store and its *)
(* migration, the download client's exchange with a node.  The first state  *)
(* chooses the part that runs.                                              *)
EXTENDS SyncAdmission, DeliveryRatchet, TicketStore, RelayStore, StoreMigration, ClientExchange, TLC

CONSTANTS
    l1, l2, p1, p2, r1, r2, r3,     \* two Links of two peers, three Resources
    x, y, packet, batch,            \* two messages in two deposits
    x1, x2, y1                      \* images of them in an old store

TwoOnOne == r1 :> l1 @@ r2 :> l1 @@ r3 :> l2
OnePeerEach == l1 :> p1 @@ l2 :> p2

Clock == 1 .. 5
AllFaults == {"notCommitted", "uncertain", "torn", "killed"}

ImageOf(t) == [tid |-> t, stamp |-> 1]
OneAndAll == packet :> <<ImageOf(x)>> @@ batch :> <<ImageOf(x), ImageOf(y)>>

ArchivedAs == x1 :> x @@ x2 :> x @@ y1 :> y
Approvals == {{x1, y1}, {x2}, {x1, x2}}

(* A list in one segment, then messages in two.                             *)
AnswerSizes == [r \in Requests |-> IF r = 1 THEN 1 ELSE 2]

(* The two Resources of Link l1, and the two replies of one recipient.      *)
Alike == Permutations({r1, r2})

VARIABLE part

NodeVars == <<syncVars, ratchetVars, ticketVars, relayVars, migrationVars, exchangeVars, part>>

NodeInit ==
    /\ part \in {"sync", "ratchet", "tickets", "relay", "migration", "client"}
    /\ SyncInit /\ RatchetInit /\ TicketInit /\ RelayInit /\ MigrationInit /\ ExchangeInit
    /\ part # "migration" => olddir = Legacy

NodeNext ==
    /\ UNCHANGED part
    /\ IF part = "sync" THEN SyncNext ELSE UNCHANGED syncVars
    /\ IF part = "ratchet" THEN RatchetNext ELSE UNCHANGED ratchetVars
    /\ IF part = "tickets" THEN TicketNext ELSE UNCHANGED ticketVars
    /\ IF part = "relay" THEN RelayNext ELSE UNCHANGED relayVars
    /\ IF part = "migration" THEN MigrationNext ELSE UNCHANGED migrationVars
    /\ IF part = "client" THEN ExchangeNext ELSE UNCHANGED exchangeVars

NodeSpec == NodeInit /\ [][NodeNext]_NodeVars

(* The states of the parts are of their types.                              *)
NodeTypesOK ==
    /\ SyncTypeOK /\ RatchetTypeOK /\ TicketTypeOK /\ RelayTypeOK /\ MigrationTypeOK
    /\ ExchangeTypeOK
=============================================================================
