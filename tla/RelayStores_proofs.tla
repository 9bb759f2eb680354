------------------------ MODULE RelayStores_proofs ------------------------
(***************************************************************************)
(* Machine-checked proofs about the store of a propagation node.           *)
(* RelayStore: what was proved to a sender stays, what a client purged     *)
(* stays away, and the store starts again.  StoreMigration: an interrupted *)
(* migration goes on, a store is hosted only when it is whole, and a       *)
(* reported import is true.                                                *)
(***************************************************************************)
EXTENDS RelayStore, StoreMigration, Sequences, FiniteSetTheorems, TLAPS

(* The records of workers and plans.                                        *)
Result == {"none", "pending", "committed", "failed"}
DepositOf(d) ==
    [state: {"arrived", "writing", "written", "aborting", "checking", "stored", "refused", "ended"},
     at: Nat, object: Object \cup {Nothing}, waits: SUBSET Reservation,
     result: [DOMAIN EntriesOf[d] -> Result]]
Plan ==
    [state: {"none", "retiring", "writing", "committing", "ended"},
     retire: SUBSET Object, doing: Object \cup {Nothing}, covers: SUBSET Object]

FileTypes ==
    /\ index \in [Tids -> Files(Object)]
    /\ body \in [Object -> Files({"there"})] /\ manifest \in [Object -> Files({"there"})]
    /\ marker \in [Object -> Files({"there"})] /\ tidOf \in [Object -> Tids \cup {Nothing}]

MemoryTypes ==
    /\ node \in {"up", "down", "starting"} /\ unreconciled \subseteq Object
    /\ store \in [Tids -> Object \cup {Nothing}] /\ retired \subseteq Object
    /\ reserved \in [Tids -> Reservation \cup {Nothing}]
    /\ deposit \in [Deposits -> UNION {DepositOf(d) : d \in Deposits}]
    /\ \A d \in Deposits : deposit[d] \in DepositOf(d)
    /\ plan \in [Planners -> Plan]

RelayTypes == FileTypes /\ MemoryTypes

-----------------------------------------------------------------------------
(* The files.  What an index names, or may name after a power loss.         *)
Names(t) == (index[t].may \cup {index[t].vis}) \ {Nothing}

Whole(o) ==
    Keeps(manifest[o], "there") /\ (Keeps(body[o], "there") \/ Keeps(marker[o], "there"))

(* Objects are drawn in turn, and one that was not drawn has no file.       *)
DrawnInTurn == \E n \in 0 .. MaxObjects : Drawn = 1 .. n
FreshRight ==
    \A o \in Object : tidOf[o] = Nothing => body[o] = NoFile /\ manifest[o] = NoFile /\ marker[o] = NoFile

(* An index names objects of its message, and they are there or retired.    *)
NamesRight == \A t \in Tids : \A o \in Names(t) : tidOf[o] = t
Visible(files) == \A x \in DOMAIN files : files[x].vis \in files[x].may

(* An object without a deletion intent cannot get one by a power loss.      *)
MarkerRight ==
    \A o \in Object : marker[o].vis = Nothing /\ manifest[o].vis # Nothing => marker[o].may = {Nothing}

FilesRight ==
    /\ DrawnInTurn /\ FreshRight /\ NamesRight /\ MarkerRight /\ Startable
    /\ Visible(index) /\ Visible(body) /\ Visible(manifest) /\ Visible(marker)

-----------------------------------------------------------------------------
(* One admission.                                                           *)
Durable(o) ==
    /\ Keeps(index[tidOf[o]], o) /\ Keeps(marker[o], Nothing)
    /\ Keeps(body[o], "there") /\ Keeps(manifest[o], "there")

Final(o) ==
    \/ Keeps(marker[o], "there")
    \/ index[tidOf[o]].vis # o /\ o \notin index[tidOf[o]].may

(* A plan retires what the node holds, unless another did so before.        *)
Retires(p) == plan[p].retire \cup ({plan[p].doing} \ {Nothing})
PlanRight(p) ==
    /\ Retires(p) \cup plan[p].covers \subseteq Drawn
    /\ \A o \in Retires(p) : store[tidOf[o]] = o \/ Final(o)
    /\ plan[p].state \in {"writing", "committing"} <=> plan[p].doing # Nothing
    /\ plan[p].state = "committing" => Final(plan[p].doing)
    /\ \A o \in plan[p].covers : o \in Retires(p) \/ Final(o)

(* A write has its reservation, and until it is committed the node has no   *)
(* other admission of the message.                                          *)
DepositRight(d) ==
    /\ \A i \in DOMAIN EntriesOf[d] :
          deposit[d].result[i] = "pending" =>
              /\ reserved[EntriesOf[d][i].tid] = <<d, i>>
              /\ store[EntriesOf[d][i].tid] = Nothing
    /\ deposit[d].state \in {"writing", "written", "aborting"} => deposit[d].at \in DOMAIN EntriesOf[d]
    /\ deposit[d].state \in {"writing", "written"} => deposit[d].result[deposit[d].at] = "pending"
    /\ deposit[d].state = "written" =>
          /\ deposit[d].object \in Drawn /\ Durable(deposit[d].object)
          /\ tidOf[deposit[d].object] = Entry(d).tid
    /\ deposit[d].state = "checking" => deposit[d].object \in Drawn

(* A node that is not up holds nothing.                                     *)
DownRight ==
    node # "up" =>
        /\ retired = {}
        /\ \A p \in Planners : Retires(p) = {} /\ plan[p].covers = {}
        /\ \A d \in Deposits : /\ deposit[d].state \in {"arrived", "ended"}
                               /\ \A i \in DOMAIN EntriesOf[d] : deposit[d].result[i] = "none"

StoreRight ==
    /\ \A t \in Tids : store[t] # Nothing => tidOf[store[t]] = t
    /\ retired \subseteq Drawn /\ \A o \in retired : Final(o)

HistoryRight == acked \cup purged \subseteq Drawn /\ DepositsDurable /\ PurgesFinal

RelayInv ==
    /\ RelayTypes /\ FilesRight /\ StoreRight /\ DownRight /\ HistoryRight
    /\ \A p \in Planners : PlanRight(p)
    /\ \A d \in Deposits : DepositRight(d)

-----------------------------------------------------------------------------
(* Writes of one file.                                                      *)

LEMMA WrittenFields ==
    ASSUME NEW file, NEW v, NEW o
    PROVE  /\ o = "ok" => Disk!Written(file, v, o).vis = v /\ Disk!Written(file, v, o).may = {v}
           /\ o \in {"uncertain", "torn"} =>
                 /\ Disk!Written(file, v, o).vis = v
                 /\ Disk!Written(file, v, o).may = file.may \cup {v}
           /\ o \notin {"ok", "uncertain", "torn"} => Disk!Written(file, v, o) = file
  BY DEF Disk!Written, Disk!Settled

LEMMA WrittenType ==
    ASSUME NEW C, NEW file \in Files(C), NEW v \in C \cup {Nothing}, NEW o
    PROVE  /\ Disk!Written(file, v, o) \in Files(C)
           /\ file.vis \in file.may => Disk!Written(file, v, o).vis \in Disk!Written(file, v, o).may
  BY DEF Disk!Written, Disk!Settled, Files

LEMMA SettledFields ==
    ASSUME NEW C, NEW v
    PROVE  /\ Disk!Settled(v).vis = v /\ Disk!Settled(v).may = {v}
           /\ v \in C \cup {Nothing} => Disk!Settled(v) \in Files(C)
  BY DEF Disk!Settled, Files

LEMMA StopFields ==
    ASSUME NEW n \in Nat, NEW stop \in Stops(n)
    PROVE  /\ stop.at \in 1 .. n + 1
           /\ stop.how \in {"ok", "notCommitted", "uncertain", "killed", "torn"}
           /\ stop.how = "ok" <=> stop.at = n + 1
           /\ \A i \in Nat : /\ i < stop.at => Step(stop, i) = "ok"
                             /\ i = stop.at => Step(stop, i) = stop.how
                             /\ i > stop.at => Step(stop, i) = "none"
  <1>1. CASE stop = [at |-> n + 1, how |-> "ok"]
    BY <1>1 DEF Step
  <1>2. CASE stop \in [at: 1..n, how: {"notCommitted", "uncertain", "killed", "torn"}]
    BY <1>2 DEF Step
  <1> QED
    BY <1>1, <1>2 DEF Stops

-----------------------------------------------------------------------------
(* Steps on the files.                                                      *)

(* What a step on the files leaves: the messages of the objects drawn, what *)
(* is gone, and what is durable but for one object.                         *)
Leaves(o) == Final(o) => Final(o)'
Spares(o) == Durable(o) => Durable(o)'
FilesStep(touched) ==
    /\ FileTypes' /\ FilesRight' /\ Drawn \subseteq Drawn'
    /\ \A o \in Drawn : tidOf'[o] = tidOf[o] /\ Leaves(o) /\ (o \notin touched => Spares(o))

LEMMA DrawnTids ==
    ASSUME FileTypes
    PROVE  /\ Drawn \subseteq Object /\ \A o \in Drawn : tidOf[o] \in Tids
           /\ \A o \in Object : o \in Drawn <=> tidOf[o] # Nothing
           /\ Nothing \notin Object \cup Tids
  BY RelayAssumption DEF Drawn, FileTypes

LEMMA FilesSame ==
    ASSUME FileTypes, FilesRight, UNCHANGED relayFiles
    PROVE  FilesStep({})
  BY DEF FilesStep, FileTypes, FilesRight, relayFiles, DrawnInTurn, FreshRight, NamesRight, MarkerRight,
         Startable, Visible, Names, Keeps, Drawn, Leaves, Spares, Final, Durable

LEMMA NextDrawn ==
    ASSUME DrawnInTurn, NEW o \in Object, o = Cardinality(Drawn) + 1
    PROVE  o \notin Drawn /\ \E n \in 0 .. MaxObjects : Drawn \cup {o} = 1 .. n
  <1>1. PICK n \in 0 .. MaxObjects : Drawn = 1 .. n
    BY DEF DrawnInTurn
  <1>2. n \in Nat /\ MaxObjects \in Nat
    BY RelayAssumption
  <1>3. Cardinality(Drawn) = n
    BY <1>1, <1>2, FS_Interval
  <1>4. o = n + 1 /\ n + 1 \in 0 .. MaxObjects
    BY <1>2, <1>3 DEF Object
  <1> QED
    BY <1>1, <1>2, <1>4

LEMMA FilesPublish ==
    ASSUME FileTypes, FilesRight, NEW o \in Object, NEW t \in Tids, NEW stop \in Stops(3),
           index[t].vis = Nothing, PublishNew(o, t, stop)
    PROVE  /\ FilesStep({}) /\ o \in Drawn' /\ tidOf'[o] = t
           /\ stop.how = "ok" => Durable(o)'
  <1> DEFINE s(i) == Step(stop, i)
  <1>1. /\ stop.at \in 1 .. 4
        /\ stop.how \in {"ok", "notCommitted", "uncertain", "killed", "torn"}
        /\ stop.how = "ok" <=> stop.at = 4
        /\ s(1) \in {"ok", "none"} \/ stop.at = 1
        /\ stop.at > 2 => s(1) = "ok" /\ s(2) = "ok"
        /\ stop.at < 3 => s(3) = "none"
        /\ stop.at = 4 => s(3) = "ok"
    BY StopFields
  <1> HIDE DEF s
  <1>2. /\ o \notin Drawn /\ tidOf[o] = Nothing
        /\ body[o] = NoFile /\ manifest[o] = NoFile /\ marker[o] = NoFile
    BY NextDrawn, DrawnTids DEF PublishNew, FilesRight, FreshRight
  <1>3. /\ marker' = marker
        /\ tidOf'[o] = t /\ \A x \in Object \ {o} : tidOf'[x] = tidOf[x]
        /\ body'[o] = Disk!Written(NoFile, "there", s(1))
        /\ manifest'[o] = Disk!Written(NoFile, "there", s(2))
        /\ \A x \in Object \ {o} : body'[x] = body[x] /\ manifest'[x] = manifest[x]
        /\ index'[t] = Disk!Written(index[t], o, s(3))
        /\ \A u \in Tids \ {t} : index'[u] = index[u]
    BY <1>2 DEF PublishNew, Wrote, FileTypes, s
  <1>4. FileTypes'
    <2>1. NoFile \in Files({"there"})
      BY SettledFields DEF NoFile
    <2>2. body'[o] \in Files({"there"}) /\ manifest'[o] \in Files({"there"}) /\ index'[t] \in Files(Object)
      BY <1>3, <2>1, WrittenType DEF FileTypes
    <2>3. body' \in [Object -> Files({"there"})] /\ manifest' \in [Object -> Files({"there"})]
      BY <1>3, <2>2 DEF PublishNew, Wrote, FileTypes
    <2>4. index' \in [Tids -> Files(Object)]
      BY <1>3, <2>2 DEF PublishNew, Wrote, FileTypes
    <2>5. tidOf' \in [Object -> Tids \cup {Nothing}]
      BY DEF PublishNew, FileTypes
    <2> QED
      BY <1>3, <2>3, <2>4, <2>5 DEF FileTypes
  <1>5. Drawn' = Drawn \cup {o}
    BY <1>3, DrawnTids DEF Drawn
  <1>6. DrawnInTurn'
    BY <1>5, NextDrawn DEF DrawnInTurn, PublishNew, FilesRight
  <1>7. FreshRight'
    BY <1>3, DrawnTids DEF FreshRight, FilesRight
  <1>8. /\ \A u \in Tids \ {t} : Names(u)' = Names(u)
        /\ Names(t)' \subseteq Names(t) \cup {o}
        /\ o \in Names(t)' => stop.at > 2
        /\ o \notin Names(t)
    <2>1. o \notin Names(t)
      BY <1>2, DrawnTids DEF FilesRight, NamesRight
    <2>2. Names(t)' \subseteq Names(t) \cup {o} /\ (Names(t)' # Names(t) => stop.at > 2)
      BY <1>1, <1>3, WrittenFields DEF Names
    <2> QED
      BY <1>3, <2>1, <2>2 DEF Names
  <1>9. NamesRight'
    <2>1. ASSUME NEW u \in Tids, NEW x \in Names(u)' PROVE tidOf'[x] = u
      <3>1. CASE x = o
        BY <1>2, <1>3, <1>8, <2>1, <3>1, DrawnTids DEF FilesRight, NamesRight
      <3>2. CASE x # o
        <4>1. x \in Names(u) /\ x \in Object
          BY <1>8, <2>1, <3>2 DEF Names, FileTypes, Files
        <4> QED
          BY <1>3, <3>2, <4>1 DEF FilesRight, NamesRight
      <3> QED
        BY <3>1, <3>2
    <2> QED
      BY <2>1 DEF NamesRight
  <1>10. stop.at > 2 => Keeps(body[o], "there")' /\ Keeps(manifest[o], "there")'
    BY <1>1, <1>3, WrittenFields DEF Keeps
  <1>11. Startable'
    <2>1. ASSUME NEW u \in Tids, NEW x \in Names(u)' PROVE Whole(x)'
      <3>1. CASE x = o
        BY <1>2, <1>8, <1>10, <2>1, <3>1, DrawnTids DEF FilesRight, NamesRight, Whole
      <3>2. CASE x # o
        <4>1. x \in Names(u) /\ x \in Object
          BY <1>8, <2>1, <3>2 DEF Names, FileTypes, Files
        <4>2. Whole(x)
          BY <4>1 DEF FilesRight, Startable, Names, Whole
        <4> QED
          BY <1>3, <3>2, <4>1, <4>2 DEF Whole, Keeps
      <3> QED
        BY <3>1, <3>2
    <2> QED
      BY <2>1 DEF Startable, Names, Whole
  <1>12. MarkerRight'
    <2>1. marker[o].may = {Nothing}
      BY <1>2, SettledFields DEF NoFile
    <2> QED
      BY <1>3, <2>1 DEF FilesRight, MarkerRight
  <1>13. Visible(index)' /\ Visible(body)' /\ Visible(manifest)' /\ Visible(marker)'
    <2>1. NoFile \in Files({"there"}) /\ NoFile.vis \in NoFile.may
      BY SettledFields DEF NoFile
    <2>2. /\ body'[o].vis \in body'[o].may /\ manifest'[o].vis \in manifest'[o].may
          /\ index'[t].vis \in index'[t].may
      <3>1. index[t] \in Files(Object) /\ index[t].vis \in index[t].may
        BY DEF FileTypes, FilesRight, Visible
      <3>2. index'[t].vis \in index'[t].may
        BY <1>3, <3>1, WrittenType
      <3> QED
        BY <1>3, <2>1, <3>2, WrittenType
    <2> QED
      BY <1>3, <1>4, <2>2 DEF FileTypes, FilesRight, Visible
  <1>14. ASSUME NEW x \in Drawn PROVE tidOf'[x] = tidOf[x] /\ Leaves(x) /\ Spares(x)
    <2>1. x # o /\ x \in Object /\ tidOf'[x] = tidOf[x] /\ tidOf[x] \in Tids
      BY <1>2, <1>3, DrawnTids
    <2>2. /\ marker'[x] = marker[x] /\ body'[x] = body[x] /\ manifest'[x] = manifest[x]
      BY <1>3, <2>1
    <2>3. Leaves(x)
      <3>1. /\ index'[tidOf[x]].vis \in {index[tidOf[x]].vis, o}
            /\ index'[tidOf[x]].may \subseteq index[tidOf[x]].may \cup {o}
        BY <1>1, <1>3, <2>1, WrittenFields
      <3> QED
        BY <2>1, <2>2, <3>1 DEF Leaves, Final
    <2>4. Spares(x)
      <3>1. Durable(x) => tidOf[x] # t
        BY <2>1, DrawnTids DEF Durable, Keeps
      <3> QED
        BY <1>3, <2>1, <2>2, <3>1 DEF Spares, Durable
    <2> QED
      BY <2>1, <2>3, <2>4
  <1>15. stop.how = "ok" => Durable(o)'
    <2>1. stop.at = 4 => index'[t].vis = o /\ index'[t].may = {o}
      BY <1>1, <1>3, WrittenFields
    <2>2. marker'[o].vis = Nothing /\ marker'[o].may = {Nothing}
      BY <1>2, <1>3, SettledFields DEF NoFile
    <2> QED
      BY <1>1, <1>3, <1>10, <2>1, <2>2 DEF Durable, Keeps
  <1>16. FilesRight'
    BY <1>6, <1>7, <1>9, <1>11, <1>12, <1>13 DEF FilesRight
  <1> QED
    BY <1>3, <1>4, <1>5, <1>14, <1>15, <1>16 DEF FilesStep

LEMMA RenewedFields ==
    ASSUME NEW C, NEW file \in Files(C), file.vis \in file.may, NEW o
    PROVE  /\ Disk!Reconciled(file, o) \in Files(C)
           /\ Disk!Reconciled(file, o).vis = file.vis
           /\ Disk!Reconciled(file, o).vis \in Disk!Reconciled(file, o).may
           /\ Disk!Reconciled(file, o).may \subseteq file.may
           /\ o = "ok" => Disk!Reconciled(file, o).may = {file.vis}
  BY DEF Disk!Reconciled, Disk!Written, Disk!Settled, Files

(* The content of every file stays, and what a power loss can leave of it   *)
(* shrinks at most.                                                         *)
LEMMA FilesShrink ==
    ASSUME FileTypes, FileTypes', FilesRight, UNCHANGED <<marker, tidOf>>,
           \A u \in Tids : /\ index'[u].vis = index[u].vis /\ index'[u].vis \in index'[u].may
                           /\ index'[u].may \subseteq index[u].may,
           \A x \in Object : /\ body'[x].vis = body[x].vis /\ body'[x].vis \in body'[x].may
                             /\ body'[x].may \subseteq body[x].may
                             /\ manifest'[x].vis = manifest[x].vis /\ manifest'[x].vis \in manifest'[x].may
                             /\ manifest'[x].may \subseteq manifest[x].may
    PROVE  FilesStep({})
  <1>1. Drawn' = Drawn /\ DrawnInTurn'
    BY DEF Drawn, DrawnInTurn, FilesRight
  <1>2. \A u \in Tids : Names(u)' \subseteq Names(u)
    BY DEF Names
  <1>3. /\ \A v : \A x \in Object : Keeps(body[x], v) => Keeps(body[x], v)'
        /\ \A v : \A x \in Object : Keeps(manifest[x], v) => Keeps(manifest[x], v)'
        /\ \A v : \A u \in Tids : Keeps(index[u], v) => Keeps(index[u], v)'
    BY DEF Keeps
  <1>4. FreshRight'
    <2>1. ASSUME NEW x \in Object, tidOf[x] = Nothing
          PROVE  body'[x] = NoFile /\ manifest'[x] = NoFile
      <3>1. NoFile.vis = Nothing /\ NoFile.may = {Nothing}
        BY SettledFields DEF NoFile
      <3>2. body[x] = NoFile /\ manifest[x] = NoFile
        BY <2>1 DEF FilesRight, FreshRight
      <3>3. body'[x].vis = Nothing /\ body'[x].may = {Nothing} /\ manifest'[x].vis = Nothing /\ manifest'[x].may = {Nothing}
        BY <3>1, <3>2
      <3>4. body'[x] \in Files({"there"}) /\ manifest'[x] \in Files({"there"})
        BY DEF FileTypes
      <3> QED
        BY <3>3, <3>4 DEF NoFile, Disk!Settled, Files
    <2> QED
      BY <2>1 DEF FilesRight, FreshRight
  <1>5. NamesRight'
    BY <1>2 DEF FilesRight, NamesRight
  <1>6. Startable'
    <2>1. \A u \in Tids : \A x \in Names(u) : x \in Object
      BY DEF Names, FileTypes, Files
    <2>2. \A u \in Tids : \A x \in Names(u) : Whole(x)
      BY DEF FilesRight, Startable, Names, Whole
    <2>3. \A u \in Tids : \A x \in Names(u)' : Whole(x)'
      <3>1. \A v : \A x \in Object : Keeps(marker[x], v)' <=> Keeps(marker[x], v)
        BY DEF Keeps
      <3> QED
        BY <1>2, <1>3, <2>1, <2>2, <3>1 DEF Whole
    <2> QED
      BY <2>3 DEF Startable, Names, Whole
  <1>7. MarkerRight'
    BY DEF FilesRight, MarkerRight
  <1>8. Visible(index)' /\ Visible(body)' /\ Visible(manifest)' /\ Visible(marker)'
    BY DEF FileTypes, FilesRight, Visible
  <1>9. ASSUME NEW x \in Drawn PROVE Leaves(x) /\ Spares(x)
    <2>1. x \in Object /\ tidOf[x] \in Tids
      BY DrawnTids
    <2>2. Leaves(x)
      BY <2>1 DEF Leaves, Final, Keeps
    <2>3. Spares(x)
      <3>1. Keeps(marker[x], Nothing)' <=> Keeps(marker[x], Nothing)
        BY DEF Keeps
      <3>2. Keeps(index[tidOf[x]], x) => Keeps(index[tidOf[x]], x)'
        BY <2>1 DEF Keeps
      <3> QED
        BY <1>3, <2>1, <3>1, <3>2 DEF Spares, Durable
    <2> QED
      BY <2>2, <2>3
  <1>10. FilesRight'
    BY <1>1, <1>4, <1>5, <1>6, <1>7, <1>8 DEF FilesRight
  <1> QED
    BY <1>1, <1>9, <1>10 DEF FilesStep

LEMMA FilesRenew ==
    ASSUME FileTypes, FilesRight, NEW o \in Object, NEW stop \in Stops(3), Readable(o), RenewBarriers(o, stop)
    PROVE  /\ FilesStep({}) /\ o \in Drawn
           /\ stop.how = "ok" => Durable(o)'
  <1> DEFINE s(i) == Step(stop, i)
             t == tidOf[o]
  <1>1. o \in Drawn /\ t \in Tids
    <2>1. NoFile.vis = Nothing
      BY SettledFields DEF NoFile
    <2> QED
      BY <2>1, DrawnTids DEF Readable, Present, FilesRight, FreshRight
  <1>2. stop.how = "ok" => s(1) = "ok" /\ s(2) = "ok" /\ s(3) = "ok"
    BY StopFields
  <1>3. /\ UNCHANGED <<marker, tidOf>>
        /\ body'[o] = Disk!Reconciled(body[o], s(1))
        /\ manifest'[o] = Disk!Reconciled(manifest[o], s(2))
        /\ index'[t] = Disk!Reconciled(index[t], s(3))
        /\ \A x \in Object \ {o} : body'[x] = body[x] /\ manifest'[x] = manifest[x]
        /\ \A u \in Tids \ {t} : index'[u] = index[u]
    BY <1>1 DEF RenewBarriers, Renewed, FileTypes, s
  <1> HIDE DEF s
  <1>4. /\ \A x \in Object : body[x] \in Files({"there"}) /\ body[x].vis \in body[x].may
        /\ \A x \in Object : manifest[x] \in Files({"there"}) /\ manifest[x].vis \in manifest[x].may
        /\ \A u \in Tids : index[u] \in Files(Object) /\ index[u].vis \in index[u].may
    BY DEF FileTypes, FilesRight, Visible
  <1>5. /\ body'[o] \in Files({"there"}) /\ body'[o].vis = body[o].vis /\ body'[o].vis \in body'[o].may
        /\ body'[o].may \subseteq body[o].may /\ (s(1) = "ok" => body'[o].may = {body[o].vis})
    BY <1>3, <1>4, RenewedFields
  <1>6. /\ manifest'[o] \in Files({"there"}) /\ manifest'[o].vis = manifest[o].vis
        /\ manifest'[o].vis \in manifest'[o].may
        /\ manifest'[o].may \subseteq manifest[o].may /\ (s(2) = "ok" => manifest'[o].may = {manifest[o].vis})
    BY <1>3, <1>4, RenewedFields
  <1>7. /\ index'[t] \in Files(Object) /\ index'[t].vis = index[t].vis /\ index'[t].vis \in index'[t].may
        /\ index'[t].may \subseteq index[t].may /\ (s(3) = "ok" => index'[t].may = {index[t].vis})
    BY <1>1, <1>3, <1>4, RenewedFields
  <1>8. FileTypes'
    <2>1. body' \in [Object -> Files({"there"})] /\ manifest' \in [Object -> Files({"there"})]
      BY <1>3, <1>5, <1>6 DEF RenewBarriers, Renewed, FileTypes
    <2>2. index' \in [Tids -> Files(Object)]
      BY <1>3, <1>7 DEF RenewBarriers, Renewed, FileTypes
    <2> QED
      BY <1>3, <2>1, <2>2 DEF FileTypes
  <1>9. FilesStep({})
    BY <1>3, <1>4, <1>5, <1>6, <1>7, <1>8, FilesShrink
  <1>10. stop.how = "ok" => Durable(o)'
    <2>1. index[t].vis = o /\ body[o].vis = "there" /\ manifest[o].vis = "there" /\ Keeps(marker[o], Nothing)
      BY <1>4 DEF Readable, Indexed, Present, FilesRight, MarkerRight, Keeps, Files
    <2> QED
      BY <1>2, <1>3, <1>5, <1>6, <1>7, <2>1 DEF Durable, Keeps
  <1> QED
    BY <1>1, <1>9, <1>10

(* The five writes of a retirement, on each file.                           *)
LEMMA RetireFields ==
    ASSUME FileTypes, FilesRight, NEW o \in Drawn, NEW stop \in Stops(5), RetireObject(o, stop),
           DirectoryBarrier
    PROVE  /\ tidOf' = tidOf /\ FileTypes'
           /\ Visible(index)' /\ Visible(body)' /\ Visible(manifest)' /\ Visible(marker)'
           /\ \A x \in Object \ {o} : /\ marker'[x] = marker[x] /\ body'[x] = body[x]
                                      /\ manifest'[x] = manifest[x]
           /\ \A u \in Tids \ {tidOf[o]} : index'[u] = index[u]
           /\ index'[tidOf[o]].vis \in {index[tidOf[o]].vis, Nothing}
           /\ index'[tidOf[o]].may \subseteq index[tidOf[o]].may \cup {Nothing}
           /\ \A x : x # o /\ Keeps(index[tidOf[o]], x) => Keeps(index[tidOf[o]], x)'
           /\ stop.at > 3 => o \notin Names(tidOf[o])'
           /\ stop.at = 1 => index' = index /\ body' = body
           /\ stop.at < 4 => manifest' = manifest
           /\ stop.at = 1 => /\ stop.how \in {"notCommitted", "killed"} => marker' = marker
                             /\ Keeps(marker[o], "there") => Keeps(marker[o], "there")'
                             /\ marker'[o] = marker[o] \/ marker'[o].vis = "there"
           /\ stop.at \in 2 .. 4 => Keeps(marker[o], "there")'
           /\ stop.at > 4 => manifest'[o].vis = Nothing
           /\ stop.at < 6 => marker'[o].vis = "there" \/ stop.at = 5 \/ (stop.at = 1 /\ marker'[o] = marker[o])
  <1> DEFINE s(i) == Step(stop, i)
             t == tidOf[o]
             m == Disk!Written(marker[o], "there", s(1))
             removes == index[t].vis = o /\ manifest[o].vis # Nothing
             f == IF removes THEN Disk!Written(index[t], Nothing, s(2)) ELSE index[t]
  <1>1. /\ stop.at \in 1 .. 6
        /\ stop.how \in {"ok", "notCommitted", "uncertain", "killed", "torn"}
        /\ stop.how = "ok" <=> stop.at = 6
        /\ s(1) = IF stop.at = 1 THEN stop.how ELSE "ok"
        /\ s(2) = IF stop.at < 2 THEN "none" ELSE IF stop.at = 2 THEN stop.how ELSE "ok"
        /\ s(3) = IF stop.at < 3 THEN "none" ELSE IF stop.at = 3 THEN stop.how ELSE "ok"
        /\ s(4) = IF stop.at < 4 THEN "none" ELSE IF stop.at = 4 THEN stop.how ELSE "ok"
        /\ s(5) = IF stop.at < 5 THEN "none" ELSE IF stop.at = 5 THEN stop.how ELSE "ok"
    BY StopFields
  <1>2. o \in Object /\ t \in Tids /\ Nothing \notin Object
    BY DrawnTids
  <1>3. /\ tidOf' = tidOf
        /\ marker' = [marker EXCEPT ![o] = Disk!Written(m, Nothing, s(5))]
        /\ index' = [index EXCEPT ![t] = IF stop.at > 3 THEN Disk!Settled(f.vis) ELSE f]
        /\ body' = [body EXCEPT ![o] = Disk!Written(@, Nothing, s(3))]
        /\ manifest' = [manifest EXCEPT ![o] = Disk!Written(@, Nothing, s(4))]
    BY <1>2 DEF RetireObject, Removed, BarrierCovers, FileTypes
  <1> HIDE DEF s
  <1>4. /\ marker[o] \in Files({"there"}) /\ marker[o].vis \in marker[o].may
        /\ body[o] \in Files({"there"}) /\ body[o].vis \in body[o].may
        /\ manifest[o] \in Files({"there"}) /\ manifest[o].vis \in manifest[o].may
        /\ index[t] \in Files(Object) /\ index[t].vis \in index[t].may
    BY <1>2 DEF FileTypes, FilesRight, Visible
  <1>5. m \in Files({"there"}) /\ m.vis \in m.may /\ f \in Files(Object) /\ f.vis \in f.may
    BY <1>4, WrittenType
  <1>6. /\ s(1) = "ok" => m.vis = "there" /\ m.may = {"there"}
        /\ s(1) \in {"uncertain", "torn"} => m.vis = "there" /\ m.may = marker[o].may \cup {"there"}
        /\ s(1) \notin {"ok", "uncertain", "torn"} => m = marker[o]
    BY WrittenFields
  <1>7. /\ f.vis \in {index[t].vis, Nothing} /\ f.may \subseteq index[t].may \cup {Nothing}
        /\ removes /\ s(2) = "ok" => f.vis = Nothing /\ f.may = {Nothing}
        /\ ~removes \/ s(2) = "none" => f = index[t]
    BY <1>4, WrittenFields
  <1> HIDE DEF m, f
  <1>8. /\ marker'[o] = Disk!Written(m, Nothing, s(5))
        /\ body'[o] = Disk!Written(body[o], Nothing, s(3))
        /\ manifest'[o] = Disk!Written(manifest[o], Nothing, s(4))
        /\ index'[t] = IF stop.at > 3 THEN Disk!Settled(f.vis) ELSE f
        /\ \A x \in Object \ {o} : marker'[x] = marker[x] /\ body'[x] = body[x] /\ manifest'[x] = manifest[x]
        /\ \A u \in Tids \ {t} : index'[u] = index[u]
    BY <1>2, <1>3 DEF FileTypes
  <1>9. /\ marker'[o] \in Files({"there"}) /\ marker'[o].vis \in marker'[o].may
        /\ body'[o] \in Files({"there"}) /\ body'[o].vis \in body'[o].may
        /\ manifest'[o] \in Files({"there"}) /\ manifest'[o].vis \in manifest'[o].may
    <2>1. marker'[o] \in Files({"there"}) /\ marker'[o].vis \in marker'[o].may
      BY <1>5, <1>8, WrittenType
    <2>2. body'[o] \in Files({"there"}) /\ body'[o].vis \in body'[o].may
      <3>1. body[o] \in Files({"there"}) /\ body[o].vis \in body[o].may
        BY <1>4
      <3>2. /\ Disk!Written(body[o], Nothing, s(3)) \in Files({"there"})
            /\ Disk!Written(body[o], Nothing, s(3)).vis \in Disk!Written(body[o], Nothing, s(3)).may
        BY <3>1, WrittenType
      <3> QED
        BY <1>8, <3>2
    <2>3. manifest'[o] \in Files({"there"}) /\ manifest'[o].vis \in manifest'[o].may
      <3>1. manifest[o] \in Files({"there"}) /\ manifest[o].vis \in manifest[o].may
        BY <1>4
      <3>2. /\ Disk!Written(manifest[o], Nothing, s(4)) \in Files({"there"})
            /\ Disk!Written(manifest[o], Nothing, s(4)).vis \in Disk!Written(manifest[o], Nothing, s(4)).may
        BY <3>1, WrittenType
      <3> QED
        BY <1>8, <3>2
    <2> QED
      BY <2>1, <2>2, <2>3
  <1>10. index'[t] \in Files(Object) /\ index'[t].vis \in index'[t].may
    <2>1. f.vis \in Object \cup {Nothing}
      BY <1>5 DEF Files
    <2> QED
      BY <1>5, <1>8, <2>1, SettledFields
  <1>11. FileTypes'
    <2>1. marker' \in [Object -> Files({"there"})]
      BY <1>3, <1>8, <1>9 DEF FileTypes
    <2>2. body' \in [Object -> Files({"there"})]
      BY <1>3, <1>8, <1>9 DEF FileTypes
    <2>3. manifest' \in [Object -> Files({"there"})]
      BY <1>3, <1>8, <1>9 DEF FileTypes
    <2>4. index' \in [Tids -> Files(Object)]
      BY <1>3, <1>8, <1>10 DEF FileTypes
    <2> QED
      BY <1>3, <2>1, <2>2, <2>3, <2>4 DEF FileTypes
  <1>12. Visible(index)' /\ Visible(body)' /\ Visible(manifest)' /\ Visible(marker)'
    BY <1>8, <1>9, <1>10, <1>11 DEF FileTypes, FilesRight, Visible
  <1>13. /\ index'[t].vis = f.vis
         /\ index'[t].may = IF stop.at > 3 THEN {f.vis} ELSE f.may
    BY <1>8, SettledFields
  <1>14. index'[t].vis \in {index[t].vis, Nothing} /\ index'[t].may \subseteq index[t].may \cup {Nothing}
    BY <1>4, <1>7, <1>13
  <1>15. ASSUME NEW x, x # o, Keeps(index[t], x) PROVE Keeps(index[t], x)'
    <2>1. index[t].vis = x /\ index[t].may = {x} /\ tidOf' = tidOf
      BY <1>3, <1>15 DEF Keeps
    <2>2. f = index[t]
      BY <1>7, <1>15, <2>1
    <2> QED
      BY <1>13, <2>1, <2>2 DEF Keeps
  <1>16. stop.at > 3 => o \notin Names(t)'
    <2>1. index[t].vis = o => manifest[o].vis # Nothing
      BY <1>2, RelayAssumption DEF FilesRight, Startable, Keeps
    <2>2. stop.at > 3 => index'[t].vis = f.vis /\ index'[t].may = {f.vis} /\ f.vis # o
      BY <1>1, <1>2, <1>7, <1>13, <2>1
    <2> QED
      BY <1>3, <2>2 DEF Names
  <1>17. stop.at = 1 => index' = index /\ body' = body
    <2>1. stop.at = 1 => body'[o] = body[o] /\ index'[t] = index[t]
      BY <1>1, <1>7, <1>8, WrittenFields
    <2> QED
      BY <1>2, <1>3, <2>1 DEF FileTypes
  <1>18. stop.at < 4 => manifest' = manifest
    <2>1. stop.at < 4 => manifest'[o] = manifest[o]
      BY <1>1, <1>8, WrittenFields
    <2> QED
      BY <1>2, <1>3, <2>1 DEF FileTypes
  <1>19. stop.at < 5 => marker'[o] = m
    BY <1>1, <1>8, WrittenFields
  <1>20. stop.at = 1 => /\ stop.how \in {"notCommitted", "killed"} => marker' = marker
                        /\ Keeps(marker[o], "there") => Keeps(marker[o], "there")'
                        /\ marker'[o] = marker[o] \/ marker'[o].vis = "there"
    <2>1. stop.at = 1 /\ stop.how \in {"notCommitted", "killed"} => marker' = marker
      BY <1>1, <1>2, <1>3, <1>6, <1>8, <1>19 DEF FileTypes
    <2>2. stop.at = 1 => marker'[o] = marker[o] \/ marker'[o].vis = "there"
      BY <1>1, <1>6, <1>19
    <2>3. stop.at = 1 /\ Keeps(marker[o], "there") => Keeps(marker[o], "there")'
      BY <1>1, <1>6, <1>19 DEF Keeps
    <2> QED
      BY <2>1, <2>2, <2>3
  <1>21. stop.at \in 2 .. 4 => Keeps(marker[o], "there")'
    BY <1>1, <1>6, <1>19 DEF Keeps
  <1>22. stop.at > 4 => manifest'[o].vis = Nothing
    BY <1>1, <1>8, WrittenFields
  <1>23. stop.at < 6 => marker'[o].vis = "there" \/ stop.at = 5 \/ (stop.at = 1 /\ marker'[o] = marker[o])
    BY <1>1, <1>20, <1>21 DEF Keeps
  <1> HIDE DEF removes
  <1> QED
    BY <1>3, <1>8, <1>11, <1>12, <1>14, <1>15, <1>16, <1>17, <1>18, <1>20, <1>21, <1>22, <1>23

LEMMA FilesRetire ==
    ASSUME FileTypes, FilesRight, NEW o \in Drawn, NEW stop \in Stops(5), RetireObject(o, stop),
           DirectoryBarrier
    PROVE  /\ FilesStep({o})
           /\ stop.at > 1 => Final(o)'
           /\ stop.at = 1 /\ stop.how \in {"notCommitted", "killed"} => Spares(o)
  <1> DEFINE t == tidOf[o]
  <1>1. stop.at \in 1 .. 6
    BY StopFields
  <1>2. o \in Object /\ t \in Tids /\ Nothing \notin Object \cup {"there"}
    BY DrawnTids, RelayAssumption
  <1>3. /\ tidOf' = tidOf /\ FileTypes'
        /\ Visible(index)' /\ Visible(body)' /\ Visible(manifest)' /\ Visible(marker)'
        /\ \A x \in Object \ {o} : marker'[x] = marker[x] /\ body'[x] = body[x] /\ manifest'[x] = manifest[x]
        /\ \A u \in Tids \ {t} : index'[u] = index[u]
    BY RetireFields
  <1>4. /\ index'[t].vis \in {index[t].vis, Nothing}
        /\ index'[t].may \subseteq index[t].may \cup {Nothing}
        /\ stop.at > 3 => o \notin Names(t)'
        /\ \A x : x # o /\ Keeps(index[t], x) => Keeps(index[t], x)'
    BY RetireFields
  <1>5. /\ stop.at = 1 => index' = index /\ body' = body
        /\ stop.at < 4 => manifest' = manifest
        /\ stop.at = 1 => /\ stop.how \in {"notCommitted", "killed"} => marker' = marker
                          /\ Keeps(marker[o], "there") => Keeps(marker[o], "there")'
                          /\ marker'[o] = marker[o] \/ marker'[o].vis = "there"
        /\ stop.at \in 2 .. 4 => Keeps(marker[o], "there")'
        /\ stop.at > 4 => manifest'[o].vis = Nothing
    BY RetireFields
  <1>6. Drawn' = Drawn /\ DrawnInTurn'
    BY <1>3 DEF Drawn, DrawnInTurn, FilesRight
  <1>7. FreshRight'
    BY <1>3, DrawnTids DEF FreshRight, FilesRight
  <1>8. \A u \in Tids : Names(u)' \subseteq Names(u)
    <2>1. Names(t)' \subseteq Names(t)
      BY <1>3, <1>4 DEF Names
    <2> QED
      BY <1>3, <2>1 DEF Names
  <1>9. NamesRight'
    BY <1>3, <1>8 DEF FilesRight, NamesRight
  <1>10. Startable'
    <2>1. ASSUME NEW u \in Tids, NEW x \in Names(u)' PROVE Whole(x)'
      <3>1. x \in Names(u) /\ x \in Object /\ tidOf[x] = u
        BY <1>8, <2>1 DEF Names, FileTypes, Files, FilesRight, NamesRight
      <3>2. Whole(x)
        BY <3>1 DEF FilesRight, Startable, Names, Whole
      <3>3. CASE x # o
        BY <1>3, <3>1, <3>2, <3>3 DEF Whole, Keeps
      <3>4. CASE x = o
        <4>1. stop.at \in 1 .. 3
          BY <1>1, <1>3, <1>4, <2>1, <3>1, <3>4 DEF Names
        <4>2. Keeps(manifest[o], "there")'
          BY <1>5, <3>2, <3>4, <4>1 DEF Whole, Keeps
        <4>3. Keeps(body[o], "there")' \/ Keeps(marker[o], "there")'
          BY <1>5, <3>2, <3>4, <4>1 DEF Whole, Keeps
        <4> QED
          BY <3>4, <4>2, <4>3 DEF Whole
      <3> QED
        BY <3>3, <3>4
    <2> QED
      BY <2>1 DEF Startable, Names, Whole
  <1>11. MarkerRight'
    <2>1. ASSUME marker'[o].vis = Nothing, manifest'[o].vis # Nothing PROVE marker'[o].may = {Nothing}
      <3>1. stop.at = 1
        BY <1>1, <1>2, <1>5, <2>1 DEF Keeps
      <3>2. marker'[o] = marker[o] /\ manifest' = manifest
        BY <1>2, <1>5, <2>1, <3>1
      <3> QED
        BY <1>2, <2>1, <3>2 DEF FilesRight, MarkerRight
    <2> QED
      BY <1>3, <2>1 DEF FilesRight, MarkerRight
  <1>12. ASSUME NEW x \in Drawn, x # o PROVE Leaves(x) /\ Spares(x)
    <2>1. x \in Object /\ tidOf[x] \in Tids /\ x # Nothing
      BY DrawnTids
    <2>2. /\ marker'[x] = marker[x] /\ body'[x] = body[x] /\ manifest'[x] = manifest[x]
          /\ tidOf' = tidOf
      BY <1>3, <1>12, <2>1
    <2>3. Leaves(x)
      <3>1. index'[tidOf[x]].vis \in {index[tidOf[x]].vis, Nothing}
            /\ index'[tidOf[x]].may \subseteq index[tidOf[x]].may \cup {Nothing}
        BY <1>3, <1>4, <2>1
      <3> QED
        BY <2>1, <2>2, <3>1 DEF Leaves, Final, Keeps
    <2>4. Spares(x)
      <3>1. Keeps(index[tidOf[x]], x) => Keeps(index[tidOf[x]], x)'
        <4>1. CASE tidOf[x] = t
          BY <1>4, <1>12, <2>2, <4>1 DEF Keeps
        <4>2. CASE tidOf[x] # t
          BY <1>3, <2>1, <4>2 DEF Keeps
        <4> QED
          BY <4>1, <4>2
      <3>2. Durable(x) => Durable(x)'
        BY <2>2, <3>1 DEF Durable, Keeps
      <3> QED
        BY <3>2 DEF Spares
    <2> QED
      BY <2>3, <2>4
  <1>13. stop.at > 1 => Final(o)'
    <2>1. CASE stop.at \in 2 .. 4
      BY <1>5, <2>1 DEF Final
    <2>2. CASE stop.at > 3
      BY <1>2, <1>3, <1>4, <2>2, DrawnTids DEF Final, Names
    <2> QED
      BY <1>1, <2>1, <2>2
  <1>14. Leaves(o)
    <2>1. CASE stop.at = 1
      BY <1>3, <1>5, <2>1 DEF Leaves, Final
    <2>2. CASE stop.at > 1
      BY <1>13, <2>2 DEF Leaves
    <2> QED
      BY <1>1, <2>1, <2>2
  <1>15. stop.at = 1 /\ stop.how \in {"notCommitted", "killed"} => Spares(o)
    BY <1>3, <1>5 DEF Spares, Durable, Keeps
  <1>16. FilesRight'
    BY <1>3, <1>6, <1>7, <1>9, <1>10, <1>11 DEF FilesRight
  <1>17. \A x \in Drawn : tidOf'[x] = tidOf[x] /\ Leaves(x) /\ (x \notin {o} => Spares(x))
    BY <1>3, <1>12, <1>14
  <1> QED
    BY <1>3, <1>6, <1>13, <1>15, <1>16, <1>17 DEF FilesStep

-----------------------------------------------------------------------------
(* A power loss leaves of every file one of its possible contents.          *)
LEMMA KeptFields ==
    ASSUME NEW C, IsFiniteSet(C), NEW file \in Files(C), file.vis \in file.may,
           Cardinality(file.may) > 1
    PROVE  (CHOOSE v \in file.may : v # file.vis) \in file.may
  <1>1. IsFiniteSet(file.may)
    BY FS_Subset, FS_AddElement DEF Files
  <1>2. \E v \in file.may : v # file.vis
    <2>1. SUFFICES ASSUME file.may = {file.vis} PROVE FALSE
      OBVIOUS
    <2>2. Cardinality({file.vis}) = 1
      BY FS_Singleton
    <2> QED
      BY <2>1, <2>2
  <1> QED
    BY <1>2

(* Settling each file on one of its possible contents.                      *)
LEMMA FilesPower ==
    ASSUME FileTypes, FilesRight, PowerFails
    PROVE  FilesStep({})
  <1>1. PICK lb \in SUBSET Uncertain(body), lm \in SUBSET Uncertain(manifest), lk \in SUBSET Uncertain(marker) :
           body' = Kept(body, lb) /\ manifest' = Kept(manifest, lm) /\ marker' = Kept(marker, lk)
    BY DEF PowerFails
  <1>2. PICK left \in [Tids -> Object \cup {Nothing}] :
           /\ \A t \in Tids : left[t] \in index[t].may
           /\ index' = [t \in Tids |-> Disk!Settled(left[t])]
    BY DEF PowerFails
  <1>3. tidOf' = tidOf
    BY DEF PowerFails
  <1>4. ASSUME NEW files \in [Object -> Files({"there"})], Visible(files), NEW lost \in SUBSET Uncertain(files)
        PROVE  /\ Kept(files, lost) \in [Object -> Files({"there"})]
               /\ \A x \in Object : \E v \in files[x].may : /\ Kept(files, lost)[x] = Disk!Settled(v)
                                                            /\ Kept(files, lost)[x].vis = v
                                                            /\ Kept(files, lost)[x].may = {v}
    <2>1. ASSUME NEW x \in Object
          PROVE  \E v \in files[x].may : Kept(files, lost)[x] = Disk!Settled(v)
      <3>1. files[x] \in Files({"there"}) /\ files[x].vis \in files[x].may /\ IsFiniteSet({"there"})
        BY <1>4, FS_Singleton DEF Visible
      <3>2. x \in lost => Cardinality(files[x].may) > 1
        BY <1>4 DEF Uncertain
      <3>3. x \in lost => (CHOOSE v \in files[x].may : v # files[x].vis) \in files[x].may
        BY <3>1, <3>2, KeptFields
      <3> QED
        BY <3>1, <3>3 DEF Kept
    <2>2. \A x \in Object : \A v \in files[x].may : v \in {"there"} \cup {Nothing}
      BY DEF Files
    <2>3. \A x \in Object : Kept(files, lost)[x] \in Files({"there"})
      BY <2>1, <2>2, SettledFields
    <2>4. Kept(files, lost) \in [Object -> Files({"there"})]
      BY <2>3 DEF Kept
    <2>5. \A x \in Object : \E v \in files[x].may : /\ Kept(files, lost)[x] = Disk!Settled(v)
                                                    /\ Kept(files, lost)[x].vis = v
                                                    /\ Kept(files, lost)[x].may = {v}
      BY <2>1, SettledFields
    <2> QED
      BY <2>4, <2>5
  <1>5. /\ body' \in [Object -> Files({"there"})]
        /\ \A x \in Object : \E v \in body[x].may : /\ body'[x] = Disk!Settled(v)
                                                    /\ body'[x].vis = v /\ body'[x].may = {v}
    BY <1>1, <1>4 DEF FileTypes, FilesRight
  <1>6. /\ manifest' \in [Object -> Files({"there"})]
        /\ \A x \in Object : \E v \in manifest[x].may : /\ manifest'[x] = Disk!Settled(v)
                                                        /\ manifest'[x].vis = v /\ manifest'[x].may = {v}
    <2>1. manifest \in [Object -> Files({"there"})] /\ Visible(manifest) /\ manifest' = Kept(manifest, lm)
      BY <1>1 DEF FileTypes, FilesRight
    <2> QED
      BY <1>4, <2>1
  <1>7. /\ marker' \in [Object -> Files({"there"})]
        /\ \A x \in Object : \E v \in marker[x].may : /\ marker'[x] = Disk!Settled(v)
                                                      /\ marker'[x].vis = v /\ marker'[x].may = {v}
    <2>1. marker \in [Object -> Files({"there"})] /\ Visible(marker) /\ marker' = Kept(marker, lk)
      BY <1>1 DEF FileTypes, FilesRight
    <2> QED
      BY <1>4, <2>1
  <1>8. /\ index' \in [Tids -> Files(Object)]
        /\ \A t \in Tids : index'[t].vis = left[t] /\ index'[t].may = {left[t]}
    <2>1. \A t \in Tids : left[t] \in Object \cup {Nothing}
      OBVIOUS
    <2> QED
      BY <1>2, <2>1, SettledFields
  <1>9. FileTypes'
    BY <1>3, <1>5, <1>6, <1>7, <1>8 DEF FileTypes
  <1>10. /\ \A v : \A x \in Object : Keeps(body[x], v) => Keeps(body[x], v)'
         /\ \A v : \A x \in Object : Keeps(manifest[x], v) => Keeps(manifest[x], v)'
         /\ \A v : \A x \in Object : Keeps(marker[x], v) => Keeps(marker[x], v)'
         /\ \A v : \A t \in Tids : Keeps(index[t], v) => Keeps(index[t], v)'
    <2>1. \A v : \A x \in Object : Keeps(body[x], v) => Keeps(body[x], v)'
      BY <1>5 DEF Keeps
    <2>2. \A v : \A x \in Object : Keeps(manifest[x], v) => Keeps(manifest[x], v)'
      BY <1>6 DEF Keeps
    <2>3. \A v : \A x \in Object : Keeps(marker[x], v) => Keeps(marker[x], v)'
      BY <1>7 DEF Keeps
    <2>4. \A v : \A t \in Tids : Keeps(index[t], v) => Keeps(index[t], v)'
      BY <1>2, <1>8 DEF Keeps
    <2> QED
      BY <2>1, <2>2, <2>3, <2>4
  <1>11. Drawn' = Drawn /\ DrawnInTurn'
    BY <1>3 DEF Drawn, DrawnInTurn, FilesRight
  <1>12. FreshRight'
    <2>1. NoFile.may = {Nothing}
      BY SettledFields DEF NoFile
    <2>2. ASSUME NEW x \in Object, tidOf[x] = Nothing
          PROVE  body'[x] = NoFile /\ manifest'[x] = NoFile /\ marker'[x] = NoFile
      <3>1. body[x].may = {Nothing} /\ manifest[x].may = {Nothing} /\ marker[x].may = {Nothing}
        BY <2>1, <2>2 DEF FilesRight, FreshRight
      <3> QED
        BY <1>5, <1>6, <1>7, <3>1 DEF NoFile
    <2> QED
      BY <1>3, <2>2 DEF FreshRight
  <1>13. \A t \in Tids : Names(t)' \subseteq Names(t)
    BY <1>2, <1>8 DEF Names
  <1>14. NamesRight'
    BY <1>3, <1>13 DEF FilesRight, NamesRight
  <1>15. Startable'
    <2>1. \A t \in Tids : \A x \in Names(t) : x \in Object
      BY DEF Names, FileTypes, Files
    <2>2. \A t \in Tids : \A x \in Names(t) : Whole(x)
      BY DEF FilesRight, Startable, Names, Whole
    <2>3. \A t \in Tids : \A x \in Names(t)' : Whole(x)'
      BY <1>10, <1>13, <2>1, <2>2 DEF Whole
    <2> QED
      BY <2>3 DEF Startable, Names, Whole
  <1>16. MarkerRight'
    BY <1>7 DEF MarkerRight
  <1>17. Visible(index)' /\ Visible(body)' /\ Visible(manifest)' /\ Visible(marker)'
    <2>1. \A x \in Object : body'[x].vis \in body'[x].may
      BY <1>5
    <2>2. \A x \in Object : manifest'[x].vis \in manifest'[x].may
      BY <1>6
    <2>3. \A x \in Object : marker'[x].vis \in marker'[x].may
      BY <1>7
    <2> QED
      BY <1>8, <1>9, <2>1, <2>2, <2>3 DEF FileTypes, Visible
  <1>18. ASSUME NEW x \in Drawn PROVE Leaves(x) /\ Spares(x)
    <2>1. x \in Object /\ tidOf[x] \in Tids
      BY DrawnTids
    <2>2. index'[tidOf[x]].vis \in index[tidOf[x]].may /\ index'[tidOf[x]].may \subseteq index[tidOf[x]].may
      BY <1>2, <1>8, <2>1
    <2>3. Leaves(x)
      BY <1>3, <1>10, <2>1, <2>2 DEF Leaves, Final
    <2>4. Spares(x)
      <3>1. Durable(x) => /\ Keeps(index[tidOf[x]], x)' /\ Keeps(marker[x], Nothing)'
                          /\ Keeps(body[x], "there")' /\ Keeps(manifest[x], "there")'
        BY <1>3, <1>10, <2>1 DEF Durable
      <3> QED
        BY <3>1 DEF Spares, Durable
    <2> QED
      BY <2>3, <2>4
  <1>19. FilesRight'
    BY <1>11, <1>12, <1>14, <1>15, <1>16, <1>17 DEF FilesRight
  <1> QED
    BY <1>3, <1>9, <1>11, <1>18, <1>19 DEF FilesStep

-----------------------------------------------------------------------------
(* What a step keeps of the workers and plans it leaves alone.              *)

LEMMA FinalNotDurable ==
    ASSUME FileTypes, NEW o \in Object, Durable(o)
    PROVE  ~Final(o)
  BY RelayAssumption DEF Durable, Final, Keeps

LEMMA HistoryKept ==
    ASSUME FileTypes, HistoryRight, NEW touched, FilesStep(touched),
           \A o \in acked' : (o \in acked /\ o \notin touched) \/ (o \in Drawn' /\ Durable(o)'),
           \A o \in purged' : o \in purged \/ (o \in Drawn /\ Final(o))
    PROVE  HistoryRight'
  <1>1. ASSUME NEW o \in acked' PROVE o \in Drawn' /\ Durable(o)'
    <2>1. CASE o \in acked /\ o \notin touched
      <3>1. o \in Drawn /\ Durable(o)
        BY <2>1 DEF HistoryRight, DepositsDurable, Durable
      <3> QED
        BY <2>1, <3>1 DEF FilesStep, Spares
    <2> QED
      BY <1>1, <2>1
  <1>2. ASSUME NEW o \in purged' PROVE o \in Drawn' /\ Final(o)'
    <2>1. o \in Drawn /\ Final(o)
      BY <1>2 DEF HistoryRight, PurgesFinal, Final
    <2> QED
      BY <2>1 DEF FilesStep, Leaves
  <1>3. DepositsDurable'
    BY <1>1 DEF DepositsDurable, Durable
  <1>4. PurgesFinal'
    BY <1>2 DEF PurgesFinal, Final
  <1> QED
    BY <1>1, <1>2, <1>3, <1>4 DEF HistoryRight

LEMMA StoreKept ==
    ASSUME FileTypes, MemoryTypes, StoreRight, NEW touched, FilesStep(touched),
           \A t \in Tids : store'[t] \in {store[t], Nothing},
           \A o \in retired' : o \in retired \/ (o \in Drawn /\ Final(o))
    PROVE  StoreRight'
  <1>1. ASSUME NEW t \in Tids, store'[t] # Nothing PROVE tidOf'[store'[t]] = t
    <2>1. tidOf[store[t]] = t /\ store'[t] = store[t] /\ store[t] \in Drawn
      BY <1>1, DrawnTids DEF StoreRight, MemoryTypes
    <2> QED
      BY <2>1 DEF FilesStep
  <1>2. ASSUME NEW o \in retired' PROVE o \in Drawn' /\ Final(o)'
    <2>1. o \in Drawn /\ Final(o)
      BY <1>2 DEF StoreRight
    <2> QED
      BY <2>1 DEF FilesStep, Leaves
  <1> QED
    BY <1>1, <1>2 DEF StoreRight

(* What a plan retires stays in the store until it is retired.              *)
Forgets == \A t \in Tids : store[t] # Nothing => store'[t] = store[t] \/ store[t] \in retired

LEMMA RetirableKept ==
    ASSUME FileTypes, MemoryTypes, StoreRight, NEW touched, FilesStep(touched), Forgets,
           NEW o \in Drawn, store[tidOf[o]] = o \/ Final(o)
    PROVE  o \in Drawn' /\ (store'[tidOf'[o]] = o \/ Final(o)')
  <1>1. o \in Drawn' /\ tidOf'[o] = tidOf[o] /\ tidOf[o] \in Tids /\ o # Nothing /\ Leaves(o)
    BY DrawnTids DEF FilesStep
  <1>2. Final(o) \/ store'[tidOf[o]] = o
    BY <1>1 DEF Forgets, StoreRight
  <1> QED
    BY <1>1, <1>2 DEF Leaves

LEMMA PlanKept ==
    ASSUME FileTypes, MemoryTypes, StoreRight, NEW touched, FilesStep(touched), Forgets,
           NEW p \in Planners, PlanRight(p), plan'[p] = plan[p]
    PROVE  PlanRight(p)'
  <1>1. Retires(p)' = Retires(p)
    BY DEF Retires
  <1>2. \A o \in Drawn : o \in Drawn' /\ (Final(o) => Final(o)')
    BY DEF FilesStep, Leaves
  <1>3. \A o \in Retires(p) : store'[tidOf'[o]] = o \/ Final(o)'
    BY RetirableKept DEF PlanRight
  <1>4. plan[p].state = "committing" => plan[p].doing \in Retires(p)
    BY DEF PlanRight, Retires
  <1>5. (Retires(p) \cup plan[p].covers \subseteq Drawn)'
    BY <1>1, <1>2 DEF PlanRight
  <1>6. (plan[p].state = "committing" => Final(plan[p].doing))'
    BY <1>2, <1>4 DEF PlanRight
  <1>7. (\A o \in plan[p].covers : o \in Retires(p) \/ Final(o))'
    BY <1>1, <1>2 DEF PlanRight
  <1> QED
    BY <1>1, <1>3, <1>5, <1>6, <1>7 DEF PlanRight

(* The writes of a worker that are pending.                                 *)
Pending(d) == {i \in DOMAIN EntriesOf[d] : deposit[d].result[i] = "pending"}
Reserved(d, i) ==
    reserved[EntriesOf[d][i].tid] = <<d, i>> /\ store[EntriesOf[d][i].tid] = Nothing

LEMMA DepositKept ==
    ASSUME FileTypes, NEW touched, FilesStep(touched), NEW d \in Deposits, DepositRight(d),
           deposit'[d] = deposit[d], \A i \in Pending(d) : Reserved(d, i)',
           deposit[d].state = "written" => deposit[d].object \notin touched
    PROVE  DepositRight(d)'
  <1>1. Pending(d)' = Pending(d) /\ Entry(d)' = Entry(d)
    BY DEF Pending, Entry
  <1>2. \A o \in Drawn : o \in Drawn' /\ tidOf'[o] = tidOf[o] /\ (o \notin touched /\ Durable(o) => Durable(o)')
    BY DEF FilesStep, Spares
  <1>3. \A i \in DOMAIN EntriesOf[d] : deposit'[d].result[i] = "pending" => Reserved(d, i)'
    BY <1>1 DEF Pending
  <1>4. (deposit[d].state = "written" =>
          /\ deposit[d].object \in Drawn /\ Durable(deposit[d].object)
          /\ tidOf[deposit[d].object] = Entry(d).tid)'
    BY <1>1, <1>2 DEF DepositRight
  <1>5. (deposit[d].state = "checking" => deposit[d].object \in Drawn)'
    BY <1>2 DEF DepositRight
  <1> QED
    BY <1>3, <1>4, <1>5 DEF DepositRight, Reserved

LEMMA EntryTids ==
    ASSUME NEW d \in Deposits
    PROVE  /\ DOMAIN EntriesOf[d] \subseteq Nat \ {0} /\ d \in Deposits
           /\ \A i \in DOMAIN EntriesOf[d] : EntriesOf[d][i] \in Image /\ EntriesOf[d][i].tid \in Tids
           /\ \A i \in DOMAIN EntriesOf[d] : <<d, i>> \in Reservation /\ <<d, i>> # Nothing
  <1>1. EntriesOf[d] \in Seq(Image)
    BY RelayAssumption
  <1>2. DOMAIN EntriesOf[d] \subseteq Nat \ {0} /\ \A i \in DOMAIN EntriesOf[d] : EntriesOf[d][i] \in Image
    BY <1>1
  <1>3. \A i \in DOMAIN EntriesOf[d] : EntriesOf[d][i].tid \in Tids
    BY <1>2 DEF Image
  <1>4. \A i \in DOMAIN EntriesOf[d] : <<d, i>> \in Reservation /\ <<d, i>> # Nothing
    BY <1>2, RelayAssumption DEF Reservation
  <1> QED
    BY <1>2, <1>3, <1>4

(* The workers of a process that died.                                      *)
LEMMA Dead ==
    ASSUME FileTypes, MemoryTypes, NodeDies
    PROVE  /\ MemoryTypes' /\ StoreRight' /\ DownRight'
           /\ \A p \in Planners : PlanRight(p)'
           /\ \A d \in Deposits : DepositRight(d)'
  <1>1. ASSUME NEW d \in Deposits
        PROVE  /\ deposit'[d] \in DepositOf(d) /\ deposit'[d].state \in {"arrived", "ended"}
               /\ \A i \in DOMAIN EntriesOf[d] : deposit'[d].result[i] = "none"
    BY DEF NodeDies, LostDeposit, Arrived, DepositOf, Result
  <1>2. ASSUME NEW p \in Planners
        PROVE  /\ plan'[p] \in Plan /\ plan'[p].retire = {} /\ plan'[p].doing = Nothing /\ plan'[p].covers = {}
               /\ plan'[p].state \in {"none", "ended"}
    BY DEF NodeDies, NoPlan, Plan
  <1>3. MemoryTypes'
    <2>1. deposit' \in [Deposits -> UNION {DepositOf(d) : d \in Deposits}]
      BY <1>1 DEF NodeDies
    <2>2. plan' \in [Planners -> Plan]
      BY <1>2 DEF NodeDies
    <2>3. /\ node' \in {"up", "down", "starting"} /\ unreconciled' \subseteq Object
          /\ store' \in [Tids -> Object \cup {Nothing}] /\ retired' \subseteq Object
          /\ reserved' \in [Tids -> Reservation \cup {Nothing}]
      BY DEF NodeDies
    <2> QED
      BY <1>1, <2>1, <2>2, <2>3 DEF MemoryTypes
  <1>4. StoreRight'
    BY DEF StoreRight, NodeDies
  <1>5. DownRight'
    BY <1>1, <1>2 DEF DownRight, NodeDies, Retires
  <1>6. ASSUME NEW p \in Planners PROVE PlanRight(p)'
    BY <1>2 DEF PlanRight, Retires
  <1>7. ASSUME NEW d \in Deposits PROVE DepositRight(d)'
    BY <1>1 DEF DepositRight
  <1> QED
    BY <1>3, <1>4, <1>5, <1>6, <1>7

LEMMA Assembled ==
    ASSUME NEW touched, FilesStep(touched), MemoryTypes', StoreRight', DownRight', HistoryRight',
           \A p \in Planners : PlanRight(p)', \A d \in Deposits : DepositRight(d)'
    PROVE  RelayInv'
  BY DEF FilesStep, RelayInv, RelayTypes

-----------------------------------------------------------------------------
(* Steps of the workers.                                                    *)

LEMMA DepositSet ==
    ASSUME MemoryTypes, NEW d \in Deposits, NEW r \in DepositOf(d), deposit' = [deposit EXCEPT ![d] = r]
    PROVE  /\ deposit' \in [Deposits -> UNION {DepositOf(e) : e \in Deposits}]
           /\ \A e \in Deposits : deposit'[e] \in DepositOf(e)
           /\ deposit'[d] = r /\ \A e \in Deposits \ {d} : deposit'[e] = deposit[e]
  BY DEF MemoryTypes

(* Planning keeps the reservations whose write is pending.                  *)
LEMMA TidyFields ==
    ASSUME FileTypes, MemoryTypes, StoreRight, \A d \in Deposits : DepositRight(d),
           NEW reservations \in [Tids -> Reservation \cup {Nothing}], Tidy(reservations)
    PROVE  /\ store' \in [Tids -> Object \cup {Nothing}] /\ retired' = {}
           /\ reserved' = reservations /\ reserved' \in [Tids -> Reservation \cup {Nothing}]
           /\ \A t \in Tids : store'[t] = IF store[t] \in retired THEN Nothing ELSE store[t]
           /\ Forgets /\ \A t \in Tids : ~Contains(t) => store'[t] = Nothing
  BY DEF Tidy, Reaped, MemoryTypes, Forgets, Contains

LEMMA LiveFields ==
    ASSUME MemoryTypes, \A d \in Deposits : DepositRight(d)
    PROVE  /\ LiveReservations \in [Tids -> Reservation \cup {Nothing}]
           /\ \A d \in Deposits : \A i \in Pending(d) :
                 LiveReservations[EntriesOf[d][i].tid] = <<d, i>> /\ store[EntriesOf[d][i].tid] = Nothing
  <1>1. LiveReservations \in [Tids -> Reservation \cup {Nothing}]
    BY DEF LiveReservations, MemoryTypes
  <1>2. ASSUME NEW d \in Deposits, NEW i \in Pending(d)
        PROVE  LiveReservations[EntriesOf[d][i].tid] = <<d, i>> /\ store[EntriesOf[d][i].tid] = Nothing
    <2>1. i \in DOMAIN EntriesOf[d] /\ deposit[d].result[i] = "pending"
      BY DEF Pending
    <2>2. EntriesOf[d][i].tid \in Tids /\ <<d, i>> # Nothing
      BY <2>1, EntryTids
    <2>3. reserved[EntriesOf[d][i].tid] = <<d, i>> /\ store[EntriesOf[d][i].tid] = Nothing
      BY <2>1 DEF DepositRight
    <2>4. Live(<<d, i>>)
      BY <2>1, <2>2 DEF Live, OutcomeOf
    <2> QED
      BY <2>2, <2>3, <2>4 DEF LiveReservations
  <1> QED
    BY <1>1, <1>2

(* A step of one worker under the lock, which writes no file.               *)
LEMMA Planned ==
    ASSUME RelayInv, node = "up", NEW d \in Deposits, NEW r \in DepositOf(d),
           UNCHANGED <<relayFiles, start, plan, relayHistory>>,
           deposit' = [deposit EXCEPT ![d] = r],
           NEW reservations \in [Tids -> Reservation \cup {Nothing}], Tidy(reservations),
           \A e \in Deposits \ {d} : \A i \in Pending(e) : reservations[EntriesOf[e][i].tid] = <<e, i>>,
           DepositRight(d)'
    PROVE  RelayInv'
  <1>1. FilesStep({})
    BY FilesSame DEF RelayInv, RelayTypes
  <1>2. /\ FileTypes /\ MemoryTypes /\ StoreRight /\ HistoryRight
        /\ \A e \in Deposits : DepositRight(e)
        /\ \A p \in Planners : PlanRight(p)
    BY DEF RelayInv, RelayTypes
  <1>3. /\ store' \in [Tids -> Object \cup {Nothing}] /\ retired' = {}
        /\ reserved' = reservations /\ reserved' \in [Tids -> Reservation \cup {Nothing}]
        /\ \A t \in Tids : store'[t] = IF store[t] \in retired THEN Nothing ELSE store[t]
        /\ Forgets
    BY <1>2, TidyFields
  <1>4. /\ deposit' \in [Deposits -> UNION {DepositOf(e) : e \in Deposits}]
        /\ \A e \in Deposits : deposit'[e] \in DepositOf(e)
        /\ \A e \in Deposits \ {d} : deposit'[e] = deposit[e]
    BY <1>2, DepositSet
  <1>5. MemoryTypes'
    BY <1>2, <1>3, <1>4 DEF MemoryTypes, start
  <1>6. StoreRight'
    BY <1>1, <1>2, <1>3, StoreKept
  <1>7. HistoryRight'
    BY <1>1, <1>2, HistoryKept DEF relayHistory
  <1>8. DownRight'
    BY DEF DownRight, start
  <1>9. ASSUME NEW p \in Planners PROVE PlanRight(p)'
    BY <1>1, <1>2, <1>3, PlanKept
  <1>10. ASSUME NEW e \in Deposits PROVE DepositRight(e)'
    <2>1. CASE e = d
      BY <2>1
    <2>2. CASE e # d
      <3>1. ASSUME NEW i \in Pending(e) PROVE Reserved(e, i)'
        <4>1. EntriesOf[e][i].tid \in Tids /\ store[EntriesOf[e][i].tid] = Nothing
          BY <1>2, EntryTids, LiveFields DEF Pending
        <4> QED
          BY <1>3, <2>2, <4>1 DEF Reserved
      <3> QED
        BY <1>1, <1>2, <1>4, <2>2, <3>1, DepositKept
    <2> QED
      BY <2>1, <2>2
  <1> QED
    BY <1>1, <1>5, <1>6, <1>7, <1>8, <1>9, <1>10, Assembled

LEMMA Planless ==
    ASSUME NEW d \in Deposits, deposit'[d].state \in {"arrived", "refused", "stored", "ended"},
           \A i \in DOMAIN EntriesOf[d] : deposit'[d].result[i] = "pending" => Reserved(d, i)'
    PROVE  DepositRight(d)'
  BY DEF DepositRight, Reserved

LEMMA PlanEntryKeeps ==
    ASSUME RelayInv, NEW d \in Deposits, PlanEntry(d)
    PROVE  RelayInv'
  <1>0. PICK i : i = deposit[d].at
    OBVIOUS
  <1> DEFINE t == EntriesOf[d][i].tid
  <1>1. /\ FileTypes /\ MemoryTypes /\ StoreRight /\ \A e \in Deposits : DepositRight(e)
        /\ deposit[d] \in DepositOf(d)
    BY DEF RelayInv, RelayTypes, MemoryTypes
  <1>2. /\ node = "up" /\ UNCHANGED <<relayFiles, start, plan, relayHistory>>
        /\ deposit[d].state = "arrived" /\ i \in DOMAIN EntriesOf[d] /\ t = Entry(d).tid
    BY <1>0 DEF PlanEntry, Up, Entry
  <1>3. t \in Tids /\ i \in Nat /\ <<d, i>> \in Reservation /\ <<d, i>> # Nothing
    BY <1>2, EntryTids
  <1>4. /\ LiveReservations \in [Tids -> Reservation \cup {Nothing}]
        /\ \A e \in Deposits : \A j \in Pending(e) :
              /\ LiveReservations[EntriesOf[e][j].tid] = <<e, j>> /\ store[EntriesOf[e][j].tid] = Nothing
              /\ EntriesOf[e][j].tid \in Tids /\ <<e, j>> # Nothing
    BY <1>1, LiveFields, EntryTids DEF Pending
  <1> HIDE DEF t
  <1>5. ASSUME Tidy(LiveReservations) PROVE \A j \in Pending(d) : Reserved(d, j)'
    BY <1>1, <1>4, <1>5, TidyFields DEF Reserved
  <1>6. CASE Refused(d)
    <2> DEFINE r == [deposit[d] EXCEPT !.state = "refused"]
    <2>1. r \in DepositOf(d) /\ deposit' = [deposit EXCEPT ![d] = r] /\ r.state = "refused"
          /\ r.result = deposit[d].result
      BY <1>1, <1>6 DEF Refused, Becomes, DepositOf
    <2> HIDE DEF r
    <2>2. Tidy(LiveReservations)
      BY <1>6 DEF Refused
    <2>3. deposit'[d] = r
      BY <1>1, <2>1, DepositSet
    <2>4. DepositRight(d)'
      BY <1>5, <2>1, <2>2, <2>3, Planless DEF Pending
    <2> QED
      BY <1>2, <1>4, <2>1, <2>2, <2>4, Planned
  <1>7. CASE Duplicate(d)
    <2> DEFINE r == [deposit[d] EXCEPT !.state = "checking", !.object = store[t]]
    <2>1. Tidy(LiveReservations) /\ store[t] # Nothing
      BY <1>2, <1>7 DEF Duplicate, Contains
    <2>2. store[t] \in Drawn /\ store[t] \in Object
      BY <1>1, <1>3, <2>1, DrawnTids DEF MemoryTypes, StoreRight
    <2>3. deposit' = [deposit EXCEPT ![d] = r]
      BY <1>2, <1>7 DEF Duplicate
    <2>4. r \in DepositOf(d)
      BY <1>1, <2>2 DEF DepositOf
    <2>5. r.state = "checking" /\ r.object = store[t] /\ r.result = deposit[d].result
      BY <1>1 DEF DepositOf
    <2> HIDE DEF r
    <2>6. deposit'[d] = r
      BY <1>1, <2>3, <2>4, DepositSet
    <2>7. Drawn' = Drawn
      BY <1>2 DEF relayFiles, Drawn
    <2>8. DepositRight(d)'
      BY <1>5, <2>1, <2>2, <2>5, <2>6, <2>7 DEF DepositRight, Pending, Reserved
    <2> QED
      BY <1>2, <1>4, <2>1, <2>3, <2>4, <2>8, Planned
  <1>8. CASE Joins(d)
    <2> DEFINE w == LiveReservations[t]
               r == [deposit[d] EXCEPT !.waits = @ \cup {w}, !.at = @ + 1]
    <2>1. Tidy(LiveReservations) /\ w \in Reservation
      BY <1>2, <1>3, <1>4, <1>8 DEF Joins
    <2>2. deposit' = [deposit EXCEPT ![d] = r]
      BY <1>2, <1>8 DEF Joins
    <2> HIDE DEF w
    <2>3. r \in DepositOf(d) /\ r.state = "arrived" /\ r.result = deposit[d].result
      <3>1. deposit[d].waits \cup {w} \in SUBSET Reservation /\ deposit[d].at + 1 \in Nat
        BY <1>1, <2>1 DEF DepositOf
      <3> QED
        BY <1>1, <1>2, <3>1 DEF DepositOf
    <2> HIDE DEF r
    <2>4. deposit'[d] = r
      BY <1>1, <2>2, <2>3, DepositSet
    <2>5. DepositRight(d)'
      BY <1>5, <2>1, <2>3, <2>4, Planless DEF Pending
    <2> QED
      BY <1>2, <1>4, <2>1, <2>2, <2>3, <2>5, Planned
  <1>9. CASE Reserves(d)
    <2> DEFINE live == [LiveReservations EXCEPT ![t] = <<d, i>>]
               r == [deposit[d] EXCEPT !.state = "writing", !.result[i] = "pending"]
    <2>1. /\ Tidy(live) /\ ~Contains(t) /\ LiveReservations[t] = Nothing
          /\ deposit' = [deposit EXCEPT ![d] = r]
      BY <1>2, <1>0, <1>9 DEF Reserves
    <2>2. r \in DepositOf(d)
      BY <1>1, <1>2 DEF DepositOf, Result
    <2>3. /\ r.state = "writing" /\ r.at = i /\ r.result[i] = "pending"
          /\ \A j \in DOMAIN EntriesOf[d] : j # i => r.result[j] = deposit[d].result[j]
      BY <1>0, <1>1, <1>2 DEF DepositOf
    <2>4. live \in [Tids -> Reservation \cup {Nothing}]
      BY <1>3, <1>4
    <2>5. live[t] = <<d, i>> /\ \A u \in Tids \ {t} : live[u] = LiveReservations[u]
      BY <1>3, <1>4
    <2> HIDE DEF r, live
    <2>6. \A e \in Deposits : \A j \in Pending(e) : EntriesOf[e][j].tid # t /\ live[EntriesOf[e][j].tid] = <<e, j>>
      BY ZenonT(60), <1>4, <2>1, <2>5
    <2>7. deposit'[d] = r
      BY <1>1, <2>1, <2>2, DepositSet
    <2>8. /\ reserved' = live /\ store'[t] = Nothing
          /\ \A u \in Tids : store[u] = Nothing => store'[u] = Nothing
      BY <1>1, <1>3, <2>1, <2>4, TidyFields
    <2>9. \A j \in DOMAIN EntriesOf[d] : r.result[j] = "pending" => Reserved(d, j)'
      <3>1. Reserved(d, i)'
        BY <2>5, <2>8 DEF Reserved, t
      <3>2. \A j \in Pending(d) : Reserved(d, j)'
        BY <1>4, <2>6, <2>8 DEF Reserved
      <3> QED
        BY <2>3, <3>1, <3>2 DEF Pending
    <2>10. DepositRight(d)'
      BY <1>2, <2>3, <2>7, <2>9 DEF DepositRight, Reserved
    <2> QED
      BY <1>2, <2>1, <2>2, <2>4, <2>6, <2>10, Planned
  <1> QED
    BY <1>6, <1>7, <1>8, <1>9 DEF PlanEntry

LEMMA LeastOf ==
    ASSUME NEW s \in SUBSET Nat, s # {}
    PROVE  Least(s) \in s
  <1> DEFINE less == OpToRel(<, Nat)
  <1>1. IsWellFoundedOn(less, Nat)
    BY NatLessThanWellFounded
  <1>2. \A m, n \in Nat : m < n => <<m, n>> \in less
    BY DEF OpToRel
  <1> HIDE DEF less
  <1>3. PICK n \in s : \A m \in s : ~ (<<m, n>> \in less)
    BY <1>1, WFMin
  <1>4. ASSUME NEW m \in s PROVE n <= m
    <2>1. m \in Nat /\ n \in Nat /\ ~ (m < n)
      BY <1>2, <1>3
    <2> QED
      BY <2>1
  <1> QED
    BY <1>4 DEF Least

LEMMA ReserveBatchKeeps ==
    ASSUME RelayInv, NEW d \in Deposits, ReserveBatch(d)
    PROVE  RelayInv'
  <1> DEFINE tid(i) == EntriesOf[d][i].tid
  <1>1. /\ FileTypes /\ MemoryTypes /\ StoreRight /\ \A e \in Deposits : DepositRight(e)
        /\ deposit[d] \in DepositOf(d)
    BY DEF RelayInv, RelayTypes, MemoryTypes
  <1>2. /\ node = "up" /\ UNCHANGED <<relayFiles, start, plan, relayHistory>>
    BY DEF ReserveBatch, Up
  <1>3. PICK taken \in (SUBSET DOMAIN EntriesOf[d]) \ {{}} :
          LET Owners(t) == {i \in taken : tid(i) = t}
          IN  /\ \A i \in taken : /\ ~Contains(tid(i)) /\ LiveReservations[tid(i)] = Nothing
                                  /\ Owners(tid(i)) = {i}
              /\ Tidy([t \in Tids |-> IF Owners(t) = {} THEN LiveReservations[t]
                                      ELSE <<d, Least(Owners(t))>>])
              /\ deposit' = [deposit EXCEPT ![d].state = "writing", ![d].at = Least(taken),
                                            ![d].result = [i \in DOMAIN EntriesOf[d] |->
                                                IF i \in taken THEN "pending" ELSE "none"]]
    BY DEF ReserveBatch
  <1> DEFINE owners(t) == {i \in taken : tid(i) = t}
             live == [t \in Tids |-> IF owners(t) = {} THEN LiveReservations[t] ELSE <<d, Least(owners(t))>>]
             result == [i \in DOMAIN EntriesOf[d] |-> IF i \in taken THEN "pending" ELSE "none"]
             r == [deposit[d] EXCEPT !.state = "writing", !.at = Least(taken), !.result = result]
  <1>4. /\ taken \subseteq DOMAIN EntriesOf[d] /\ taken \subseteq Nat /\ taken # {}
        /\ \A i \in taken : tid(i) \in Tids /\ <<d, i>> \in Reservation
    <2>1. taken \subseteq DOMAIN EntriesOf[d] /\ taken # {}
      OBVIOUS
    <2>2. DOMAIN EntriesOf[d] \subseteq Nat \ {0}
      BY EntryTids
    <2>3. \A i \in DOMAIN EntriesOf[d] : tid(i) \in Tids /\ <<d, i>> \in Reservation
      BY EntryTids
    <2> QED
      BY <2>1, <2>2, <2>3
  <1>5. /\ \A i \in taken : /\ ~Contains(tid(i)) /\ LiveReservations[tid(i)] = Nothing
                            /\ owners(tid(i)) = {i}
        /\ Tidy(live) /\ deposit' = [deposit EXCEPT ![d] = r]
    BY <1>3
  <1>6. Least(taken) \in taken
    BY <1>4, LeastOf
  <1>7. r \in DepositOf(d)
    BY <1>1, <1>4, <1>6 DEF DepositOf, Result
  <1>8. r.state = "writing" /\ r.at = Least(taken) /\ \A i \in DOMAIN EntriesOf[d] : r.result[i] = "pending" <=> i \in taken
    BY <1>1 DEF DepositOf
  <1>9. /\ LiveReservations \in [Tids -> Reservation \cup {Nothing}]
        /\ \A e \in Deposits : \A j \in Pending(e) :
              /\ LiveReservations[EntriesOf[e][j].tid] = <<e, j>> /\ store[EntriesOf[e][j].tid] = Nothing
              /\ EntriesOf[e][j].tid \in Tids /\ <<e, j>> # Nothing
    BY <1>1, LiveFields, EntryTids DEF Pending
  <1>10. \A t \in Tids : owners(t) # {} => Least(owners(t)) \in owners(t)
    <2>1. \A t \in Tids : owners(t) \in SUBSET Nat
      BY <1>4
    <2> QED
      BY <2>1, LeastOf
  <1>11. live \in [Tids -> Reservation \cup {Nothing}]
    BY <1>4, <1>9, <1>10
  <1>12. \A i \in taken : live[tid(i)] = <<d, i>>
    <2>1. ASSUME NEW i \in taken PROVE live[tid(i)] = <<d, i>>
      <3>1. owners(tid(i)) = {i} /\ tid(i) \in Tids
        BY <1>4, <1>5
      <3>2. Least(owners(tid(i))) = i
        BY <1>10, <3>1
      <3> QED
        BY <3>1, <3>2
    <2> QED
      BY <2>1
  <1>13. ASSUME NEW e \in Deposits, NEW j \in Pending(e) PROVE live[EntriesOf[e][j].tid] = <<e, j>>
    <2>1. EntriesOf[e][j].tid \in Tids /\ LiveReservations[EntriesOf[e][j].tid] = <<e, j>> /\ <<e, j>> # Nothing
      BY <1>9, <1>13
    <2>2. owners(EntriesOf[e][j].tid) = {}
      BY <1>5, <2>1
    <2> QED
      BY <2>1, <2>2
  <1> HIDE DEF live, r, result, owners
  <1>14. deposit'[d] = r
    BY <1>1, <1>5, <1>7, DepositSet
  <1>15. reserved' = live /\ \A t \in Tids : ~Contains(t) => store'[t] = Nothing
    BY <1>1, <1>5, <1>11, TidyFields
  <1>16. \A i \in taken : Reserved(d, i)'
    BY <1>4, <1>5, <1>12, <1>15 DEF Reserved
  <1>17. DepositRight(d)'
    BY <1>4, <1>6, <1>8, <1>14, <1>16 DEF DepositRight, Reserved
  <1> QED
    BY <1>2, <1>5, <1>7, <1>11, <1>13, <1>17, Planned

(* A step of one worker that drops nothing of the store.                    *)
LEMMA Worked ==
    ASSUME RelayInv, node = "up", UNCHANGED <<start, plan, retired>>, FilesStep({}),
           NEW d \in Deposits, NEW r \in DepositOf(d), deposit' = [deposit EXCEPT ![d] = r],
           store' \in [Tids -> Object \cup {Nothing}], reserved' \in [Tids -> Reservation \cup {Nothing}],
           Forgets, StoreRight', HistoryRight',
           \A e \in Deposits \ {d} : \A i \in Pending(e) : Reserved(e, i)',
           DepositRight(d)'
    PROVE  RelayInv'
  <1>1. /\ FileTypes /\ MemoryTypes /\ StoreRight
        /\ \A e \in Deposits : DepositRight(e)
        /\ \A p \in Planners : PlanRight(p)
    BY DEF RelayInv, RelayTypes
  <1>2. /\ deposit' \in [Deposits -> UNION {DepositOf(e) : e \in Deposits}]
        /\ \A e \in Deposits : deposit'[e] \in DepositOf(e)
        /\ \A e \in Deposits \ {d} : deposit'[e] = deposit[e]
    BY <1>1, DepositSet
  <1>3. MemoryTypes'
    BY <1>1, <1>2 DEF MemoryTypes, start
  <1>4. DownRight'
    BY DEF DownRight, start
  <1>5. ASSUME NEW p \in Planners PROVE PlanRight(p)'
    BY <1>1, PlanKept
  <1>6. ASSUME NEW e \in Deposits PROVE DepositRight(e)'
    <2>1. CASE e = d
      BY <2>1
    <2>2. CASE e # d
      BY <1>1, <1>2, <2>2, DepositKept
    <2> QED
      BY <2>1, <2>2
  <1> QED
    BY <1>3, <1>4, <1>5, <1>6, Assembled

(* The same when the whole process dies of it.                              *)
LEMMA Died ==
    ASSUME RelayInv, NEW touched, FilesStep(touched), NodeDies, HistoryRight'
    PROVE  RelayInv'
  BY Dead, Assembled DEF RelayInv, RelayTypes

LEMMA StoreSame ==
    ASSUME RelayInv, NEW touched, FilesStep(touched), UNCHANGED <<store, reserved, retired>>
    PROVE  /\ Forgets /\ StoreRight'
           /\ store' \in [Tids -> Object \cup {Nothing}] /\ reserved' \in [Tids -> Reservation \cup {Nothing}]
           /\ \A e \in Deposits : \A i \in Pending(e) : Reserved(e, i)'
  <1>1. FileTypes /\ MemoryTypes /\ StoreRight /\ \A e \in Deposits : DepositRight(e)
    BY DEF RelayInv, RelayTypes
  <1>2. Forgets
    BY DEF Forgets
  <1>3. StoreRight'
    BY <1>1, StoreKept
  <1>4. \A e \in Deposits : \A i \in Pending(e) : Reserved(e, i)'
    BY <1>1 DEF DepositRight, Pending, Reserved
  <1> QED
    BY <1>1, <1>2, <1>3, <1>4 DEF MemoryTypes

LEMMA Persisting ==
    ASSUME RelayInv, NEW d \in Deposits, node = "up", deposit[d].state = "writing",
           FilesStep({}), UNCHANGED relayHistory,
           NEW o \in Object, NEW stop \in Stops(3), Persisted(d, o, stop),
           stop.how = "ok" => o \in Drawn' /\ Durable(o)' /\ tidOf'[o] = Entry(d).tid
    PROVE  RelayInv'
  <1>1. /\ FileTypes /\ MemoryTypes /\ HistoryRight /\ DepositRight(d) /\ deposit[d] \in DepositOf(d)
    BY DEF RelayInv, RelayTypes, MemoryTypes
  <1>2. HistoryRight'
    BY <1>1, HistoryKept DEF relayHistory
  <1>3. CASE Fatal(stop)
    BY <1>2, <1>3, Died DEF Persisted
  <1>4. CASE ~Fatal(stop)
    <2>0. PICK i : i = deposit[d].at
      OBVIOUS
    <2>1. i \in DOMAIN EntriesOf[d] /\ UNCHANGED <<start, plan, retired, store, reserved>>
      BY <1>1, <1>4, <2>0 DEF DepositRight, Persisted, relayMemory
    <2>2. /\ Forgets /\ StoreRight'
          /\ store' \in [Tids -> Object \cup {Nothing}] /\ reserved' \in [Tids -> Reservation \cup {Nothing}]
          /\ \A e \in Deposits : \A j \in Pending(e) : Reserved(e, j)'
      BY <2>1, StoreSame
    <2>3. CASE stop.how = "ok"
      <3> DEFINE r == [deposit[d] EXCEPT !.state = "written", !.object = o]
      <3>1. deposit' = [deposit EXCEPT ![d] = r] /\ r \in DepositOf(d)
        BY <1>1, <1>4, <2>3 DEF Persisted, DepositOf
      <3>2. r.state = "written" /\ r.object = o /\ r.at = i /\ r.result = deposit[d].result
        BY <1>1, <2>0 DEF DepositOf
      <3> HIDE DEF r
      <3>3. deposit'[d] = r
        BY <1>1, <3>1, DepositSet
      <3>4. Entry(d)' = Entry(d)
        BY <2>0, <3>2, <3>3 DEF Entry
      <3>5. (deposit[d].state = "written" =>
              /\ deposit[d].object \in Drawn /\ Durable(deposit[d].object)
              /\ tidOf[deposit[d].object] = Entry(d).tid)'
        BY <2>3, <3>2, <3>3, <3>4
      <3>6. DepositRight(d)'
        BY <1>1, <2>0, <2>1, <2>2, <3>2, <3>3, <3>5 DEF DepositRight, Pending, Reserved
      <3> QED
        BY <1>2, <2>1, <2>2, <3>1, <3>6, Worked
    <2>4. CASE stop.how # "ok"
      <3> DEFINE r == [deposit[d] EXCEPT !.state = "aborting", !.result[i] = "failed"]
      <3>1. deposit' = [deposit EXCEPT ![d] = r] /\ r \in DepositOf(d)
        <4>1. deposit' = [deposit EXCEPT ![d] = r]
          BY <1>4, <2>0, <2>4 DEF Persisted
        <4>2. [deposit[d].result EXCEPT ![i] = "failed"] \in [DOMAIN EntriesOf[d] -> Result]
          BY <1>1 DEF DepositOf, Result
        <4>3. r \in DepositOf(d)
          BY <1>1, <4>2 DEF DepositOf
        <4> QED
          BY <4>1, <4>3
      <3>2. /\ r.state = "aborting" /\ r.at = i
            /\ \A j \in DOMAIN EntriesOf[d] : r.result[j] = "pending" => deposit[d].result[j] = "pending"
        BY <1>1, <2>0 DEF DepositOf
      <3> HIDE DEF r
      <3>3. deposit'[d] = r
        BY <1>1, <3>1, DepositSet
      <3>4. DepositRight(d)'
        BY <2>1, <2>2, <3>2, <3>3 DEF DepositRight, Pending, Reserved
      <3> QED
        BY <1>2, <2>1, <2>2, <3>1, <3>4, Worked
    <2> QED
      BY <2>3, <2>4
  <1> QED
    BY <1>3, <1>4

LEMMA PersistWriteKeeps ==
    ASSUME RelayInv, NEW d \in Deposits, PersistWrite(d)
    PROVE  RelayInv'
  <1>0. PICK t : t = Entry(d).tid
    OBVIOUS
  <1>1. /\ FileTypes /\ FilesRight /\ MemoryTypes /\ DepositRight(d) /\ deposit[d] \in DepositOf(d)
        /\ HistoryRight
    BY DEF RelayInv, RelayTypes, MemoryTypes
  <1>2. node = "up" /\ deposit[d].state = "writing" /\ UNCHANGED relayHistory
    BY DEF PersistWrite
  <1>3. deposit[d].at \in DOMAIN EntriesOf[d] /\ t \in Tids
    BY <1>0, <1>1, <1>2, EntryTids DEF DepositRight, Entry
  <1>4. PICK e : e = index[t].vis
    OBVIOUS
  <1>5. e # Nothing => e \in Object /\ tidOf[e] = t
    BY <1>1, <1>3, <1>4 DEF FileTypes, Files, FilesRight, NamesRight, Names
  <1>6. CASE /\ e = Nothing
             /\ \E stop \in Stops(3), o \in Object :
                  PublishNew(o, Entry(d).tid, stop) /\ Persisted(d, o, stop) /\ Faulty(stop)
    <2>1. PICK stop \in Stops(3), o \in Object : PublishNew(o, t, stop) /\ Persisted(d, o, stop)
      BY <1>0, <1>6
    <2>2. /\ FilesStep({}) /\ o \in Drawn' /\ tidOf'[o] = t
          /\ stop.how = "ok" => Durable(o)'
      BY <1>1, <1>3, <1>4, <1>6, <2>1, FilesPublish
    <2> QED
      BY <1>0, <1>2, <2>1, <2>2, Persisting
  <1>7. CASE /\ e # Nothing /\ Readable(e)
             /\ \E stop \in Stops(3) : RenewBarriers(e, stop) /\ Persisted(d, e, stop) /\ Faulty(stop)
    <2>1. PICK stop \in Stops(3) : RenewBarriers(e, stop) /\ Persisted(d, e, stop)
      BY <1>7
    <2>2. FilesStep({}) /\ e \in Drawn /\ (stop.how = "ok" => Durable(e)') /\ e \in Object
      BY <1>1, <1>5, <1>7, <2>1, FilesRenew
    <2>3. e \in Drawn' /\ tidOf'[e] = t
      BY <1>5, <1>7, <2>2 DEF FilesStep
    <2> QED
      BY <1>0, <1>2, <2>1, <2>2, <2>3, Persisting
  <1>8. CASE /\ e # Nothing /\ ~Readable(e)
             /\ deposit' = [deposit EXCEPT ![d].state = "aborting",
                                           ![d].result[deposit[d].at] = "failed"]
             /\ UNCHANGED <<relayFiles, start, relayMemory, plan, relayFaults>>
    <2> DEFINE r == [deposit[d] EXCEPT !.state = "aborting", !.result[deposit[d].at] = "failed"]
    <2>1. deposit' = [deposit EXCEPT ![d] = r] /\ r \in DepositOf(d)
      <3>1. deposit' = [deposit EXCEPT ![d] = r]
        BY <1>8
      <3>2. [deposit[d].result EXCEPT ![deposit[d].at] = "failed"] \in [DOMAIN EntriesOf[d] -> Result]
        BY <1>1 DEF DepositOf, Result
      <3>3. r \in DepositOf(d)
        BY <1>1, <3>2 DEF DepositOf
      <3> QED
        BY <3>1, <3>3
    <2>2. /\ r.state = "aborting" /\ r.at = deposit[d].at
          /\ \A j \in DOMAIN EntriesOf[d] : r.result[j] = "pending" => deposit[d].result[j] = "pending"
      BY <1>1 DEF DepositOf
    <2> HIDE DEF r
    <2>3. FilesStep({}) /\ UNCHANGED <<start, plan, retired, store, reserved>>
      BY <1>1, <1>8, FilesSame DEF relayMemory
    <2>4. /\ Forgets /\ StoreRight'
          /\ store' \in [Tids -> Object \cup {Nothing}] /\ reserved' \in [Tids -> Reservation \cup {Nothing}]
          /\ \A x \in Deposits : \A j \in Pending(x) : Reserved(x, j)'
      BY <2>3, StoreSame
    <2>5. deposit'[d] = r
      BY <1>1, <2>1, DepositSet
    <2>6. DepositRight(d)'
      BY <1>3, <2>2, <2>4, <2>5 DEF DepositRight, Pending, Reserved
    <2>7. HistoryRight'
      BY <1>1, <1>2, <2>3, HistoryKept DEF relayHistory
    <2> QED
      BY <1>2, <2>1, <2>3, <2>4, <2>6, <2>7, Worked
  <1> QED
    BY <1>0, <1>4, <1>6, <1>7, <1>8 DEF PersistWrite

(* After an entry: the next one of a batch is pending.                      *)
LEMMA Proceeding ==
    ASSUME MemoryTypes, NEW d \in Deposits, deposit[d].at \in DOMAIN EntriesOf[d],
           NEW result \in [DOMAIN EntriesOf[d] -> Result], Proceeds(d, result),
           \A i \in DOMAIN EntriesOf[d] : result[i] = "pending" => Reserved(d, i)'
    PROVE  \E r \in DepositOf(d) : deposit' = [deposit EXCEPT ![d] = r] /\ DepositRight(d)'
  <1> DEFINE at == deposit[d].at
             more == NextWrite(result, at + 1)
             next == IF d \notin Batches THEN at + 1 ELSE IF more = {} THEN at ELSE Least(more)
             state == IF d \notin Batches
                      THEN IF result[at] = "committed" THEN "arrived" ELSE "refused"
                      ELSE IF more = {} THEN "stored" ELSE "writing"
             r == [deposit[d] EXCEPT !.result = result, !.object = Nothing, !.at = next, !.state = state]
  <1>1. deposit[d] \in DepositOf(d) /\ at \in Nat /\ DOMAIN EntriesOf[d] \subseteq Nat
    BY EntryTids DEF MemoryTypes, DepositOf
  <1>2. more \subseteq DOMAIN EntriesOf[d] /\ \A i \in more : result[i] = "pending"
    BY DEF NextWrite
  <1>3. more # {} => Least(more) \in more
    BY <1>1, <1>2, LeastOf
  <1>4. deposit' = [deposit EXCEPT ![d] = r]
    BY DEF Proceeds
  <1> HIDE DEF more
  <1>5. /\ next \in Nat /\ state \in {"arrived", "refused", "stored", "writing"}
        /\ state = "writing" => next \in DOMAIN EntriesOf[d] /\ result[next] = "pending"
    <2>1. more # {} => Least(more) \in Nat
      BY <1>1, <1>2, <1>3
    <2>2. next \in Nat
      BY <1>1, <2>1
    <2> QED
      BY <1>2, <1>3, <2>2
  <1> HIDE DEF next, state
  <1>6. r \in DepositOf(d)
    BY <1>1, <1>5 DEF DepositOf
  <1>7. r.state = state /\ r.at = next /\ r.result = result
    BY <1>1 DEF DepositOf
  <1> HIDE DEF r
  <1>8. deposit'[d] = r
    BY <1>4, <1>6, DepositSet
  <1>9. DepositRight(d)'
    BY <1>5, <1>7, <1>8 DEF DepositRight, Reserved
  <1> QED
    BY <1>4, <1>6, <1>9

LEMMA AbortWriteKeeps ==
    ASSUME RelayInv, NEW d \in Deposits, AbortWrite(d)
    PROVE  RelayInv'
  <1>0. PICK t : t = Entry(d).tid
    OBVIOUS
  <1>1. /\ FileTypes /\ FilesRight /\ MemoryTypes /\ StoreRight /\ HistoryRight /\ deposit[d] \in DepositOf(d)
        /\ \A e \in Deposits : DepositRight(e)
    BY DEF RelayInv, RelayTypes, MemoryTypes
  <1>2. /\ node = "up" /\ UNCHANGED <<start, plan, retired, store>> /\ UNCHANGED relayHistory
        /\ Aborted(t) /\ Proceeds(d, deposit[d].result) /\ deposit[d].state = "aborting"
    BY <1>0 DEF AbortWrite, Up
  <1>3. deposit[d].at \in DOMAIN EntriesOf[d] /\ t \in Tids
    BY <1>0, <1>1, <1>2, EntryTids DEF DepositRight, Entry
  <1>4. FilesStep({})
    BY <1>1, FilesSame DEF AbortWrite
  <1>5. /\ reserved' \in [Tids -> Reservation \cup {Nothing}]
        /\ \A u \in Tids : reserved'[u] = reserved[u] \/ ~Live(reserved[u])
    BY <1>1, <1>2, <1>3 DEF Aborted, MemoryTypes
  <1>6. ASSUME NEW e \in Deposits, NEW j \in Pending(e) PROVE Reserved(e, j)'
    <2>1. j \in DOMAIN EntriesOf[e] /\ deposit[e].result[j] = "pending"
      BY DEF Pending
    <2>2. EntriesOf[e][j].tid \in Tids /\ <<e, j>> # Nothing
      BY <2>1, EntryTids
    <2>3. reserved[EntriesOf[e][j].tid] = <<e, j>> /\ store[EntriesOf[e][j].tid] = Nothing
      BY <1>1, <2>1 DEF DepositRight
    <2>4. Live(<<e, j>>)
      BY <2>1, <2>2 DEF Live, OutcomeOf
    <2> QED
      BY <1>2, <1>5, <2>2, <2>3, <2>4 DEF Reserved
  <1>7. PICK r \in DepositOf(d) : deposit' = [deposit EXCEPT ![d] = r] /\ DepositRight(d)'
    <2>1. deposit[d].result \in [DOMAIN EntriesOf[d] -> Result]
      BY <1>1 DEF DepositOf
    <2>2. \A i \in DOMAIN EntriesOf[d] : deposit[d].result[i] = "pending" => Reserved(d, i)'
      BY <1>6 DEF Pending
    <2> QED
      BY <1>1, <1>2, <1>3, <2>1, <2>2, Proceeding
  <1>8. StoreRight' /\ Forgets /\ store' \in [Tids -> Object \cup {Nothing}]
    BY <1>1, <1>2, <1>4, StoreKept DEF Forgets, MemoryTypes
  <1>9. HistoryRight'
    BY <1>1, <1>2, <1>4, HistoryKept DEF relayHistory
  <1> QED
    BY <1>2, <1>4, <1>5, <1>6, <1>7, <1>8, <1>9, Worked

LEMMA CommitWriteKeeps ==
    ASSUME RelayInv, NEW d \in Deposits, CommitWrite(d)
    PROVE  RelayInv'
  <1>0. PICK i, t, o : i = deposit[d].at /\ t = Entry(d).tid /\ o = deposit[d].object
    OBVIOUS
  <1>1. /\ FileTypes /\ FilesRight /\ MemoryTypes /\ StoreRight /\ HistoryRight /\ deposit[d] \in DepositOf(d)
        /\ \A e \in Deposits : DepositRight(e)
    BY DEF RelayInv, RelayTypes, MemoryTypes
  <1>2. /\ node = "up" /\ UNCHANGED <<start, plan, retired>> /\ UNCHANGED relayFiles /\ purged' = purged
        /\ deposit[d].state = "written"
    BY DEF CommitWrite, Up
  <1>3. /\ i \in DOMAIN EntriesOf[d] /\ t \in Tids /\ t = EntriesOf[d][i].tid /\ i \in Nat
        /\ store[t] = Nothing /\ reserved[t] = <<d, i>>
        /\ o \in Drawn /\ Durable(o) /\ tidOf[o] = t
    BY <1>0, <1>1, <1>2, EntryTids DEF DepositRight, Entry
  <1>4. o \in Object /\ o # Nothing
    BY <1>1, <1>3, DrawnTids
  <1> DEFINE result == [deposit[d].result EXCEPT ![i] = "committed"]
  <1>5. /\ reserved' = [reserved EXCEPT ![t] = Nothing] /\ store' = [store EXCEPT ![t] = o]
        /\ Proceeds(d, result) /\ acked' = acked \cup {o}
    BY <1>0, <1>3 DEF CommitWrite
  <1>6. FilesStep({})
    BY <1>1, <1>2, FilesSame
  <1>7. /\ reserved' \in [Tids -> Reservation \cup {Nothing}] /\ store' \in [Tids -> Object \cup {Nothing}]
        /\ \A u \in Tids \ {t} : reserved'[u] = reserved[u] /\ store'[u] = store[u]
        /\ store'[t] = o /\ Forgets
    BY <1>1, <1>3, <1>4, <1>5 DEF MemoryTypes, Forgets
  <1>8. ASSUME NEW e \in Deposits, NEW j \in Pending(e), e # d \/ j # i PROVE Reserved(e, j)'
    <2>1. j \in DOMAIN EntriesOf[e] /\ deposit[e].result[j] = "pending"
      BY DEF Pending
    <2>2. EntriesOf[e][j].tid \in Tids
      BY <2>1, EntryTids
    <2>3. reserved[EntriesOf[e][j].tid] = <<e, j>> /\ store[EntriesOf[e][j].tid] = Nothing
      BY <1>1, <2>1 DEF DepositRight
    <2>4. EntriesOf[e][j].tid # t
      BY <1>3, <1>8, <2>3
    <2> QED
      BY <1>7, <2>2, <2>3, <2>4 DEF Reserved
  <1>9. result \in [DOMAIN EntriesOf[d] -> Result] /\ result[i] = "committed"
        /\ \A j \in DOMAIN EntriesOf[d] : j # i => result[j] = deposit[d].result[j]
    BY <1>1, <1>3 DEF DepositOf, Result
  <1> HIDE DEF result
  <1>10. PICK r \in DepositOf(d) : deposit' = [deposit EXCEPT ![d] = r] /\ DepositRight(d)'
    <2>1. \A j \in DOMAIN EntriesOf[d] : result[j] = "pending" => Reserved(d, j)'
      BY <1>8, <1>9 DEF Pending
    <2> QED
      BY <1>0, <1>1, <1>3, <1>5, <1>9, <2>1, Proceeding
  <1>11. StoreRight'
    <2>1. \A u \in Tids : store'[u] # Nothing => tidOf'[store'[u]] = u
      BY <1>2, <1>3, <1>7, <1>1 DEF StoreRight, relayFiles
    <2>2. (retired \subseteq Drawn /\ \A x \in retired : Final(x))'
      BY <1>2, <1>1 DEF StoreRight, relayFiles, Drawn, Final, Keeps
    <2> QED
      BY <2>1, <2>2 DEF StoreRight
  <1>12. HistoryRight'
    <2>1. o \in Drawn' /\ Durable(o)'
      BY <1>3, <1>6 DEF FilesStep, Spares
    <2> QED
      BY <1>1, <1>2, <1>5, <1>6, <2>1, HistoryKept
  <1> QED
    BY <1>2, <1>6, <1>7, <1>8, <1>10, <1>11, <1>12, Worked

LEMMA CheckKeeps ==
    ASSUME RelayInv, NEW d \in Deposits, Check(d)
    PROVE  RelayInv'
  <1>0. PICK o : o = deposit[d].object
    OBVIOUS
  <1>1. /\ FileTypes /\ FilesRight /\ MemoryTypes /\ StoreRight /\ HistoryRight /\ deposit[d] \in DepositOf(d)
        /\ DepositRight(d)
    BY DEF RelayInv, RelayTypes, MemoryTypes
  <1>2. node = "up" /\ purged' = purged /\ deposit[d].state = "checking" /\ o \in Drawn /\ o \in Object
    BY <1>0, <1>1, DrawnTids DEF Check, DepositRight
  <1>3. ASSUME NEW state \in {"arrived", "refused"}, NEW at \in Nat,
               deposit' = [deposit EXCEPT ![d].state = state, ![d].at = at],
               FilesStep({}), HistoryRight', UNCHANGED <<start, relayMemory, plan>>
        PROVE  RelayInv'
    <2> DEFINE r == [deposit[d] EXCEPT !.state = state, !.at = at]
    <2>1. deposit' = [deposit EXCEPT ![d] = r]
      BY <1>3
    <2>2. r \in DepositOf(d) /\ r.state = state /\ r.result = deposit[d].result
      BY <1>1 DEF DepositOf
    <2> HIDE DEF r
    <2>3. /\ Forgets /\ StoreRight'
          /\ store' \in [Tids -> Object \cup {Nothing}] /\ reserved' \in [Tids -> Reservation \cup {Nothing}]
          /\ \A e \in Deposits : \A j \in Pending(e) : Reserved(e, j)'
      BY <1>3, StoreSame DEF relayMemory
    <2>4. deposit'[d] = r
      BY <1>1, <2>1, <2>2, DepositSet
    <2>5. DepositRight(d)'
      BY <2>2, <2>3, <2>4, Planless DEF Pending
    <2>6. retired' = retired
      BY <1>3 DEF relayMemory
    <2> QED
      BY <1>2, <1>3, <2>1, <2>2, <2>3, <2>5, <2>6, Worked
  <1>4. deposit[d].at \in Nat /\ deposit[d].at + 1 \in Nat
    BY <1>1 DEF DepositOf
  <1>6. CASE /\ Readable(o)
             /\ \E stop \in Stops(3) :
                   /\ RenewBarriers(o, stop) /\ Faulty(stop)
                   /\ IF Fatal(stop) THEN NodeDies
                      ELSE /\ deposit' = IF stop.how = "ok"
                                         THEN [deposit EXCEPT ![d].state = "arrived",
                                                              ![d].at = @ + 1]
                                         ELSE [deposit EXCEPT ![d].state = "refused"]
                           /\ UNCHANGED <<start, relayMemory, plan>>
                   /\ acked' = IF stop.how = "ok" THEN acked \cup {o} ELSE acked
    <2>1. PICK stop \in Stops(3) :
                   /\ RenewBarriers(o, stop)
                   /\ IF Fatal(stop) THEN NodeDies
                      ELSE /\ deposit' = IF stop.how = "ok"
                                         THEN [deposit EXCEPT ![d].state = "arrived",
                                                              ![d].at = @ + 1]
                                         ELSE [deposit EXCEPT ![d].state = "refused"]
                           /\ UNCHANGED <<start, relayMemory, plan>>
                   /\ acked' = IF stop.how = "ok" THEN acked \cup {o} ELSE acked
      BY <1>6
    <2>2. FilesStep({}) /\ (stop.how = "ok" => Durable(o)')
      BY <1>1, <1>2, <1>6, <2>1, FilesRenew
    <2>3. o \in Drawn'
      BY <1>2, <2>2 DEF FilesStep
    <2>4. HistoryRight'
      BY <1>1, <1>2, <2>1, <2>2, <2>3, HistoryKept
    <2>5. CASE Fatal(stop)
      BY <2>1, <2>2, <2>4, <2>5, Died
    <2>6. CASE ~Fatal(stop)
      <3>1. CASE stop.how = "ok"
        BY <1>3, <1>4, <2>1, <2>2, <2>4, <2>6, <3>1
      <3>2. CASE stop.how # "ok"
        <4>1. deposit' = [deposit EXCEPT ![d].state = "refused", ![d].at = deposit[d].at]
          BY <1>1, <2>1, <2>6, <3>2 DEF DepositOf, MemoryTypes
        <4> QED
          BY <1>3, <1>4, <2>1, <2>2, <2>4, <2>6, <4>1
      <3> QED
        BY <3>1, <3>2
    <2> QED
      BY <2>5, <2>6
  <1>7. CASE /\ ~Readable(o) /\ Becomes(d, "refused")
             /\ UNCHANGED <<relayFiles, start, relayMemory, plan, relayFaults, acked>>
    <2>1. deposit' = [deposit EXCEPT ![d].state = "refused", ![d].at = deposit[d].at]
      BY <1>1, <1>7 DEF Becomes, DepositOf, MemoryTypes
    <2>2. FilesStep({})
      BY <1>1, <1>7, FilesSame
    <2>3. HistoryRight'
      BY <1>1, <1>2, <1>7, <2>2, HistoryKept
    <2> QED
      BY <1>3, <1>4, <1>7, <2>1, <2>2, <2>3
  <1> QED
    BY <1>0, <1>6, <1>7 DEF Check

LEMMA PacketEndsKeeps ==
    ASSUME RelayInv, NEW d \in Deposits, PacketEnds(d)
    PROVE  RelayInv'
  <1>1. /\ FileTypes /\ FilesRight /\ MemoryTypes /\ HistoryRight /\ deposit[d] \in DepositOf(d)
    BY DEF RelayInv, RelayTypes, MemoryTypes
  <1>2. node = "up" /\ UNCHANGED <<start, relayMemory, plan>> /\ UNCHANGED relayHistory
    BY DEF PacketEnds
  <1>3. PICK state \in {"stored", "refused"} : Becomes(d, state)
    BY DEF PacketEnds
  <1> DEFINE r == [deposit[d] EXCEPT !.state = state]
  <1>4. deposit' = [deposit EXCEPT ![d] = r]
    BY <1>3 DEF Becomes
  <1>5. r \in DepositOf(d) /\ r.state = state /\ r.result = deposit[d].result
    BY <1>1 DEF DepositOf
  <1> HIDE DEF r
  <1>6. FilesStep({})
    BY <1>1, FilesSame DEF PacketEnds
  <1>7. /\ Forgets /\ StoreRight' /\ retired' = retired
        /\ store' \in [Tids -> Object \cup {Nothing}] /\ reserved' \in [Tids -> Reservation \cup {Nothing}]
        /\ \A e \in Deposits : \A j \in Pending(e) : Reserved(e, j)'
    BY <1>2, <1>6, StoreSame DEF relayMemory
  <1>8. deposit'[d] = r
    BY <1>1, <1>4, <1>5, DepositSet
  <1>9. DepositRight(d)'
    BY <1>5, <1>7, <1>8, Planless DEF Pending
  <1>10. HistoryRight'
    BY <1>1, <1>2, <1>6, HistoryKept DEF relayHistory
  <1> QED
    BY <1>2, <1>4, <1>5, <1>6, <1>7, <1>9, <1>10, Worked

-----------------------------------------------------------------------------
(* Steps of the plans.                                                      *)

(* No room that was free is taken, and no admission being written is touched. *)
Vacant == \A t \in Tids : store[t] = Nothing => store'[t] = Nothing
Spared(touched) == \A d \in Deposits : deposit[d].state = "written" => deposit[d].object \notin touched

LEMMA PlanStep ==
    ASSUME RelayInv, node = "up", UNCHANGED <<start, deposit, reserved>>, NEW touched, FilesStep(touched),
           NEW p \in Planners, NEW q \in Plan, plan' = [plan EXCEPT ![p] = q],
           store' \in [Tids -> Object \cup {Nothing}], retired' \subseteq Object,
           Forgets, Vacant, Spared(touched),
           StoreRight', HistoryRight', PlanRight(p)'
    PROVE  RelayInv'
  <1>1. /\ FileTypes /\ MemoryTypes /\ StoreRight
        /\ \A e \in Deposits : DepositRight(e)
        /\ \A x \in Planners : PlanRight(x)
    BY DEF RelayInv, RelayTypes
  <1>2. plan' \in [Planners -> Plan] /\ \A x \in Planners \ {p} : plan'[x] = plan[x]
    BY <1>1 DEF MemoryTypes
  <1>3. MemoryTypes'
    BY <1>1, <1>2 DEF MemoryTypes, start
  <1>4. DownRight'
    BY DEF DownRight, start
  <1>5. ASSUME NEW x \in Planners PROVE PlanRight(x)'
    <2>1. CASE x = p
      BY <2>1
    <2>2. CASE x # p
      BY <1>1, <1>2, <2>2, PlanKept
    <2> QED
      BY <2>1, <2>2
  <1>6. ASSUME NEW d \in Deposits PROVE DepositRight(d)'
    <2>1. ASSUME NEW i \in Pending(d) PROVE Reserved(d, i)'
      <3>1. i \in DOMAIN EntriesOf[d] /\ deposit[d].result[i] = "pending"
        BY DEF Pending
      <3>2. EntriesOf[d][i].tid \in Tids
        BY <3>1, EntryTids
      <3>3. reserved[EntriesOf[d][i].tid] = <<d, i>> /\ store[EntriesOf[d][i].tid] = Nothing
        BY <1>1, <3>1 DEF DepositRight
      <3> QED
        BY <3>2, <3>3 DEF Reserved, Vacant
    <2> QED
      BY <1>1, <2>1, DepositKept DEF Spared
  <1> QED
    BY <1>3, <1>4, <1>5, <1>6, Assembled

LEMMA PlanGetKeeps ==
    ASSUME RelayInv, NEW g \in Gets, PlanGet(g)
    PROVE  RelayInv'
  <1>1. /\ FileTypes /\ FilesRight /\ MemoryTypes /\ StoreRight /\ HistoryRight /\ g \in Planners
    BY DEF RelayInv, RelayTypes, Planners
  <1>2. /\ node = "up" /\ UNCHANGED <<start, deposit, reserved, store, retired>> /\ UNCHANGED relayFiles
        /\ UNCHANGED relayHistory
    BY DEF PlanGet, Up, relayMemory
  <1>3. PICK haves \in SUBSET Tids :
          plan' = [plan EXCEPT ![g] =
             [NoPlan EXCEPT !.state = "retiring",
                            !.retire = {store[t] : t \in {u \in haves : Contains(u)}},
                            !.covers = {store[t] : t \in haves} \ {Nothing}]]
    BY DEF PlanGet
  <1> DEFINE retire == {store[t] : t \in {u \in haves : Contains(u)}}
             covers == {store[t] : t \in haves} \ {Nothing}
             q == [NoPlan EXCEPT !.state = "retiring", !.retire = retire, !.covers = covers]
  <1>4. FilesStep({})
    BY <1>1, <1>2, FilesSame
  <1>5. \A t \in Tids : store[t] # Nothing => store[t] \in Drawn /\ store[t] \in Object /\ tidOf[store[t]] = t
    BY <1>1, DrawnTids DEF StoreRight, MemoryTypes
  <1>6. /\ retire \subseteq Drawn /\ \A o \in retire : store[tidOf[o]] = o
        /\ covers \subseteq Drawn /\ \A o \in covers : o \in retire \/ o \in retired
    BY <1>5 DEF Contains
  <1>7. q \in Plan /\ q.state = "retiring" /\ q.retire = retire /\ q.doing = Nothing /\ q.covers = covers
    BY <1>6, DrawnTids DEF NoPlan, Plan, Drawn
  <1>8. plan' = [plan EXCEPT ![g] = q]
    BY <1>3
  <1> HIDE DEF q, retire, covers
  <1>9. plan'[g] = q
    BY <1>1, <1>8 DEF MemoryTypes
  <1>10. PlanRight(g)'
    <2>1. Drawn' = Drawn /\ tidOf' = tidOf /\ store' = store /\ \A o : Final(o)' <=> Final(o)
      BY <1>2 DEF relayFiles, Drawn, Final, Keeps
    <2>2. Retires(g)' = retire
      BY <1>7, <1>9 DEF Retires
    <2>3. \A o \in retired : Final(o)
      BY <1>1 DEF StoreRight
    <2> QED
      BY <1>6, <1>7, <1>9, <2>1, <2>2, <2>3 DEF PlanRight
  <1>11. StoreRight' /\ HistoryRight' /\ Forgets
    BY <1>1, <1>2, <1>4, StoreKept, HistoryKept DEF Forgets, relayHistory
  <1>12. store' \in [Tids -> Object \cup {Nothing}] /\ retired' \subseteq Object
    BY <1>1, <1>2 DEF MemoryTypes
  <1>13. UNCHANGED <<start, deposit, reserved>> /\ Vacant /\ Spared({})
    BY <1>2 DEF Vacant, Spared
  <1> QED
    BY <1>1, <1>2, <1>4, <1>7, <1>8, <1>10, <1>11, <1>12, <1>13, PlanStep

LEMMA PlanMaintenanceKeeps ==
    ASSUME RelayInv, PlanMaintenance
    PROVE  RelayInv'
  <1>0. PICK g : g = "maintenance"
    OBVIOUS
  <1>1. /\ FileTypes /\ FilesRight /\ MemoryTypes /\ StoreRight /\ HistoryRight /\ g \in Planners
        /\ \A d \in Deposits : DepositRight(d)
    BY <1>0 DEF RelayInv, RelayTypes, Planners
  <1>2. /\ node = "up" /\ UNCHANGED <<start, deposit>> /\ UNCHANGED relayFiles
        /\ UNCHANGED relayHistory /\ Tidy(reserved)
    BY DEF PlanMaintenance, Up
  <1>3. PICK culled \in SUBSET {t \in Tids : Reaped[t] # Nothing} :
          plan' = [plan EXCEPT ![g] = [NoPlan EXCEPT !.state = "retiring",
                                                     !.retire = {store[t] : t \in culled}]]
    BY <1>0 DEF PlanMaintenance
  <1> DEFINE retire == {store[t] : t \in culled}
             q == [NoPlan EXCEPT !.state = "retiring", !.retire = retire]
  <1>4. FilesStep({})
    BY <1>1, <1>2, FilesSame
  <1>5. /\ store' \in [Tids -> Object \cup {Nothing}] /\ retired' = {} /\ reserved' = reserved
        /\ \A t \in Tids : store'[t] = IF store[t] \in retired THEN Nothing ELSE store[t]
        /\ Forgets
    <2>1. reserved \in [Tids -> Reservation \cup {Nothing}]
      BY <1>1 DEF MemoryTypes
    <2> QED
      BY <1>1, <1>2, <2>1, TidyFields
  <1>6. ASSUME NEW t \in culled
        PROVE  store'[t] = store[t] /\ store[t] \in Drawn /\ store[t] \in Object /\ tidOf[store[t]] = t
    <2>1. store'[t] # Nothing /\ t \in Tids
      BY <1>2, <1>6 DEF Tidy
    <2>2. store'[t] = store[t] /\ store[t] # Nothing
      BY <1>5, <2>1
    <2> QED
      BY <1>1, <2>1, <2>2, DrawnTids DEF StoreRight, MemoryTypes
  <1>7. retire \subseteq Drawn /\ retire \subseteq Object /\ \A o \in retire : store'[tidOf[o]] = o
    BY <1>6
  <1>8. q \in Plan /\ q.state = "retiring" /\ q.retire = retire /\ q.doing = Nothing /\ q.covers = {}
    BY <1>7 DEF NoPlan, Plan
  <1>9. plan' = [plan EXCEPT ![g] = q]
    BY <1>3
  <1> HIDE DEF q, retire
  <1>10. plan'[g] = q
    BY <1>1, <1>9 DEF MemoryTypes
  <1>11. PlanRight(g)'
    <2>1. Drawn' = Drawn /\ tidOf' = tidOf
      BY <1>2 DEF relayFiles, Drawn
    <2>2. Retires(g)' = retire
      BY <1>8, <1>10 DEF Retires
    <2> QED
      BY <1>7, <1>8, <1>10, <2>1, <2>2 DEF PlanRight
  <1>12. StoreRight' /\ HistoryRight'
    BY <1>1, <1>2, <1>4, <1>5, StoreKept, HistoryKept DEF relayHistory
  <1>13. Vacant /\ Spared({})
    BY <1>5 DEF Vacant, Spared
  <1> QED
    BY <1>1, <1>2, <1>4, <1>5, <1>8, <1>9, <1>11, <1>12, <1>13, PlanStep

(* A step of a plan that changes neither the files nor the store.           *)
LEMMA PlanMoves ==
    ASSUME RelayInv, node = "up", UNCHANGED <<start, deposit, reserved, store>>, UNCHANGED relayFiles,
           NEW p \in Planners, NEW q \in Plan, plan' = [plan EXCEPT ![p] = q],
           acked' = acked, \A o \in purged' : o \in purged \/ (o \in Drawn /\ Final(o)),
           \A o \in retired' : o \in retired \/ (o \in Drawn /\ Final(o)),
           q.retire \cup ({q.doing} \ {Nothing}) \subseteq Retires(p), q.covers \subseteq plan[p].covers,
           \A o \in q.covers : o \in q.retire \/ o = q.doing \/ Final(o),
           q.state \in {"writing", "committing"} <=> q.doing # Nothing,
           q.state = "committing" => Final(q.doing)
    PROVE  RelayInv'
  <1>1. /\ FileTypes /\ FilesRight /\ MemoryTypes /\ StoreRight /\ HistoryRight /\ PlanRight(p)
    BY DEF RelayInv, RelayTypes
  <1>2. FilesStep({})
    BY <1>1, FilesSame
  <1>3. StoreRight' /\ Forgets
    BY <1>1, <1>2, StoreKept DEF Forgets
  <1>4. HistoryRight'
    BY <1>1, <1>2, HistoryKept
  <1>5. plan'[p] = q
    BY <1>1 DEF MemoryTypes
  <1>6. Drawn' = Drawn /\ tidOf' = tidOf /\ store' = store /\ \A o : Final(o)' <=> Final(o)
    BY DEF relayFiles, Drawn, Final, Keeps
  <1>7. Retires(p)' = q.retire \cup ({q.doing} \ {Nothing})
    BY <1>5 DEF Retires
  <1>8. Nothing \notin Drawn
    BY <1>1, DrawnTids
  <1>9. PlanRight(p)'
    <2>1. Retires(p) \subseteq Drawn /\ plan[p].covers \subseteq Drawn
      BY <1>1 DEF PlanRight
    <2>2. (Retires(p) \cup plan[p].covers \subseteq Drawn)'
      BY <1>5, <1>6, <1>7, <2>1
    <2>3. (\A o \in Retires(p) : store[tidOf[o]] = o \/ Final(o))'
      BY <1>1, <1>6, <1>7 DEF PlanRight
    <2>4. (\A o \in plan[p].covers : o \in Retires(p) \/ Final(o))'
      BY <1>5, <1>6, <1>7, <1>8, <2>1
    <2> QED
      BY <1>5, <1>6, <2>2, <2>3, <2>4 DEF PlanRight
  <1>10. retired' \subseteq Object
    BY <1>1, DrawnTids DEF MemoryTypes
  <1>11. store' \in [Tids -> Object \cup {Nothing}]
    BY <1>1 DEF MemoryTypes
  <1>12. UNCHANGED <<start, deposit, reserved>> /\ Vacant /\ Spared({})
    BY DEF Vacant, Spared
  <1> QED
    BY <1>2, <1>3, <1>4, <1>9, <1>10, <1>11, <1>12, PlanStep

LEMMA PickObjectKeeps ==
    ASSUME RelayInv, NEW p \in Planners, NEW o \in Object, PickObject(p, o)
    PROVE  RelayInv'
  <1>1. /\ FileTypes /\ MemoryTypes /\ StoreRight /\ PlanRight(p) /\ plan[p] \in Plan
    BY DEF RelayInv, RelayTypes, MemoryTypes
  <1>2. /\ node = "up" /\ plan[p].state = "retiring" /\ o \in plan[p].retire
        /\ UNCHANGED <<start, deposit, reserved, store>> /\ UNCHANGED relayFiles
        /\ acked' = acked /\ purged' = purged /\ retired' = retired
    BY DEF PickObject, relayMemory, relayHistory
  <1> DEFINE q == [plan[p] EXCEPT !.retire = @ \ {o},
                                  !.state = IF o \in retired THEN @ ELSE "writing",
                                  !.doing = IF o \in retired THEN Nothing ELSE o]
  <1>3. plan' = [plan EXCEPT ![p] = q]
    BY DEF PickObject
  <1>4. q \in Plan
    <2>1. /\ plan[p].retire \ {o} \in SUBSET Object
          /\ (IF o \in retired THEN Nothing ELSE o) \in Object \cup {Nothing}
      BY <1>1 DEF Plan
    <2> QED
      BY <1>1, <2>1 DEF Plan
  <1>5. /\ q.retire = plan[p].retire \ {o} /\ q.covers = plan[p].covers
        /\ q.state = IF o \in retired THEN "retiring" ELSE "writing"
        /\ q.doing = IF o \in retired THEN Nothing ELSE o
    BY <1>1, <1>2 DEF Plan
  <1> HIDE DEF q
  <1>6. plan[p].doing = Nothing /\ o # Nothing
    BY <1>1, <1>2, RelayAssumption DEF PlanRight
  <1>7. o \in retired => Final(o)
    BY <1>1 DEF StoreRight
  <1>8. \A x \in q.covers : x \in q.retire \/ x = q.doing \/ Final(x)
    BY <1>1, <1>5, <1>6, <1>7 DEF PlanRight, Retires
  <1>9. /\ q.retire \cup ({q.doing} \ {Nothing}) \subseteq Retires(p)
        /\ q.state \in {"writing", "committing"} <=> q.doing # Nothing
        /\ q.state = "committing" => Final(q.doing)
        /\ q.covers \subseteq plan[p].covers
    BY <1>2, <1>5, <1>6 DEF Retires
  <1> QED
    BY <1>2, <1>3, <1>4, <1>8, <1>9, PlanMoves

LEMMA RetireCommitKeeps ==
    ASSUME RelayInv, NEW p \in Planners, RetireCommit(p)
    PROVE  RelayInv'
  <1>1. /\ FileTypes /\ MemoryTypes /\ StoreRight /\ PlanRight(p) /\ plan[p] \in Plan
    BY DEF RelayInv, RelayTypes, MemoryTypes
  <1>2. /\ node = "up" /\ plan[p].state = "committing"
        /\ UNCHANGED <<start, deposit, reserved, store>> /\ UNCHANGED relayFiles
        /\ acked' = acked /\ purged' = purged /\ retired' = retired \cup {plan[p].doing}
    BY DEF RetireCommit, relayHistory
  <1> DEFINE q == [plan[p] EXCEPT !.state = "retiring", !.doing = Nothing]
  <1>3. plan' = [plan EXCEPT ![p] = q]
    BY DEF RetireCommit
  <1>4. q \in Plan
    BY <1>1 DEF Plan
  <1>5. q.retire = plan[p].retire /\ q.covers = plan[p].covers /\ q.state = "retiring" /\ q.doing = Nothing
    BY <1>1 DEF Plan
  <1> HIDE DEF q
  <1>6. plan[p].doing \in Drawn /\ Final(plan[p].doing)
    BY <1>1, <1>2 DEF PlanRight, Retires
  <1>7. \A x \in q.covers : x \in q.retire \/ x = q.doing \/ Final(x)
    BY <1>1, <1>5, <1>6 DEF PlanRight, Retires
  <1>8. q.retire \cup ({q.doing} \ {Nothing}) \subseteq Retires(p)
    BY <1>5 DEF Retires
  <1> QED
    BY <1>2, <1>3, <1>4, <1>5, <1>6, <1>7, <1>8, PlanMoves

LEMMA PlanEndsKeeps ==
    ASSUME RelayInv, NEW p \in Planners, PlanEnds(p)
    PROVE  RelayInv'
  <1>1. /\ FileTypes /\ MemoryTypes /\ PlanRight(p) /\ plan[p] \in Plan
    BY DEF RelayInv, RelayTypes, MemoryTypes
  <1>2. /\ node = "up" /\ plan[p].state = "retiring" /\ plan[p].retire = {}
        /\ UNCHANGED <<start, deposit, reserved, store>> /\ UNCHANGED relayFiles
        /\ acked' = acked /\ purged' = purged \cup plan[p].covers /\ retired' = retired
    BY DEF PlanEnds, relayMemory
  <1>3. PICK q : q = IF p = "maintenance" THEN NoPlan ELSE [NoPlan EXCEPT !.state = "ended"]
    OBVIOUS
  <1>4. plan' = [plan EXCEPT ![p] = q]
    BY <1>3 DEF PlanEnds
  <1>5. q \in Plan /\ q.retire = {} /\ q.doing = Nothing /\ q.covers = {} /\ q.state \in {"none", "ended"}
    BY <1>3 DEF NoPlan, Plan
  <1>6. \A x \in purged' : x \in purged \/ (x \in Drawn /\ Final(x))
    BY <1>1, <1>2 DEF PlanRight, Retires
  <1>7. /\ q.retire \cup ({q.doing} \ {Nothing}) \subseteq Retires(p) /\ q.covers \subseteq plan[p].covers
        /\ \A x \in q.covers : x \in q.retire \/ x = q.doing \/ Final(x)
        /\ q.state \in {"writing", "committing"} <=> q.doing # Nothing
        /\ q.state = "committing" => Final(q.doing)
    BY <1>5
  <1> QED
    BY <1>2, <1>4, <1>5, <1>6, <1>7, PlanMoves

(* A retirement: what it takes away was not acknowledged any more.          *)
LEMMA Retirement ==
    ASSUME RelayInv, DirectoryBarrier, NEW o \in Drawn, NEW stop \in Stops(5), RetireObject(o, stop),
           purged' = purged
    PROVE  \E touched \in SUBSET {o} :
              FilesStep(touched) /\ HistoryRight' /\ (stop.at > 1 => Final(o)')
  <1>1. FileTypes /\ FilesRight /\ HistoryRight
    BY DEF RelayInv, RelayTypes
  <1>2. /\ FilesStep({o}) /\ (stop.at > 1 => Final(o)')
        /\ stop.at = 1 /\ stop.how \in {"notCommitted", "killed"} => Spares(o)
    BY <1>1, FilesRetire
  <1>3. CASE stop.at = 1 /\ stop.how \in {"notCommitted", "killed"}
    <2>1. acked' = acked
      BY <1>3 DEF RetireObject
    <2>2. FilesStep({})
      BY <1>2, <1>3 DEF FilesStep
    <2>3. HistoryRight'
      BY <1>1, <2>1, <2>2, HistoryKept
    <2> QED
      BY <1>2, <2>2, <2>3
  <1>4. CASE ~(stop.at = 1 /\ stop.how \in {"notCommitted", "killed"})
    <2>1. acked' = acked \ {o}
      BY <1>4 DEF RetireObject
    <2>2. HistoryRight'
      BY <1>1, <1>2, <2>1, HistoryKept
    <2> QED
      BY <1>2, <2>2
  <1> QED
    BY <1>3, <1>4

LEMMA RetireFileKeeps ==
    ASSUME RelayInv, DirectoryBarrier, NEW p \in Planners, RetireFile(p)
    PROVE  RelayInv'
  <1>0. PICK o : o = plan[p].doing
    OBVIOUS
  <1>1. /\ FileTypes /\ FilesRight /\ MemoryTypes /\ StoreRight /\ HistoryRight /\ PlanRight(p) /\ plan[p] \in Plan
        /\ \A d \in Deposits : DepositRight(d)
    BY DEF RelayInv, RelayTypes, MemoryTypes
  <1>2. node = "up" /\ plan[p].state = "writing" /\ purged' = purged
    BY DEF RetireFile
  <1>3. o \in Retires(p) /\ o \in Drawn /\ o # Nothing /\ (store[tidOf[o]] = o \/ Final(o)) /\ o \in Object
    BY <1>0, <1>1, <1>2, DrawnTids DEF PlanRight, Retires
  <1>4. /\ Ended(p) \in Plan /\ Ended(p).retire = {} /\ Ended(p).doing = Nothing /\ Ended(p).covers = {}
        /\ Ended(p).state \in {"none", "ended"}
    BY DEF Ended, NoPlan, Plan
  <1>5. CASE /\ RetireFails(o)
             /\ plan' = [plan EXCEPT ![p] = Ended(p)]
             /\ UNCHANGED <<relayFiles, start, relayMemory, deposit, relayFaults, acked>>
    <2>1. /\ UNCHANGED <<start, deposit, reserved, store>> /\ UNCHANGED relayFiles
          /\ acked' = acked /\ retired' = retired
      BY <1>5 DEF relayMemory
    <2>2. /\ Ended(p).retire \cup ({Ended(p).doing} \ {Nothing}) \subseteq Retires(p)
          /\ Ended(p).covers \subseteq plan[p].covers
          /\ \A x \in Ended(p).covers : x \in Ended(p).retire \/ x = Ended(p).doing \/ Final(x)
          /\ Ended(p).state \in {"writing", "committing"} <=> Ended(p).doing # Nothing
          /\ Ended(p).state = "committing" => Final(Ended(p).doing)
      BY <1>4
    <2> QED
      BY <1>2, <1>4, <1>5, <2>1, <2>2, PlanMoves
  <1>6. CASE \E stop \in Stops(5) :
                /\ RetireObject(o, stop) /\ Faulty(stop)
                /\ IF Fatal(stop) THEN NodeDies
                   ELSE /\ plan' = [plan EXCEPT ![p] = IF IntentKept(stop)
                                                       THEN [@ EXCEPT !.state = "committing"]
                                                       ELSE Ended(p)]
                        /\ UNCHANGED <<start, relayMemory, deposit>>
    <2>1. PICK stop \in Stops(5) :
                /\ RetireObject(o, stop)
                /\ IF Fatal(stop) THEN NodeDies
                   ELSE /\ plan' = [plan EXCEPT ![p] = IF IntentKept(stop)
                                                       THEN [@ EXCEPT !.state = "committing"]
                                                       ELSE Ended(p)]
                        /\ UNCHANGED <<start, relayMemory, deposit>>
      BY <1>6
    <2>2. PICK touched \in SUBSET {o} : FilesStep(touched) /\ HistoryRight' /\ (stop.at > 1 => Final(o)')
      BY <1>2, <1>3, <2>1, Retirement
    <2>3. CASE Fatal(stop)
      BY <2>1, <2>2, <2>3, Died
    <2>4. CASE ~Fatal(stop)
      <3> DEFINE q == IF IntentKept(stop) THEN [plan[p] EXCEPT !.state = "committing"] ELSE Ended(p)
      <3>1. plan' = [plan EXCEPT ![p] = q] /\ UNCHANGED <<start, store, retired, reserved, deposit>>
        BY <2>1, <2>4 DEF relayMemory
      <3>2. /\ q \in Plan /\ (IntentKept(stop) \/ (q.retire = {} /\ q.doing = Nothing /\ q.covers = {}
                                                   /\ q.state \in {"none", "ended"}))
            /\ IntentKept(stop) => /\ q.retire = plan[p].retire /\ q.doing = o /\ q.covers = plan[p].covers
                                   /\ q.state = "committing"
        BY <1>0, <1>1, <1>4 DEF Plan
      <3> HIDE DEF q
      <3>3. plan'[p] = q
        BY <1>1, <3>1 DEF MemoryTypes
      <3>4. Spared(touched)
        <4>1. ASSUME NEW d \in Deposits, deposit[d].state = "written", deposit[d].object = o PROVE FALSE
          <5>1. /\ Durable(o) /\ tidOf[o] = Entry(d).tid
                /\ deposit[d].at \in DOMAIN EntriesOf[d] /\ deposit[d].result[deposit[d].at] = "pending"
            BY <1>1, <4>1 DEF DepositRight
          <5>2. store[tidOf[o]] = Nothing
            BY <1>1, <5>1 DEF DepositRight, Entry
          <5>3. Final(o)
            BY <1>3, <5>2
          <5> QED
            BY <1>1, <1>3, <5>1, <5>3, FinalNotDurable
        <4> QED
          BY <4>1 DEF Spared
      <3>5. /\ Forgets /\ Vacant /\ StoreRight'
            /\ store' \in [Tids -> Object \cup {Nothing}] /\ retired' \subseteq Object
        BY <1>1, <2>2, <3>1, StoreKept DEF Forgets, Vacant, MemoryTypes
      <3>6. PlanRight(p)'
        <4>1. CASE IntentKept(stop)
          <5>1. Retires(p)' = Retires(p) /\ plan'[p].covers = plan[p].covers /\ plan'[p].doing = o
            BY <1>0, <3>2, <3>3, <4>1 DEF Retires
          <5>2. \A x \in Drawn : x \in Drawn' /\ (Final(x) => Final(x)')
            BY <2>2 DEF FilesStep, Leaves
          <5>3. (Retires(p) \cup plan[p].covers \subseteq Drawn)'
            BY <1>1, <5>1, <5>2 DEF PlanRight
          <5>4. \A x \in Retires(p) : store'[tidOf'[x]] = x \/ Final(x)'
            BY <1>1, <2>2, <3>5, RetirableKept DEF PlanRight
          <5>5. (\A x \in plan[p].covers : x \in Retires(p) \/ Final(x))'
            BY <1>1, <5>1, <5>2 DEF PlanRight
          <5>6. Final(plan[p].doing)'
            BY <2>2, <4>1, <5>1 DEF IntentKept, Final
          <5> QED
            BY <1>3, <3>2, <3>3, <4>1, <5>1, <5>3, <5>4, <5>5, <5>6 DEF PlanRight
        <4>2. CASE ~IntentKept(stop)
          BY <3>2, <3>3, <4>2 DEF PlanRight, Retires
        <4> QED
          BY <4>1, <4>2
      <3> QED
        BY <1>2, <2>2, <3>1, <3>2, <3>4, <3>5, <3>6, PlanStep
    <2> QED
      BY <2>3, <2>4
  <1> QED
    BY <1>0, <1>5, <1>6 DEF RetireFile

-----------------------------------------------------------------------------
(* Deaths and starts.                                                       *)

LEMMA KilledKeeps ==
    ASSUME RelayInv, Killed
    PROVE  RelayInv'
  <1>1. FileTypes /\ FilesRight /\ HistoryRight /\ NodeDies /\ UNCHANGED relayFiles /\ UNCHANGED relayHistory
    BY DEF RelayInv, RelayTypes, Killed
  <1>2. FilesStep({})
    BY <1>1, FilesSame
  <1>3. HistoryRight'
    BY <1>1, <1>2, HistoryKept DEF relayHistory
  <1> QED
    BY <1>1, <1>2, <1>3, Died

LEMMA PowerFailsKeeps ==
    ASSUME RelayInv, PowerFails
    PROVE  RelayInv'
  <1>1. FileTypes /\ FilesRight /\ HistoryRight /\ NodeDies /\ UNCHANGED relayHistory
    BY DEF RelayInv, RelayTypes, PowerFails
  <1>2. FilesStep({})
    BY <1>1, FilesPower
  <1>3. HistoryRight'
    BY <1>1, <1>2, HistoryKept DEF relayHistory
  <1> QED
    BY <1>1, <1>2, <1>3, Died

LEMMA Starting ==
    ASSUME RelayInv, node # "up", node' \in {"down", "starting"}, unreconciled' \subseteq Object,
           UNCHANGED <<store, retired, reserved, deposit, plan>>, NEW touched, FilesStep(touched), HistoryRight'
    PROVE  RelayInv'
  <1>1. /\ FileTypes /\ MemoryTypes /\ StoreRight /\ DownRight
        /\ \A d \in Deposits : DepositRight(d)
        /\ \A p \in Planners : PlanRight(p)
    BY DEF RelayInv, RelayTypes
  <1>2. MemoryTypes'
    BY <1>1 DEF MemoryTypes
  <1>3. DownRight'
    BY <1>1 DEF DownRight, Retires
  <1>4. /\ Forgets /\ StoreRight'
        /\ \A e \in Deposits : \A j \in Pending(e) : Reserved(e, j)'
    BY StoreSame
  <1>5. ASSUME NEW p \in Planners PROVE PlanRight(p)'
    BY <1>1, <1>4, PlanKept
  <1>6. ASSUME NEW d \in Deposits PROVE DepositRight(d)'
    <2>1. deposit[d].state # "written"
      BY <1>1 DEF DownRight
    <2> QED
      BY <1>1, <1>4, <2>1, DepositKept
  <1> QED
    BY <1>2, <1>3, <1>4, <1>5, <1>6, Assembled

LEMMA OpenStoreKeeps ==
    ASSUME RelayInv, OpenStore
    PROVE  RelayInv'
  <1>1. FileTypes /\ FilesRight /\ HistoryRight /\ UNCHANGED relayFiles /\ UNCHANGED relayHistory
    BY DEF RelayInv, RelayTypes, OpenStore
  <1>2. FilesStep({})
    BY <1>1, FilesSame
  <1>3. HistoryRight'
    BY <1>1, <1>2, HistoryKept DEF relayHistory
  <1>4. /\ node # "up" /\ node' \in {"down", "starting"} /\ unreconciled' \subseteq Object
        /\ UNCHANGED <<store, retired, reserved, deposit, plan>>
    BY DEF OpenStore, relayMemory
  <1> QED
    BY <1>2, <1>3, <1>4, Starting

LEMMA ReconcileDeletionKeeps ==
    ASSUME RelayInv, DirectoryBarrier, NEW o \in Object, ReconcileDeletion(o)
    PROVE  RelayInv'
  <1>1. FileTypes /\ FilesRight /\ MemoryTypes
    BY DEF RelayInv, RelayTypes
  <1>2. PICK stop \in Stops(5) :
           /\ RetireObject(o, stop)
           /\ IF Fatal(stop) \/ ~IntentKept(stop) THEN node' = "down" /\ unreconciled' = {}
              ELSE node' = node /\ unreconciled' = unreconciled \ {o}
    BY DEF ReconcileDeletion
  <1>3. /\ node = "starting" /\ UNCHANGED <<store, retired, reserved, deposit, plan>> /\ purged' = purged
        /\ node' \in {"down", "starting"} /\ unreconciled' \subseteq Object
    BY <1>1, <1>2 DEF ReconcileDeletion, relayMemory, MemoryTypes
  <1>4. o \in Drawn
    <2>1. NoFile.vis = Nothing
      BY SettledFields DEF NoFile
    <2> QED
      BY <1>1, <1>2, <2>1, DrawnTids DEF RetireObject, RetireFails, FilesRight, FreshRight
  <1>5. PICK touched \in SUBSET {o} : FilesStep(touched) /\ HistoryRight'
    BY <1>2, <1>3, <1>4, Retirement
  <1> QED
    BY <1>3, <1>5, Starting

LEMMA LoadKeeps ==
    ASSUME RelayInv, Load
    PROVE  RelayInv'
  <1>1. /\ FileTypes /\ FilesRight /\ MemoryTypes /\ StoreRight /\ DownRight /\ HistoryRight
        /\ node = "starting" /\ node' = "up"
        /\ UNCHANGED <<retired, reserved, deposit, plan, unreconciled>> /\ UNCHANGED relayFiles
        /\ UNCHANGED relayHistory
    BY DEF RelayInv, RelayTypes, Load, relayHistory
  <1>2. FilesStep({})
    BY <1>1, FilesSame
  <1>3. HistoryRight'
    BY <1>1, <1>2, HistoryKept DEF relayHistory
  <1>4. store' \in [Tids -> Object \cup {Nothing}] /\ \A t \in Tids : store'[t] # Nothing => store'[t] \in Names(t)
    BY <1>1 DEF Load, FileTypes, Files, Names
  <1>5. MemoryTypes'
    BY <1>1, <1>4 DEF MemoryTypes
  <1>6. StoreRight'
    <2>1. \A t \in Tids : store'[t] # Nothing => tidOf[store'[t]] = t
      BY <1>1, <1>4 DEF FilesRight, NamesRight
    <2> QED
      BY <1>1, <2>1 DEF StoreRight, DownRight, relayFiles
  <1>7. DownRight'
    BY <1>1 DEF DownRight
  <1>8. ASSUME NEW p \in Planners PROVE PlanRight(p)'
    <2>1. Retires(p) = {} /\ plan[p].covers = {} /\ plan'[p] = plan[p] /\ PlanRight(p)
      BY <1>1 DEF DownRight, RelayInv
    <2>2. Retires(p)' = {}
      BY <2>1 DEF Retires
    <2> QED
      BY <2>1, <2>2 DEF PlanRight, Retires
  <1>9. ASSUME NEW d \in Deposits PROVE DepositRight(d)'
    <2>1. /\ deposit'[d] = deposit[d] /\ deposit[d].state \in {"arrived", "ended"}
          /\ \A i \in DOMAIN EntriesOf[d] : deposit[d].result[i] = "none"
      BY <1>1 DEF DownRight
    <2> QED
      BY <2>1, Planless
  <1> QED
    BY <1>2, <1>3, <1>5, <1>6, <1>7, <1>8, <1>9, Assembled

-----------------------------------------------------------------------------
LEMMA RelayInitHolds == RelayInit => RelayInv
  <1> SUFFICES ASSUME RelayInit PROVE RelayInv
    OBVIOUS
  <1>1. /\ NoFile \in Files({"there"}) /\ NoFile \in Files(Object)
        /\ NoFile.vis = Nothing /\ NoFile.may = {Nothing}
    BY SettledFields DEF NoFile
  <1>2. Nothing \notin Object \cup Tids /\ MaxObjects \in Nat
    BY RelayAssumption
  <1>3. \A d \in Deposits : /\ deposit[d] \in DepositOf(d) /\ deposit[d].state = "arrived"
                            /\ \A i \in DOMAIN EntriesOf[d] : deposit[d].result[i] = "none"
    BY DEF RelayInit, Arrived, DepositOf, Result
  <1>4. \A p \in Planners : /\ plan[p] \in Plan /\ plan[p].retire = {} /\ plan[p].doing = Nothing
                            /\ plan[p].covers = {} /\ plan[p].state = "none"
    BY DEF RelayInit, NoPlan, Plan
  <1>5. FileTypes
    BY <1>1 DEF RelayInit, FileTypes
  <1>6. MemoryTypes
    <2>1. deposit \in [Deposits -> UNION {DepositOf(e) : e \in Deposits}]
      BY <1>3 DEF RelayInit
    <2>2. plan \in [Planners -> Plan]
      BY <1>4 DEF RelayInit
    <2> QED
      BY <1>3, <2>1, <2>2 DEF RelayInit, MemoryTypes
  <1>7. Drawn = {} /\ \A t \in Tids : Names(t) = {}
    BY <1>1 DEF RelayInit, Drawn, Names
  <1>8. FilesRight
    <2>1. DrawnInTurn
      <3>1. Drawn = 1 .. 0 /\ 0 \in 0 .. MaxObjects
        BY <1>2, <1>7
      <3> QED
        BY <3>1 DEF DrawnInTurn
    <2>2. FreshRight /\ MarkerRight
      BY <1>1 DEF RelayInit, FreshRight, MarkerRight
    <2>3. NamesRight /\ Startable
      BY <1>7 DEF NamesRight, Startable, Names
    <2>4. Visible(index) /\ Visible(body) /\ Visible(manifest) /\ Visible(marker)
      BY <1>1 DEF RelayInit, Visible
    <2> QED
      BY <2>1, <2>2, <2>3, <2>4 DEF FilesRight
  <1>9. StoreRight /\ DownRight /\ HistoryRight
    BY DEF RelayInit, StoreRight, DownRight, HistoryRight, DepositsDurable, PurgesFinal
  <1>10. ASSUME NEW p \in Planners PROVE PlanRight(p)
    BY <1>4 DEF PlanRight, Retires
  <1>11. ASSUME NEW d \in Deposits PROVE DepositRight(d)
    BY <1>3 DEF DepositRight
  <1> QED
    BY <1>5, <1>6, <1>8, <1>9, <1>10, <1>11 DEF RelayInv, RelayTypes

LEMMA Same ==
    ASSUME RelayInv, UNCHANGED relayVars
    PROVE  RelayInv'
  <1>1. /\ FileTypes /\ FilesRight /\ MemoryTypes /\ StoreRight /\ DownRight /\ HistoryRight
        /\ \A d \in Deposits : DepositRight(d)
        /\ \A p \in Planners : PlanRight(p)
    BY DEF RelayInv, RelayTypes
  <1>2. /\ UNCHANGED relayFiles /\ UNCHANGED relayHistory
        /\ UNCHANGED <<node, unreconciled, store, retired, reserved, deposit, plan>>
    BY DEF relayVars, start, relayMemory
  <1>3. FilesStep({})
    BY <1>1, <1>2, FilesSame
  <1>4. HistoryRight'
    BY <1>1, <1>2, <1>3, HistoryKept DEF relayHistory
  <1>5. /\ Forgets /\ StoreRight'
        /\ \A e \in Deposits : \A j \in Pending(e) : Reserved(e, j)'
    BY <1>2, <1>3, StoreSame
  <1>6. MemoryTypes'
    BY <1>1, <1>2 DEF MemoryTypes
  <1>7. DownRight'
    BY <1>1, <1>2 DEF DownRight, Retires
  <1>8. ASSUME NEW p \in Planners PROVE PlanRight(p)'
    BY <1>1, <1>2, <1>3, <1>5, PlanKept
  <1>9. ASSUME NEW d \in Deposits PROVE DepositRight(d)'
    BY <1>1, <1>2, <1>3, <1>5, DepositKept
  <1> QED
    BY <1>3, <1>4, <1>5, <1>6, <1>7, <1>8, <1>9, Assembled

LEMMA RelayNextHolds ==
    ASSUME DirectoryBarrier, RelayInv, [RelayNext]_relayVars
    PROVE  RelayInv'
  <1>1. CASE \E d \in Deposits :
               \/ PlanEntry(d) \/ ReserveBatch(d) \/ PersistWrite(d) \/ AbortWrite(d) \/ CommitWrite(d)
               \/ Check(d) \/ PacketEnds(d)
    BY <1>1, PlanEntryKeeps, ReserveBatchKeeps, PersistWriteKeeps, AbortWriteKeeps, CommitWriteKeeps,
       CheckKeeps, PacketEndsKeeps
  <1>2. CASE (\E g \in Gets : PlanGet(g)) \/ PlanMaintenance
    BY <1>2, PlanGetKeeps, PlanMaintenanceKeeps
  <1>3. CASE \E p \in Planners : RetireFile(p) \/ RetireCommit(p) \/ PlanEnds(p)
    BY <1>3, RetireFileKeeps, RetireCommitKeeps, PlanEndsKeeps
  <1>4. CASE \E p \in Planners, o \in Object : PickObject(p, o)
    BY <1>4, PickObjectKeeps
  <1>5. CASE Killed \/ PowerFails \/ OpenStore \/ Load \/ \E o \in Object : ReconcileDeletion(o)
    BY <1>5, KilledKeeps, PowerFailsKeeps, OpenStoreKeeps, LoadKeeps, ReconcileDeletionKeeps
  <1>6. CASE UNCHANGED relayVars
    BY <1>6, Same
  <1> QED
    BY <1>1, <1>2, <1>3, <1>4, <1>5, <1>6 DEF RelayNext

(* What was proved to a sender, as a new admission or as a duplicate, stays *)
(* in the files whatever power loss takes, until its retirement begins, if  *)
(* the barrier of a removal covers the directory, as an fsync of it does    *)
(* (publish_object, verify_committed_object, retire_object).                *)
THEOREM DepositsStayDurable ==
    ASSUME DirectoryBarrier
    PROVE  RelaySpec => []DepositsDurable
  <1>1. RelayInv => DepositsDurable
    BY DEF RelayInv, HistoryRight
  <1>2. RelayInv /\ [RelayNext]_relayVars => RelayInv'
    BY RelayNextHolds
  <1> QED
    BY RelayInitHolds, <1>1, <1>2, PTL DEF RelaySpec

(* What a client was told is purged is never read again: its admission is   *)
(* out of the index for good or its deletion intent is in the files         *)
(* (PropagationRetirementPlan::persist, reconcile_deletions).               *)
THEOREM PurgesStayFinal ==
    ASSUME DirectoryBarrier
    PROVE  RelaySpec => []PurgesFinal
  <1>1. RelayInv => PurgesFinal
    BY DEF RelayInv, HistoryRight
  <1>2. RelayInv /\ [RelayNext]_relayVars => RelayInv'
    BY RelayNextHolds
  <1> QED
    BY RelayInitHolds, <1>1, <1>2, PTL DEF RelaySpec

(* Whatever deaths and power losses leave, no index names an admission      *)
(* whose files are gone, so that load_from_disk opens the store again.      *)
THEOREM StoreStartsAgain ==
    ASSUME DirectoryBarrier
    PROVE  RelaySpec => []Startable
  <1>1. RelayInv => Startable
    BY DEF RelayInv, FilesRight
  <1>2. RelayInv /\ [RelayNext]_relayVars => RelayInv'
    BY RelayNextHolds
  <1> QED
    BY RelayInitHolds, <1>1, <1>2, PTL DEF RelaySpec

-----------------------------------------------------------------------------
(* The migration of an old store and the import from its archive.           *)

(* The journal says where the old directory is.                             *)
Explained(s) ==
    IF s.journal = Gone THEN s.olddir \in {Legacy, Gone}
    ELSE LET j == s.journal
         IN  /\ j.had <=> s.olddir # Gone
             /\ s.olddir = Legacy => j.phase = 0 /\ j.renewal = 0
             /\ \/ s.olddir \in {Legacy, Archive, Gone}
                \/ j.renewal # 0 /\ s.olddir = Renewal(j.renewal)

(* Each directory that can be left is explained; the new store is begun     *)
(* only when no power loss can take the journal back.                       *)
Unwritten(set) == \E s \in set : s.journal = Gone
ParentRight ==
    /\ \A s \in survivors : Explained(s)
    /\ journal = Gone => survivors = {Siblings}
    /\ Unwritten(survivors) => format = Store!Settled(Gone)

(* What a command knows at its next step.                                   *)
Barriered == {"move", "out", "back", "settling", "creating"}
Building == {"archived", "guarding", "guarded", "witness", "creating", "created", "verifying",
             "publishing"}
CommandRight ==
    /\ hosting => command = NoCommand
    /\ At("begin") => journal = Gone /\ command.j = FreshJournal(olddir = Legacy)
    /\ At("renewing") => command.j.had /\ There(journal) /\ journal.had
    /\ command.at \notin {"none", "begin", "renewing", "importing"} =>
           There(journal) /\ journal = command.j
    /\ command.at \in {"moving", "move"} => olddir = Legacy
    /\ command.at \in {"renewing", "out", "settling"} => olddir = Archive
    /\ command.at \in {"renewing", "out"} => command.j.renewal # 0
    /\ command.at \in {"returning", "back"} =>
           command.j.renewal # 0 /\ olddir = Renewal(command.j.renewal)
    /\ command.at \in Barriered => survivors = {Siblings}
    /\ command.at \in Building => olddir \in {Archive, Gone}
    /\ At("publishing") => guardFile = "guard" /\ For(format, "format")

(* What an import has done, and what is left of it.                         *)
OneEach(set) == \A v, w \in set : TidOf[v] = TidOf[w] => v = w
Relaying(set) == \A w \in set : active[TidOf[w]].vis = w
ImportRight ==
    /\ At("importing") =>
           command.j \subseteq reported /\ OneEach(reported) /\ Relaying(reported \ command.j)
    /\ told = "imported" => command = NoCommand /\ ~hosting /\ Relaying(reported)

MigrationInv ==
    /\ MigrationTypeOK /\ ParentRight /\ CommandRight /\ ImportRight /\ Resumable /\ HostedSafely

-----------------------------------------------------------------------------
(* Operators.                                                               *)

LEMMA Places ==
    /\ Legacy # Archive /\ Legacy # Gone /\ Archive # Gone
    /\ Legacy \in Place /\ Archive \in Place
    /\ \A n \in 1 .. MaxMoves :
          Renewal(n) \in Place /\ Renewal(n) # Legacy /\ Renewal(n) # Archive /\ Renewal(n) # Gone
  <1>1. Legacy \in Place /\ Archive \in Place /\ \A n \in 1 .. MaxMoves : Renewal(n) \in Place
    BY DEF Place
  <1>2. Gone \notin Place
    BY MigrationAssumption
  <1>3. Legacy # Archive
    BY DEF Legacy, Archive
  <1>4. ASSUME NEW n \in 1 .. MaxMoves
        PROVE  Renewal(n) # Legacy /\ Renewal(n) # Archive
    <2>1. Len(Renewal(n)) = 2 /\ Len(Legacy) = 1 /\ Len(Archive) = 1
      BY DEF Renewal, Legacy, Archive
    <2> QED
      BY <2>1
  <1> QED
    BY <1>1, <1>2, <1>3, <1>4

LEMMA Contents ==
    /\ \A j \in Journal : /\ There(j) /\ j.had \in BOOLEAN /\ j.phase \in 0 .. 4
                          /\ j.renewal \in 0 .. MaxMoves /\ j.sequence \in 0 .. MaxMoves
    /\ \A w \in OldImage : There(w) /\ TidOf[w] \in Relayed
    /\ There("format") /\ There("guard")
  BY MigrationAssumption DEF Journal, There, Relayed

LEMMA Journals ==
    ASSUME NEW j \in Journal
    PROVE  /\ \A p \in 0 .. 4 : [j EXCEPT !.phase = p] \in Journal
           /\ Settle(j) \in Journal
           /\ j.sequence < MaxMoves => NextRenewal(j) \in Journal
           /\ FreshJournal(TRUE) \in Journal /\ FreshJournal(FALSE) \in Journal
  <1>1. 0 \in 0 .. MaxMoves /\ 0 \in 0 .. 4 /\ TRUE \in BOOLEAN /\ FALSE \in BOOLEAN
    BY MigrationAssumption
  <1>2. \A p \in 0 .. 4 : [j EXCEPT !.phase = p] \in Journal
    BY DEF Journal
  <1>3. [j EXCEPT !.renewal = 0] \in Journal
    BY <1>1 DEF Journal
  <1>4. ASSUME j.sequence < MaxMoves
        PROVE  [j EXCEPT !.renewal = j.sequence + 1, !.sequence = j.sequence + 1] \in Journal
    <2>1. j.sequence + 1 \in 0 .. MaxMoves
      BY <1>4, Contents, MigrationAssumption
    <2> QED
      BY <2>1 DEF Journal
  <1> QED
    BY <1>1, <1>2, <1>3, <1>4 DEF Journal, Settle, NextRenewal, FreshJournal

LEMMA FileWritten ==
    ASSUME NEW Values, NEW file \in Store!File(Values), NEW v \in Values \cup {Gone}, NEW o
    PROVE  Store!Written(file, v, o) \in Store!File(Values) /\ Store!Settled(v) \in Store!File(Values)
  BY DEF Store!File, Store!Written, Store!Settled

LEMMA SiblingsAre ==
    Siblings.journal = journal /\ Siblings.olddir = olddir /\ Siblings.guardFile = guardFile
  BY DEF Siblings

-----------------------------------------------------------------------------
(* A change of the directory and of its possible contents.                  *)

LEMMA ParentKept ==
    ASSUME MigrationTypeOK, ParentRight, NEW o \in StepOutcomes, Barrier(o),
           journal' \in Journal \cup {Gone}, olddir' \in Place \cup {Gone},
           guardFile' \in {"guard", Gone},
           There(journal)' \/ UNCHANGED <<journal, olddir, guardFile>>,
           o = "notCommitted" => UNCHANGED <<journal, olddir, guardFile>>,
           Explained(Siblings)'
    PROVE  /\ Siblings' \in survivors'
           /\ survivors' \subseteq [journal: Journal \cup {Gone}, olddir: Place \cup {Gone},
                                    guardFile: {"guard", Gone}]
           /\ \A s \in survivors' : Explained(s)
           /\ journal' = Gone => survivors' = {Siblings'}
           /\ Unwritten(survivors') => Unwritten(survivors)
  <1> DEFINE S == Siblings'
  <1>1. /\ S = [journal |-> journal', olddir |-> olddir', guardFile |-> guardFile']
        /\ Siblings = [journal |-> journal, olddir |-> olddir, guardFile |-> guardFile]
    BY DEF Siblings
  <1>2. S \in [journal: Journal \cup {Gone}, olddir: Place \cup {Gone}, guardFile: {"guard", Gone}]
    BY <1>1
  <1>3. Siblings \in survivors /\ Explained(S)
    BY DEF MigrationTypeOK, Explained, Siblings
  <1>4. survivors' \in {{S}, survivors \cup {S}, survivors}
    BY <1>1 DEF Barrier
  <1>5. survivors' = survivors => o = "notCommitted" \/ survivors = {S} \/ S \in survivors
    BY DEF Barrier, StepOutcomes
  <1> QED
    BY <1>1, <1>2, <1>3, <1>4, <1>5 DEF ParentRight, MigrationTypeOK, Unwritten, There

(* A step of a migration: what it keeps whatever it does next.              *)
Working == command.kind \in {"migrate", "open"}
RestKept ==
    /\ MigrationTypeOK' /\ ParentRight' /\ ImportRight' /\ Resumable' /\ HostedSafely'

LEMMA Holding ==
    ASSUME MigrationTypeOK
    PROVE  /\ Working => command.j \in Journal /\ command # NoCommand
           /\ command = GoesWith(command.at, command.j)
  BY DEF MigrationTypeOK, CommandTypes, Working, NoCommand, GoesWith

LEMMA NextTypes ==
    ASSUME MigrationTypeOK, Working, NEW p, p # "importing", NEW j \in Journal,
           command' = NoCommand \/ command' = GoesWith(p, j)
    PROVE  CommandTypes'
  <1>1. CASE command' = NoCommand
    BY <1>1 DEF CommandTypes, NoCommand, At
  <1>2. CASE command' = GoesWith(p, j)
    BY <1>2 DEF CommandTypes, GoesWith, Working, At
  <1> QED
    BY <1>1, <1>2

LEMMA WorkKeeps ==
    ASSUME MigrationInv, Working, NEW o \in StepOutcomes, Barrier(o),
           journal' \in Journal \cup {Gone}, olddir' \in Place \cup {Gone},
           guardFile' \in {"guard", Gone},
           There(journal)' \/ UNCHANGED <<journal, olddir, guardFile>>,
           o = "notCommitted" => UNCHANGED <<journal, olddir, guardFile>>,
           Explained(Siblings)',
           NEW p, p # "importing", NEW j \in Journal,
           command' = NoCommand \/ command' = GoesWith(p, j),
           told' \in {"nothing", "failed", "migrated"},
           storeFaults' = IF o = "ok" THEN storeFaults ELSE storeFaults + 1,
           format' = format \/ (format' \in Store!File({"format"}) /\ ~Unwritten(survivors)),
           hosting' \in BOOLEAN, HostedSafely', UNCHANGED <<active, reported, commands>>
    PROVE  RestKept
  <1>1. /\ Siblings' \in survivors'
        /\ survivors' \subseteq [journal: Journal \cup {Gone}, olddir: Place \cup {Gone},
                                 guardFile: {"guard", Gone}]
        /\ \A s \in survivors' : Explained(s)
        /\ journal' = Gone => survivors' = {Siblings'}
        /\ Unwritten(survivors') => Unwritten(survivors)
    BY ParentKept DEF MigrationInv
  <1>2. MigrationTypeOK'
    <2>1. storeFaults' \in 0 .. MaxStoreFaults
      BY MigrationAssumption DEF MigrationInv, MigrationTypeOK, StepOutcomes
    <2>2. CommandTypes'
      BY NextTypes DEF MigrationInv
    <2> QED
      BY <1>1, <2>1, <2>2 DEF MigrationInv, MigrationTypeOK
  <1>3. ParentRight'
    BY <1>1 DEF MigrationInv, ParentRight
  <1>4. ImportRight'
    BY DEF ImportRight, GoesWith, NoCommand, At
  <1>5. Resumable'
    BY DEF Resumable
  <1> QED
    BY <1>2, <1>3, <1>4, <1>5 DEF RestKept

LEMMA Quiet ==
    ASSUME MigrationInv, Working
    PROVE  ~hosting
  BY Holding DEF MigrationInv, CommandRight

LEMMA SaveKeeps ==
    ASSUME MigrationInv, Working, NEW j \in Journal, NEW p, p # "importing", SaveAs(j, p),
           \A s : (/\ s.journal = j /\ s.olddir = olddir) => Explained(s)
    PROVE  /\ RestKept /\ UNCHANGED <<olddir, guardFile, format, active, hosting>>
           /\ \/ command' = NoCommand
              \/ command' = GoesWith(p, j) /\ journal' = j /\ survivors' = {Siblings'}
  <1>1. PICK o \in StepOutcomes :
            /\ journal' = Changed(journal, j, o)
            /\ Continue(o, GoesWith(p, j))
            /\ UNCHANGED <<olddir, guardFile>> /\ Barrier(o)
            /\ UNCHANGED <<format, active, hosting, reported, commands>>
    BY DEF SaveAs
  <1>2. /\ journal \in Journal \cup {Gone} /\ olddir \in Place \cup {Gone} /\ guardFile \in {"guard", Gone}
        /\ Explained(Siblings)
    BY SiblingsAre DEF MigrationInv, MigrationTypeOK, ParentRight, Siblings
  <1>3. /\ journal' \in {j, journal}
        /\ There(journal)' \/ UNCHANGED <<journal, olddir, guardFile>>
        /\ o = "notCommitted" => UNCHANGED <<journal, olddir, guardFile>>
    BY <1>1, Contents DEF Changed
  <1>4. Explained(Siblings)'
    <2>1. Siblings'.journal = journal' /\ Siblings'.olddir = olddir
      BY <1>1 DEF Siblings
    <2>2. CASE journal' = j
      BY <2>1, <2>2 DEF Explained
    <2>3. CASE journal' = journal
      BY <1>1, <1>2, <2>3 DEF Explained, Siblings
    <2> QED
      BY <1>3, <2>2, <2>3
  <1>5. /\ command' = NoCommand \/ command' = GoesWith(p, j)
        /\ o = "ok" => command' = GoesWith(p, j)
        /\ o # "ok" => command' = NoCommand
        /\ told' \in {"nothing", "failed", "migrated"}
        /\ storeFaults' = IF o = "ok" THEN storeFaults ELSE storeFaults + 1
    BY <1>1 DEF Continue, MigrationInv
  <1>6. hosting' \in BOOLEAN /\ HostedSafely'
    <2>1. hosting' = hosting /\ ~hosting /\ hosting \in BOOLEAN
      BY <1>1, Quiet DEF MigrationInv, MigrationTypeOK
    <2> QED
      BY <2>1 DEF HostedSafely
  <1>7. RestKept
    BY <1>1, <1>2, <1>3, <1>4, <1>5, <1>6, WorkKeeps
  <1> QED
    BY <1>1, <1>5, <1>7 DEF Changed, Barrier

(* The directory is explained by what the journal says.                     *)
LEMMA Here ==
    ASSUME MigrationInv, There(journal)
    PROVE  /\ journal \in Journal /\ olddir \in Place \cup {Gone}
           /\ journal.had <=> olddir # Gone
           /\ olddir = Legacy => journal.phase = 0 /\ journal.renewal = 0
           /\ \/ olddir \in {Legacy, Archive, Gone}
              \/ journal.renewal # 0 /\ olddir = Renewal(journal.renewal)
           /\ ~Unwritten(survivors) \/ format = Store!Settled(Gone)
  BY SiblingsAre DEF MigrationInv, MigrationTypeOK, ParentRight, Explained, There, Siblings

LEMMA MoveKeeps ==
    ASSUME MigrationInv, Working, There(journal), NEW place \in Place, NEW p, p # "importing",
           MoveTo(place, p),
           \A s : (/\ s.journal = journal /\ s.olddir = place) => Explained(s)
    PROVE  /\ RestKept /\ UNCHANGED <<journal, guardFile, format, active, hosting>>
           /\ \/ command' = NoCommand
              \/ command' = Goes(p) /\ olddir' = place /\ survivors' = {Siblings'}
  <1>1. PICK o \in StepOutcomes :
            /\ olddir' = Changed(olddir, place, o)
            /\ Continue(o, Goes(p))
            /\ UNCHANGED <<journal, guardFile>> /\ Barrier(o)
            /\ UNCHANGED <<format, active, hosting, reported, commands>>
    BY DEF MoveTo
  <1>2. /\ journal \in Journal /\ olddir \in Place \cup {Gone} /\ guardFile \in {"guard", Gone}
        /\ Explained(Siblings) /\ command.j \in Journal
    BY Here, SiblingsAre, Holding DEF MigrationInv, MigrationTypeOK, ParentRight, Siblings
  <1>3. /\ olddir' \in {place, olddir} /\ There(journal)'
        /\ o = "notCommitted" => UNCHANGED <<journal, olddir, guardFile>>
    BY <1>1 DEF Changed, There
  <1>4. Explained(Siblings)'
    <2>1. Siblings'.journal = journal /\ Siblings'.olddir = olddir'
      BY <1>1 DEF Siblings
    <2>2. CASE olddir' = place
      BY <2>1, <2>2 DEF Explained
    <2>3. CASE olddir' = olddir
      BY <1>1, <1>2, <2>3 DEF Explained, Siblings
    <2> QED
      BY <1>3, <2>2, <2>3
  <1>5. /\ command' = NoCommand \/ command' = GoesWith(p, command.j)
        /\ o = "ok" => command' = Goes(p)
        /\ o # "ok" => command' = NoCommand
        /\ told' \in {"nothing", "failed", "migrated"}
        /\ storeFaults' = IF o = "ok" THEN storeFaults ELSE storeFaults + 1
    BY <1>1 DEF Continue, Goes
  <1>6. hosting' \in BOOLEAN /\ HostedSafely'
    <2>1. hosting' = hosting /\ ~hosting /\ hosting \in BOOLEAN
      BY <1>1, Quiet DEF MigrationInv, MigrationTypeOK
    <2> QED
      BY <2>1 DEF HostedSafely
  <1>7. RestKept
    BY <1>1, <1>2, <1>3, <1>4, <1>5, <1>6, WorkKeeps
  <1> QED
    BY <1>1, <1>5, <1>7 DEF Changed, Barrier

LEMMA ProceedKeeps ==
    ASSUME MigrationInv, Working, NEW j \in Journal, NEW p, NEW q, q # "importing", Proceed(q, j)
    PROVE  /\ RestKept /\ UNCHANGED <<parent, format, active, hosting>> /\ command' = GoesWith(q, j)
  <1>1. /\ UNCHANGED <<journal, olddir, guardFile, survivors, format, active, hosting, told>>
        /\ UNCHANGED <<reported, commands, storeFaults>> /\ command' = GoesWith(q, j)
    BY DEF Proceed, migrationFiles, parent
  <1>2. MigrationTypeOK'
    <2>1. CommandTypes'
      BY <1>1, NextTypes DEF MigrationInv
    <2>2. Siblings' = Siblings
      BY <1>1 DEF Siblings
    <2> QED
      BY <1>1, <2>1, <2>2 DEF MigrationInv, MigrationTypeOK
  <1>3. ParentRight'
    BY <1>1 DEF MigrationInv, ParentRight, Siblings, Unwritten, Explained
  <1>4. ImportRight' /\ Resumable'
    BY <1>1, Holding DEF MigrationInv, ImportRight, Resumable, GoesWith, At
  <1>5. HostedSafely'
    BY <1>1 DEF MigrationInv, HostedSafely, For
  <1> QED
    BY <1>1, <1>2, <1>3, <1>4, <1>5 DEF RestKept, parent

-----------------------------------------------------------------------------
(* The journal and the archive.                                             *)

LEMMA CommandEnded ==
    ASSUME command' = NoCommand
    PROVE  CommandRight'
  BY DEF CommandRight, NoCommand, At, Barriered, Building

LEMMA BeginKeeps ==
    ASSUME MigrationInv, Begin
    PROVE  MigrationInv'
  <1>1. At("begin") /\ SaveAs(command.j, "run") /\ Working /\ command.j \in Journal
        /\ journal = Gone /\ command.j = FreshJournal(olddir = Legacy)
    BY Holding DEF Begin, MigrationInv, MigrationTypeOK, CommandTypes, CommandRight, Working, At, NoCommand
  <1>2. olddir \in {Legacy, Gone}
    BY <1>1, SiblingsAre DEF MigrationInv, MigrationTypeOK, ParentRight, Explained, Siblings
  <1>3. \A s : (/\ s.journal = command.j /\ s.olddir = olddir) => Explained(s)
    <2>1. command.j # Gone
      BY <1>1, Contents DEF There
    <2>2. /\ command.j.had <=> olddir = Legacy
          /\ command.j.phase = 0 /\ command.j.renewal = 0
      <3>1. PICK b \in BOOLEAN : b <=> olddir = Legacy
        OBVIOUS
      <3>2. command.j = FreshJournal(b)
        BY <1>1, <3>1
      <3> QED
        BY <3>1, <3>2 DEF FreshJournal
    <2> QED
      BY <1>2, <2>1, <2>2, Places DEF Explained
  <1>4. /\ RestKept /\ UNCHANGED <<olddir, guardFile, format, active, hosting>>
        /\ \/ command' = NoCommand
           \/ command' = GoesWith("run", command.j) /\ journal' = command.j /\ survivors' = {Siblings'}
    BY <1>1, <1>3, SaveKeeps
  <1>5. CASE command' = NoCommand
    BY <1>4, <1>5, CommandEnded DEF RestKept, MigrationInv
  <1>6. CASE command' = GoesWith("run", command.j) /\ journal' = command.j
    <2>1. ~hosting' /\ There(journal)'
      BY <1>1, <1>4, <1>6, Quiet, Contents DEF There
    <2>2. CommandRight'
      BY <1>6, <2>1 DEF CommandRight, GoesWith, At, Barriered, Building
    <2> QED
      BY <1>4, <2>2 DEF RestKept, MigrationInv
  <1> QED
    BY <1>4, <1>5, <1>6

(* At each step of a run after its first journal, what it holds is on disk. *)
LEMMA Context ==
    ASSUME MigrationInv, NEW p, At(p), p \notin {"none", "importing"}
    PROVE  /\ Working /\ command.j \in Journal /\ ~hosting
           /\ p # "begin" => There(journal)
           /\ p \notin {"begin", "renewing"} => journal = command.j
  <1>1. Working
    BY DEF MigrationInv, MigrationTypeOK, CommandTypes, Working, At, NoCommand
  <1>2. command.j \in Journal /\ ~hosting
    BY <1>1, Holding, Quiet DEF MigrationInv
  <1> QED
    BY <1>1, <1>2 DEF MigrationInv, CommandRight, At

LEMMA RunKeeps ==
    ASSUME MigrationInv, FirstArchive \/ RenewArchive \/ NothingToArchive
    PROVE  MigrationInv'
  <1>1. /\ Working /\ command.j \in Journal /\ ~hosting /\ There(journal)
        /\ journal = command.j /\ At("run")
    BY Context DEF FirstArchive, RenewArchive, NothingToArchive
  <1> DEFINE j == command.j
  <1>2. /\ olddir \in Place \cup {Gone}
        /\ j.had <=> olddir # Gone
        /\ olddir = Legacy => j.phase = 0 /\ j.renewal = 0
        /\ olddir \in {Legacy, Archive, Gone} \/ (j.renewal # 0 /\ olddir = Renewal(j.renewal))
    BY <1>1, Here
  <1>3. ASSUME FirstArchive
        PROVE  Proceed("moving", j) /\ olddir = Legacy
    BY <1>2, <1>3 DEF FirstArchive, Verified
  <1>4. ASSUME RenewArchive
        PROVE  \/ Proceed("returning", j) /\ j.renewal # 0 /\ olddir = Renewal(j.renewal)
               \/ /\ Proceed("renewing", NextRenewal(j)) /\ olddir = Archive /\ j.had
                  /\ j.sequence < MaxMoves
    BY <1>2, <1>4 DEF RenewArchive, Verified
  <1>5. ASSUME NothingToArchive
        PROVE  Proceed("archived", j) /\ olddir = Gone
    BY <1>2, <1>5 DEF NothingToArchive
  <1> DEFINE Going(q, i) ==
               /\ RestKept /\ UNCHANGED <<parent, format, active, hosting>> /\ command' = GoesWith(q, i)
  <1>6. CASE FirstArchive
    <2>1. Going("moving", j)
      BY <1>1, <1>3, <1>6, ProceedKeeps
    <2>2. CommandRight'
      BY <1>1, <1>3, <1>6, <2>1 DEF CommandRight, GoesWith, At, Barriered, Building, parent, There
    <2> QED
      BY <2>1, <2>2 DEF RestKept, MigrationInv
  <1>7. CASE NothingToArchive
    <2>1. Going("archived", j)
      BY <1>1, <1>5, <1>7, ProceedKeeps
    <2>2. CommandRight'
      BY <1>1, <1>5, <1>7, <2>1 DEF CommandRight, GoesWith, At, Barriered, Building, parent, There
    <2> QED
      BY <2>1, <2>2 DEF RestKept, MigrationInv
  <1>8. CASE Proceed("returning", j) /\ j.renewal # 0 /\ olddir = Renewal(j.renewal)
    <2>1. Going("returning", j)
      BY <1>1, <1>8, ProceedKeeps
    <2>2. CommandRight'
      BY <1>1, <1>8, <2>1 DEF CommandRight, GoesWith, At, Barriered, Building, parent, There
    <2> QED
      BY <2>1, <2>2 DEF RestKept, MigrationInv
  <1>9. CASE /\ Proceed("renewing", NextRenewal(j)) /\ olddir = Archive /\ j.had
             /\ j.sequence < MaxMoves
    <2>1. NextRenewal(j) \in Journal
      BY <1>1, <1>9, Journals
    <2>2. Going("renewing", NextRenewal(j))
      BY <1>1, <1>9, <2>1, ProceedKeeps
    <2>3. NextRenewal(j).had = j.had /\ NextRenewal(j).renewal # 0
      <3>1. j.sequence + 1 # 0
        BY <1>1, Contents
      <3>2. j = [had |-> j.had, phase |-> j.phase, renewal |-> j.renewal, sequence |-> j.sequence]
        BY <1>1 DEF Journal
      <3> QED
        BY <3>1, <3>2 DEF NextRenewal
    <2>4. CommandRight'
      BY <1>1, <1>9, <2>2, <2>3 DEF CommandRight, GoesWith, At, Barriered, Building, parent, There
    <2> QED
      BY <2>2, <2>4 DEF RestKept, MigrationInv
  <1> QED
    BY <1>4, <1>6, <1>7, <1>8, <1>9

LEMMA SavesKeep ==
    ASSUME MigrationInv, SaveMove \/ SaveRenewal \/ SaveReturn \/ SaveSettled
    PROVE  MigrationInv'
  <1> DEFINE j == command.j
             Saved(q, i) == /\ RestKept /\ UNCHANGED <<olddir, guardFile, format, active, hosting>>
                            /\ \/ command' = NoCommand
                               \/ command' = GoesWith(q, i) /\ journal' = i /\ survivors' = {Siblings'}
  <1>1. CASE SaveMove
    <2>1. /\ Working /\ j \in Journal /\ ~hosting /\ There(journal) /\ journal = j
          /\ At("moving") /\ olddir = Legacy /\ SaveAs(j, "move")
      BY <1>1, Context DEF SaveMove, MigrationInv, CommandRight, At
    <2>2. \A s : (/\ s.journal = j /\ s.olddir = olddir) => Explained(s)
      BY <2>1, Here DEF Explained
    <2>3. Saved("move", j)
      BY <2>1, <2>2, SaveKeeps
    <2>4. CASE command' = NoCommand
      BY <2>3, <2>4, CommandEnded DEF RestKept, MigrationInv
    <2>5. CASE command' = GoesWith("move", j) /\ journal' = j /\ survivors' = {Siblings'}
      <3>1. CommandRight'
        BY <2>1, <2>3, <2>5 DEF CommandRight, GoesWith, At, Barriered, Building, There
      <3> QED
        BY <2>3, <3>1 DEF RestKept, MigrationInv
    <2> QED
      BY <2>3, <2>4, <2>5
  <1>2. CASE SaveRenewal
    <2>1. /\ Working /\ j \in Journal /\ ~hosting /\ There(journal) /\ journal.had /\ j.had
          /\ At("renewing") /\ olddir = Archive /\ j.renewal # 0 /\ SaveAs(j, "out")
      BY <1>2, Context DEF SaveRenewal, MigrationInv, CommandRight, At
    <2>2. \A s : (/\ s.journal = j /\ s.olddir = olddir) => Explained(s)
      BY <2>1, Places, Contents DEF Explained, There
    <2>3. Saved("out", j)
      BY <2>1, <2>2, SaveKeeps
    <2>4. CASE command' = NoCommand
      BY <2>3, <2>4, CommandEnded DEF RestKept, MigrationInv
    <2>5. CASE command' = GoesWith("out", j) /\ journal' = j /\ survivors' = {Siblings'}
      <3>1. CommandRight'
        BY <2>1, <2>3, <2>5, Contents DEF CommandRight, GoesWith, At, Barriered, Building, There
      <3> QED
        BY <2>3, <3>1 DEF RestKept, MigrationInv
    <2> QED
      BY <2>3, <2>4, <2>5
  <1>3. CASE SaveReturn
    <2>1. /\ Working /\ j \in Journal /\ ~hosting /\ There(journal) /\ journal = j
          /\ At("returning") /\ olddir = Renewal(j.renewal) /\ j.renewal # 0 /\ SaveAs(j, "back")
      BY <1>3, Context DEF SaveReturn, MigrationInv, CommandRight, At
    <2>2. \A s : (/\ s.journal = j /\ s.olddir = olddir) => Explained(s)
      BY <2>1, Here DEF Explained, There
    <2>3. Saved("back", j)
      BY <2>1, <2>2, SaveKeeps
    <2>4. CASE command' = NoCommand
      BY <2>3, <2>4, CommandEnded DEF RestKept, MigrationInv
    <2>5. CASE command' = GoesWith("back", j) /\ journal' = j /\ survivors' = {Siblings'}
      <3>1. CommandRight'
        BY <2>1, <2>3, <2>5 DEF CommandRight, GoesWith, At, Barriered, Building, There
      <3> QED
        BY <2>3, <3>1 DEF RestKept, MigrationInv
    <2> QED
      BY <2>3, <2>4, <2>5
  <1>4. CASE SaveSettled
    <2>1. /\ Working /\ j \in Journal /\ ~hosting /\ There(journal) /\ journal = j
          /\ At("settling") /\ olddir = Archive /\ SaveAs(Settle(j), "archived")
      BY <1>4, Context DEF SaveSettled, MigrationInv, CommandRight, At
    <2>2. Settle(j) \in Journal /\ Settle(j).had = j.had
      BY <2>1, Journals DEF Settle, Journal
    <2>7. Settle(j).had /\ Settle(j) # Gone
      <3>1. j.had <=> Settle(j).had
        BY <2>2
      <3> QED
        BY <2>1, <2>2, <3>1, Here, Places, Contents DEF There
    <2>3. \A s : (/\ s.journal = Settle(j) /\ s.olddir = olddir) => Explained(s)
      BY <2>1, <2>7, Places DEF Explained
    <2>4. Saved("archived", Settle(j))
      BY <2>1, <2>2, <2>3, SaveKeeps
    <2>5. CASE command' = NoCommand
      BY <2>4, <2>5, CommandEnded DEF RestKept, MigrationInv
    <2>6. CASE command' = GoesWith("archived", Settle(j)) /\ journal' = Settle(j)
      <3>1. CommandRight'
        BY <2>1, <2>2, <2>4, <2>6, Contents DEF CommandRight, GoesWith, At, Barriered, Building, There
      <3> QED
        BY <2>4, <3>1 DEF RestKept, MigrationInv
    <2> QED
      BY <2>4, <2>5, <2>6
  <1> QED
    BY <1>1, <1>2, <1>3, <1>4

LEMMA MovesKeep ==
    ASSUME MigrationInv, Move \/ MoveOut \/ MoveBack
    PROVE  MigrationInv'
  <1> DEFINE j == command.j
             Moved(q, place) == /\ RestKept /\ UNCHANGED <<journal, guardFile, format, active, hosting>>
                                /\ \/ command' = NoCommand
                                   \/ /\ command' = GoesWith(q, j) /\ olddir' = place
                                      /\ survivors' = {Siblings'}
  <1>1. ASSUME NEW p, NEW q, NEW place \in Place, At(p), MoveTo(place, q),
               <<p, q, place>> \in {<<"move", "archived", Archive>>,
                                    <<"out", "returning", Renewal(j.renewal)>>,
                                    <<"back", "settling", Archive>>}
        PROVE  MigrationInv'
    <2>1. /\ Working /\ j \in Journal /\ ~hosting /\ There(journal) /\ journal = j
          /\ p \in {"move", "out", "back"} /\ q # "importing"
      BY <1>1, Context
    <2>2. journal.had /\ (p = "out" => j.renewal # 0)
      <3>1. j.renewal \in 0 .. MaxMoves /\ (p \in {"out", "back"} => j.renewal # 0)
        BY <1>1, <2>1, Contents DEF MigrationInv, CommandRight, At
      <3>2. p \in {"out", "back"} => j.renewal \in 1 .. MaxMoves
        BY <3>1, MigrationAssumption
      <3>3. olddir \in {Legacy, Archive} \/ (p = "back" /\ olddir = Renewal(j.renewal))
        BY <1>1, <2>1 DEF MigrationInv, CommandRight, At
      <3> QED
        BY <2>1, <3>1, <3>2, <3>3, Here, Places
    <2>3. \A s : (/\ s.journal = journal /\ s.olddir = place) => Explained(s)
      <3>1. place # Gone /\ place # Legacy
        BY <1>1, <2>1, <2>2, Places, Contents, MigrationAssumption
      <3>2. place = Archive \/ (journal.renewal # 0 /\ place = Renewal(journal.renewal))
        BY <1>1, <2>1, <2>2
      <3> QED
        BY <2>1, <2>2, <3>1, <3>2 DEF Explained, There
    <2>4. Moved(q, place)
      BY <1>1, <2>1, <2>3, MoveKeeps DEF Goes
    <2>5. CASE command' = NoCommand
      BY <2>4, <2>5, CommandEnded DEF RestKept, MigrationInv
    <2>6. CASE command' = GoesWith(q, j) /\ olddir' = place /\ survivors' = {Siblings'}
      <3>1. CommandRight'
        BY <1>1, <2>1, <2>2, <2>4, <2>6 DEF CommandRight, GoesWith, At, Barriered, Building, There
      <3> QED
        BY <2>4, <3>1 DEF RestKept, MigrationInv
    <2> QED
      BY <2>4, <2>5, <2>6
  <1>2. CASE Move
    BY <1>1, <1>2, Places DEF Move
  <1>3. CASE MoveOut
    <2>1. j.renewal \in 1 .. MaxMoves
      BY <1>3, Context, Contents, MigrationAssumption DEF MoveOut, MigrationInv, CommandRight, At
    <2> QED
      BY <1>1, <1>3, <2>1, Places DEF MoveOut
  <1>4. CASE MoveBack
    BY <1>1, <1>4, Places DEF MoveBack
  <1> QED
    BY <1>2, <1>3, <1>4

-----------------------------------------------------------------------------
(* The guard, the new store and the phases.                                 *)

(* A step of the building of the new store.                                 *)
LEMMA Built ==
    ASSUME MigrationInv, NEW p \in Building, At(p)
    PROVE  /\ Working /\ command.j \in Journal /\ ~hosting /\ There(journal)
           /\ journal = command.j /\ olddir \in {Archive, Gone}
           /\ \A i \in Journal : \A s : (i.had <=> journal.had) /\ s.journal = i /\ s.olddir = olddir
                                      => Explained(s)
  <1>1. p \notin {"none", "importing", "begin", "renewing"}
    BY DEF Building
  <1>2. /\ Working /\ command.j \in Journal /\ ~hosting /\ There(journal)
        /\ journal = command.j
    BY <1>1, Context
  <1>3. olddir \in {Archive, Gone}
    BY DEF MigrationInv, CommandRight, At
  <1>4. journal.had <=> olddir # Gone
    BY <1>2, Here
  <1>5. ASSUME NEW i \in Journal, NEW s, i.had <=> journal.had, s.journal = i, s.olddir = olddir
        PROVE  Explained(s)
    <2>1. i # Gone
      BY Contents DEF There
    <2> QED
      BY <1>3, <1>4, <1>5, <2>1, Places DEF Explained
  <1> QED
    BY <1>2, <1>3, <1>5

LEMMA GoesOn ==
    ASSUME MigrationInv, RestKept, Working, NEW q, NEW j, command' = GoesWith(q, j),
           q \in Building, ~hosting', There(journal)', journal' = j, olddir' \in {Archive, Gone},
           q = "creating" => survivors' = {Siblings'},
           q = "publishing" => guardFile' = "guard" /\ For(format, "format")'
    PROVE  MigrationInv'
  <1>1. CommandRight'
    BY DEF CommandRight, GoesWith, At, Barriered, Building
  <1> QED
    BY <1>1 DEF RestKept, MigrationInv

LEMMA ReachKeeps ==
    ASSUME MigrationInv, NEW p \in Building, At(p), NEW phase \in 0 .. 4, NEW q,
           q \in {"guarding", "witness", "verifying"}, Reach(phase, q)
    PROVE  MigrationInv'
  <1> DEFINE j == command.j
             i == [j EXCEPT !.phase = phase]
  <1>1. /\ Working /\ j \in Journal /\ ~hosting /\ There(journal) /\ journal = j
        /\ olddir \in {Archive, Gone}
    BY Built
  <1>2. q # "importing" /\ q \in Building /\ q # "creating" /\ q # "publishing"
    BY DEF Building
  <1>3. CASE SaveAs(i, q)
    <2>1. i \in Journal /\ (i.had <=> j.had)
      BY <1>1, Journals DEF Journal
    <2>2. \A s : (/\ s.journal = i /\ s.olddir = olddir) => Explained(s)
      BY <1>1, <2>1, Built
    <2> HIDE DEF i
    <2>3. /\ RestKept /\ UNCHANGED <<olddir, guardFile, format, active, hosting>>
          /\ \/ command' = NoCommand
             \/ command' = GoesWith(q, i) /\ journal' = i /\ survivors' = {Siblings'}
      BY <1>1, <1>2, <1>3, <2>1, <2>2, SaveKeeps
    <2>4. CASE command' = NoCommand
      BY <2>3, <2>4, CommandEnded DEF RestKept, MigrationInv
    <2>5. CASE command' = GoesWith(q, i) /\ journal' = i
      <3>1. There(journal)' /\ ~hosting' /\ olddir' \in {Archive, Gone}
        BY <1>1, <2>1, <2>3, <2>5, Contents DEF There
      <3> QED
        BY <1>1, <1>2, <2>3, <2>5, <3>1, GoesOn
    <2> QED
      BY <2>3, <2>4, <2>5
  <1>4. CASE Proceed(q, j)
    <2>1. RestKept /\ UNCHANGED <<parent, format, active, hosting>> /\ command' = GoesWith(q, j)
      BY <1>1, <1>2, <1>4, ProceedKeeps
    <2>2. There(journal)' /\ ~hosting' /\ olddir' \in {Archive, Gone} /\ journal' = j
      BY <1>1, <2>1 DEF There, parent
    <2> QED
      BY <1>1, <1>2, <2>1, <2>2, GoesOn
  <1> QED
    BY <1>3, <1>4 DEF Reach

LEMMA SaveWitnessKeeps ==
    ASSUME MigrationInv, SaveWitness
    PROVE  MigrationInv'
  <1> DEFINE j == command.j
  <1>1. At("witness") /\ SaveAs(j, "creating") /\ "witness" \in Building /\ "creating" \in Building
    BY DEF SaveWitness, Building
  <1>2. /\ Working /\ j \in Journal /\ ~hosting /\ There(journal) /\ journal = j
        /\ olddir \in {Archive, Gone}
        /\ \A s : (/\ s.journal = j /\ s.olddir = olddir) => Explained(s)
    BY <1>1, Built
  <1>3. /\ RestKept /\ UNCHANGED <<olddir, guardFile, format, active, hosting>>
        /\ \/ command' = NoCommand
           \/ command' = GoesWith("creating", j) /\ journal' = j /\ survivors' = {Siblings'}
    BY <1>1, <1>2, SaveKeeps
  <1>4. CASE command' = NoCommand
    BY <1>3, <1>4, CommandEnded DEF RestKept, MigrationInv
  <1>5. CASE command' = GoesWith("creating", j) /\ journal' = j /\ survivors' = {Siblings'}
    <2>1. There(journal)' /\ ~hosting' /\ olddir' \in {Archive, Gone}
      BY <1>2, <1>3, <1>5 DEF There
    <2> QED
      BY <1>1, <1>2, <1>3, <1>5, <2>1, GoesOn
  <1> QED
    BY <1>3, <1>4, <1>5

(* A step that writes neither the journal nor the old directory.            *)
LEMMA BuildKeeps ==
    ASSUME MigrationInv, NEW p \in Building, At(p), NEW q \in Building, NEW o \in StepOutcomes,
           Barrier(o), UNCHANGED <<journal, olddir>>, guardFile' \in {guardFile, "guard"},
           o = "notCommitted" => UNCHANGED guardFile,
           Continue(o, Goes(q)),
           format' = format \/ (format' \in Store!File({"format"}) /\ ~Unwritten(survivors)),
           UNCHANGED <<active, hosting, reported, commands>>,
           q # "creating", q = "publishing" /\ o = "ok" => guardFile' = "guard" /\ For(format, "format")'
    PROVE  MigrationInv'
  <1> DEFINE j == command.j
  <1>1. /\ Working /\ j \in Journal /\ ~hosting /\ There(journal) /\ journal = j
        /\ olddir \in {Archive, Gone} /\ q # "importing"
        /\ \A s : (/\ s.journal = j /\ s.olddir = olddir) => Explained(s)
    BY Built DEF Building
  <1>2. /\ journal' \in Journal \cup {Gone} /\ olddir' \in Place \cup {Gone}
        /\ guardFile' \in {"guard", Gone} /\ There(journal)'
        /\ o = "notCommitted" => UNCHANGED <<journal, olddir, guardFile>>
    <2>1. guardFile \in {"guard", Gone} /\ olddir \in Place \cup {Gone}
      BY SiblingsAre DEF MigrationInv, MigrationTypeOK, Siblings
    <2> QED
      BY <1>1, <2>1 DEF There
  <1>3. Explained(Siblings)'
    <2>1. Siblings'.journal = j /\ Siblings'.olddir = olddir
      BY <1>1 DEF Siblings
    <2> QED
      BY <1>1, <2>1 DEF Explained
  <1>4. /\ command' \in {NoCommand, GoesWith(q, j)} /\ (o = "ok" => command' = GoesWith(q, j))
        /\ o # "ok" => command' = NoCommand
        /\ told' \in {"nothing", "failed", "migrated"}
        /\ storeFaults' = IF o = "ok" THEN storeFaults ELSE storeFaults + 1
    BY DEF Continue, Goes
  <1>5. ~hosting' /\ hosting' \in BOOLEAN
    BY <1>1 DEF MigrationInv, MigrationTypeOK
  <1>6. RestKept
    BY <1>1, <1>2, <1>3, <1>4, <1>5, WorkKeeps DEF HostedSafely
  <1>7. CASE o # "ok"
    BY <1>4, <1>6, <1>7, CommandEnded DEF RestKept, MigrationInv
  <1>8. CASE o = "ok"
    BY <1>1, <1>2, <1>4, <1>5, <1>6, <1>8, GoesOn
  <1> QED
    BY <1>7, <1>8

LEMMA FormatRenewed ==
    ASSUME MigrationInv, NEW o \in StepOutcomes, RenewPublished(o)
    PROVE  /\ ~Unwritten(survivors) /\ guardFile = "guard" /\ There(journal)
           /\ format' \in Store!File({"format"})
           /\ o = "ok" => For(format, "format")'
           /\ o # "ok" => format' = format
           /\ Barrier(o) /\ UNCHANGED <<journal, olddir, guardFile>>
  <1>1. guardFile = "guard" /\ format.vis = "format" /\ format \in Store!File({"format"})
    BY DEF RenewPublished, Published, MigrationInv, MigrationTypeOK
  <1>2. ~Unwritten(survivors)
    BY <1>1, MigrationAssumption DEF MigrationInv, ParentRight, Store!Settled
  <1>3. There(journal)
    BY <1>2, SiblingsAre DEF MigrationInv, MigrationTypeOK, Unwritten, There
  <1>4. o = "ok" => format' = Store!Settled("format")
    BY <1>1 DEF RenewPublished, Store!Reconciled, Store!Written
  <1>5. o # "ok" => format' = format
    BY DEF RenewPublished
  <1>6. Store!Settled("format") \in Store!File({"format"})
    BY DEF Store!Settled, Store!File
  <1>7. format' = Store!Settled("format") => For(format, "format")'
    BY DEF For, Store!Settled
  <1> QED
    BY <1>1, <1>2, <1>3, <1>4, <1>5, <1>6, <1>7 DEF RenewPublished

LEMMA WritesKeep ==
    ASSUME MigrationInv, WriteGuard \/ Create \/ Verify
    PROVE  MigrationInv'
  <1>1. CASE WriteGuard
    <2>1. PICK o \in StepOutcomes :
            /\ guardFile' = Changed(guardFile, "guard", o)
            /\ UNCHANGED <<journal, olddir>> /\ Barrier(o)
            /\ Continue(o, Goes("guarded"))
      BY <1>1 DEF WriteGuard
    <2>2. /\ At("guarding") /\ UNCHANGED <<format, active, hosting, reported, commands>>
          /\ "guarding" \in Building /\ "guarded" \in Building
          /\ guardFile' \in {guardFile, "guard"} /\ (o = "notCommitted" => UNCHANGED guardFile)
      BY <1>1, <2>1 DEF WriteGuard, Building, Changed
    <2> QED
      BY <2>1, <2>2, BuildKeeps
  <1>2. CASE Create
    <2>1. PICK o \in StepOutcomes :
            /\ format' = Store!Written(format, "format", o)
            /\ IF o = "ok" THEN UNCHANGED <<journal, olddir, guardFile>> /\ Barrier(o)
               ELSE UNCHANGED parent
            /\ Continue(o, Goes("created"))
      BY <1>2 DEF Create
    <2>2. /\ At("creating") /\ UNCHANGED <<active, hosting, reported, commands>>
          /\ "creating" \in Building /\ "created" \in Building
      BY <1>2 DEF Create, Building
    <2>3. survivors = {Siblings} /\ There(journal)
      BY <2>2, Context DEF MigrationInv, CommandRight, At, Barriered
    <2>4. ~Unwritten(survivors)
      BY <2>3, SiblingsAre DEF Unwritten, There
    <2>5. UNCHANGED <<journal, olddir, guardFile>> /\ Barrier(o)
      <3>1. CASE o = "ok"
        BY <2>1, <3>1
      <3>2. CASE o # "ok"
        <4>1. UNCHANGED <<journal, olddir, guardFile, survivors>>
          BY <2>1, <3>2 DEF parent
        <4>2. Siblings' = Siblings
          BY <4>1 DEF Siblings
        <4> QED
          BY <2>3, <3>2, <4>1, <4>2 DEF Barrier
      <3> QED
        BY <3>1, <3>2
    <2>6. format' \in Store!File({"format"})
      BY <2>1, FileWritten DEF MigrationInv, MigrationTypeOK
    <2> QED
      BY <2>1, <2>2, <2>4, <2>5, <2>6, BuildKeeps
  <1>3. CASE Verify
    <2>1. PICK o \in StepOutcomes : RenewPublished(o) /\ Continue(o, Goes("publishing"))
      BY <1>3 DEF Verify
    <2>2. /\ At("verifying") /\ UNCHANGED <<active, hosting, reported, commands>>
          /\ "verifying" \in Building /\ "publishing" \in Building
      BY <1>3 DEF Verify, Building
    <2>3. /\ ~Unwritten(survivors) /\ guardFile = "guard"
          /\ format' \in Store!File({"format"}) /\ (o = "ok" => For(format, "format")')
          /\ Barrier(o) /\ UNCHANGED <<journal, olddir, guardFile>>
      BY <2>1, FormatRenewed
    <2> QED
      BY <2>1, <2>2, <2>3, BuildKeeps
  <1> QED
    BY <1>1, <1>2, <1>3

LEMMA HostedNow ==
    ASSUME survivors' = {Siblings'}, guardFile' = "guard", olddir' \in {Archive, Gone},
           For(format, "format")'
    PROVE  HostedSafely'
  <1>1. Siblings'.guardFile = "guard" /\ Siblings'.olddir \in {Archive, Gone}
    BY DEF Siblings
  <1> QED
    BY <1>1 DEF HostedSafely

LEMMA PublishKeeps ==
    ASSUME MigrationInv, Publish
    PROVE  MigrationInv'
  <1> DEFINE j == command.j
             i == [j EXCEPT !.phase = 4]
  <1>1. PICK o \in StepOutcomes :
         /\ journal' = Changed(journal, i, o)
         /\ UNCHANGED <<olddir, guardFile>> /\ Barrier(o)
         /\ storeFaults' = IF o = "ok" THEN storeFaults ELSE storeFaults + 1
         /\ CommandEnds(IF o = "ok" THEN "migrated" ELSE "failed")
         /\ hosting' = (o = "ok" /\ command.kind = "open")
    BY DEF Publish
  <1>2. /\ At("publishing") /\ "publishing" \in Building
        /\ UNCHANGED <<format, active, reported, commands>>
    BY DEF Publish, Building
  <1>3. /\ Working /\ j \in Journal /\ There(journal) /\ journal = j /\ olddir \in {Archive, Gone}
        /\ \A g \in Journal : \A s : (g.had <=> journal.had) /\ s.journal = g /\ s.olddir = olddir => Explained(s)
        /\ guardFile = "guard" /\ For(format, "format")
    BY <1>2, Built DEF MigrationInv, CommandRight
  <1>4. i \in Journal /\ (i.had <=> j.had) /\ 4 \in 0 .. 4
    BY <1>3, Journals DEF Journal
  <1> HIDE DEF i
  <1>5. journal' \in {i, j} /\ journal' \in Journal /\ (journal'.had <=> journal.had)
    BY <1>1, <1>3, <1>4 DEF Changed
  <1>6. Explained(Siblings)'
    <2>1. Siblings'.journal = journal' /\ Siblings'.olddir = olddir
      BY <1>1 DEF Siblings
    <2>2. Explained(Siblings')
      BY <1>3, <1>5, <2>1
    <2> QED
      BY <2>2 DEF Explained
  <1>7. There(journal)'
    BY <1>5, Contents DEF There
  <1>8. /\ olddir' \in Place \cup {Gone} /\ guardFile' \in {"guard", Gone}
        /\ o = "notCommitted" => UNCHANGED <<journal, olddir, guardFile>>
    BY <1>1, <1>3, Places DEF Changed
  <1>9. HostedSafely' /\ hosting' \in BOOLEAN
    <2>1. CASE o = "ok"
      <3>1. For(format, "format")' /\ survivors' = {Siblings'}
        BY <1>1, <1>2, <1>3, <2>1 DEF For, Barrier
      <3> QED
        BY <1>1, <1>3, <3>1, HostedNow
    <2>2. CASE o # "ok"
      BY <1>1, <2>2 DEF HostedSafely
    <2> QED
      BY <2>1, <2>2
  <1>10. command' = NoCommand /\ told' \in {"nothing", "failed", "migrated"}
    BY <1>1 DEF CommandEnds
  <1>11. RestKept
    BY <1>1, <1>2, <1>3, <1>5, <1>6, <1>7, <1>8, <1>9, <1>10, WorkKeeps
  <1> QED
    BY <1>10, <1>11, CommandEnded DEF RestKept, MigrationInv

-----------------------------------------------------------------------------
(* Commands that start, the host, and imports.                              *)

LEMMA ParentSame ==
    ASSUME MigrationInv, UNCHANGED parent, format' \in Store!File({"format"}),
           Unwritten(survivors) => format' = format
    PROVE  /\ Siblings' \in survivors' /\ ParentRight'
           /\ survivors' \subseteq [journal: Journal \cup {Gone}, olddir: Place \cup {Gone},
                                    guardFile: {"guard", Gone}]
  <1>1. UNCHANGED <<journal, olddir, guardFile, survivors>> /\ Siblings' = Siblings
    BY DEF parent, Siblings
  <1>2. ParentRight'
    BY <1>1 DEF MigrationInv, ParentRight, Unwritten, Explained
  <1> QED
    BY <1>1, <1>2 DEF MigrationInv, MigrationTypeOK

LEMMA Resting ==
    ASSUME MigrationInv, Idle
    PROVE  command = NoCommand /\ ~hosting
  BY DEF Idle

LEMMA StartedKeeps ==
    ASSUME MigrationInv, Idle, NEW kind \in {"migrate", "open"}, NEW p, NEW j \in Journal,
           Started(kind, p, j),
           (p = "run" /\ There(journal) /\ journal = j)
           \/ (p = "begin" /\ journal = Gone /\ j = FreshJournal(olddir = Legacy))
    PROVE  MigrationInv'
  <1>1. /\ command' = [kind |-> kind, at |-> p, j |-> j] /\ told' = "nothing"
        /\ UNCHANGED <<parent, format, active, hosting, reported, storeFaults>>
        /\ UNCHANGED <<journal, olddir, guardFile, survivors>>
        /\ commands < MaxCommands /\ commands' = commands + 1
    BY DEF Started, migrationFiles, parent
  <1>2. commands' \in 0 .. MaxCommands
    BY <1>1, MigrationAssumption DEF MigrationInv, MigrationTypeOK
  <1>3. CommandTypes'
    BY <1>1 DEF CommandTypes, At
  <1>4. /\ Siblings' \in survivors' /\ ParentRight'
        /\ survivors' \subseteq [journal: Journal \cup {Gone}, olddir: Place \cup {Gone},
                                 guardFile: {"guard", Gone}]
    BY <1>1, ParentSame DEF MigrationInv, MigrationTypeOK
  <1>5. MigrationTypeOK'
    BY <1>1, <1>2, <1>3, <1>4 DEF MigrationInv, MigrationTypeOK
  <1>6. ~hosting' /\ (There(journal) <=> There(journal)')
    BY <1>1, Resting DEF There
  <1>7. CommandRight'
    BY <1>1, <1>6 DEF CommandRight, At, Barriered, Building, There
  <1>8. ImportRight' /\ Resumable' /\ HostedSafely'
    BY <1>1, <1>6 DEF ImportRight, Resumable, HostedSafely, At
  <1> QED
    BY <1>4, <1>5, <1>7, <1>8 DEF MigrationInv

LEMMA Untouched ==
    ASSUME MigrationInv, ~There(journal)
    PROVE  /\ journal = Gone /\ survivors = {Siblings} /\ olddir \in {Legacy, Gone}
           /\ format.vis = Gone
  <1>1. journal = Gone /\ survivors = {Siblings} /\ Explained(Siblings)
    BY DEF There, MigrationInv, ParentRight
  <1>2. olddir \in {Legacy, Gone}
    BY <1>1, SiblingsAre DEF Explained
  <1>3. Unwritten(survivors)
    BY <1>1, SiblingsAre DEF Unwritten
  <1> QED
    BY <1>1, <1>2, <1>3 DEF MigrationInv, ParentRight, Store!Settled

LEMMA StartsKeep ==
    ASSUME MigrationInv, StartMigration \/ OpenFresh
    PROVE  MigrationInv'
  <1>1. Idle
    BY DEF StartMigration, OpenFresh
  <1>2. There(journal) => journal \in Journal
    BY Here
  <1>3. CASE There(journal) /\ StartMigration
    BY <1>1, <1>2, <1>3, StartedKeeps DEF StartMigration
  <1>4. CASE ~There(journal)
    <2>1. journal = Gone /\ olddir \in {Legacy, Gone} /\ format.vis = Gone
      BY <1>4, Untouched
    <2>2. olddir # Archive /\ ~There(format.vis)
      BY <2>1, Places DEF There
    <2>3. PICK b \in BOOLEAN : b <=> olddir = Legacy
      OBVIOUS
    <2>4. (olddir = Legacy) = b
      BY <2>3
    <2>5. FreshJournal(b) \in Journal
      <3>1. 0 \in 0 .. 4 /\ 0 \in 0 .. MaxMoves
        BY MigrationAssumption
      <3> QED
        BY <3>1 DEF FreshJournal, Journal
    <2>6. CASE StartMigration
      <3>1. Started("migrate", "begin", FreshJournal(olddir = Legacy))
        BY <1>4, <2>2, <2>6 DEF StartMigration
      <3> QED
        BY <1>1, <2>1, <2>4, <2>5, <3>1, StartedKeeps
    <2>7. CASE OpenFresh
      <3>1. olddir = Gone /\ Started("open", "begin", FreshJournal(FALSE))
        BY <2>7 DEF OpenFresh, There
      <3>2. (olddir = Legacy) = FALSE
        BY <3>1, Places
      <3>3. FreshJournal(FALSE) = FreshJournal(olddir = Legacy) /\ FreshJournal(FALSE) \in Journal
        BY <2>4, <2>5, <3>2
      <3> QED
        BY <1>1, <2>1, <3>1, <3>3, StartedKeeps
    <2> QED
      BY <2>6, <2>7
  <1>5. OpenFresh => ~There(journal)
    BY DEF OpenFresh
  <1> QED
    BY <1>3, <1>4, <1>5

LEMMA OpenCompleteKeeps ==
    ASSUME MigrationInv, OpenComplete
    PROVE  MigrationInv'
  <1>1. PICK o \in StepOutcomes :
         RenewPublished(o) /\ Continue(o, NoCommand) /\ hosting' = (o = "ok")
    BY DEF OpenComplete
  <1>2. /\ Idle /\ commands < MaxCommands /\ commands' = commands + 1
        /\ There(journal) /\ StoreComplete(journal) /\ UNCHANGED <<active, reported>>
    BY DEF OpenComplete
  <1>3. /\ ~Unwritten(survivors) /\ guardFile = "guard" /\ format' \in Store!File({"format"})
        /\ (o = "ok" => For(format, "format")')
        /\ Barrier(o) /\ UNCHANGED <<journal, olddir, guardFile>>
    BY <1>1, FormatRenewed
  <1>4. /\ journal \in Journal /\ olddir \in {Archive, Gone} /\ olddir \in Place \cup {Gone}
    BY <1>2, Here DEF StoreComplete
  <1>5. /\ command' = NoCommand /\ told' \in {"nothing", "failed"}
        /\ storeFaults' = IF o = "ok" THEN storeFaults ELSE storeFaults + 1
    BY <1>1 DEF Continue
  <1>6. /\ storeFaults' \in 0 .. MaxStoreFaults /\ commands' \in 0 .. MaxCommands
    BY <1>2, <1>5, MigrationAssumption DEF MigrationInv, MigrationTypeOK, StepOutcomes
  <1>7. Siblings' = Siblings /\ Explained(Siblings) /\ Explained(Siblings)'
    BY <1>3 DEF Siblings, Explained, MigrationInv, MigrationTypeOK, ParentRight
  <1>8. /\ Siblings' \in survivors'
        /\ survivors' \subseteq [journal: Journal \cup {Gone}, olddir: Place \cup {Gone},
                                 guardFile: {"guard", Gone}]
        /\ \A s \in survivors' : Explained(s)
        /\ journal' = Gone => survivors' = {Siblings'}
        /\ Unwritten(survivors') => Unwritten(survivors)
    BY <1>3, <1>4, <1>7, ParentKept DEF MigrationInv
  <1>9. MigrationTypeOK'
    <2>1. CommandTypes'
      BY <1>5 DEF CommandTypes, NoCommand, At
    <2>2. hosting' \in BOOLEAN
      BY <1>1
    <2> QED
      BY <1>2, <1>3, <1>5, <1>6, <1>8, <2>1, <2>2 DEF MigrationInv, MigrationTypeOK
  <1>10. ParentRight'
    BY <1>3, <1>8 DEF ParentRight
  <1>11. ImportRight' /\ Resumable' /\ CommandRight'
    BY <1>5, CommandEnded DEF ImportRight, Resumable, NoCommand, At
  <1>12. HostedSafely'
    <2>1. CASE o = "ok"
      BY <1>3, <1>4, <2>1, HostedNow DEF Barrier
    <2>2. CASE o # "ok"
      BY <1>1, <2>2 DEF HostedSafely
    <2> QED
      BY <2>1, <2>2
  <1> QED
    BY <1>9, <1>10, <1>11, <1>12 DEF MigrationInv

(* A set of approved images that are of as many messages has one of each.   *)
LEMMA NoRepeats ==
    ASSUME NEW S \in SUBSET OldImage, ~Repeats(S)
    PROVE  OneEach(S)
  <1> DEFINE T == {TidOf[w] : w \in S}
             f == [w \in S |-> TidOf[w]]
  <1>1. IsFiniteSet(S)
    BY MigrationAssumption, FS_Subset
  <1>2. f \in Surjection(S, T)
    BY DEF Surjection
  <1>3. /\ IsFiniteSet(T) /\ Cardinality(T) <= Cardinality(S)
        /\ Cardinality(T) = Cardinality(S) <=> f \in Injection(S, T)
    BY <1>1, <1>2, FS_Surjection
  <1>4. Cardinality(T) \in Nat /\ Cardinality(S) \in Nat /\ ~(Cardinality(T) < Cardinality(S))
    BY <1>1, <1>3, FS_CardinalityType DEF Repeats
  <1>5. f \in Injection(S, T)
    BY <1>3, <1>4
  <1>6. ASSUME NEW v \in S, NEW w \in S, TidOf[v] = TidOf[w]
        PROVE  v = w
    <2>1. f[v] = f[w]
      BY <1>6
    <2> QED
      BY <1>5, <2>1 DEF Injection, IsInjective
  <1> QED
    BY <1>6 DEF OneEach

LEMMA StartImportKeeps ==
    ASSUME MigrationInv, NEW approved \in Manifests, StartImport(approved)
    PROVE  MigrationInv'
  <1> DEFINE next == [kind |-> "import", at |-> "importing", j |-> Missing(approved)]
  <1>1. PICK o \in StepOutcomes : RenewPublished(o) /\ Continue(o, next)
    BY DEF StartImport
  <1>2. /\ Idle /\ commands < MaxCommands /\ commands' = commands + 1 /\ reported' = approved
        /\ ~Repeats(approved) /\ ~Replaces(approved) /\ UNCHANGED <<active, hosting>>
        /\ approved \in SUBSET OldImage
    BY MigrationAssumption DEF StartImport
  <1>3. /\ ~Unwritten(survivors) /\ format' \in Store!File({"format"})
        /\ Barrier(o) /\ UNCHANGED <<journal, olddir, guardFile>> /\ There(journal)
    BY <1>1, FormatRenewed
  <1>4. /\ command' \in {NoCommand, next} /\ told' \in {"nothing", "failed"}
        /\ storeFaults' = IF o = "ok" THEN storeFaults ELSE storeFaults + 1
    BY <1>1 DEF Continue
  <1>5. /\ storeFaults' \in 0 .. MaxStoreFaults /\ commands' \in 0 .. MaxCommands
    BY <1>2, <1>4, MigrationAssumption DEF MigrationInv, MigrationTypeOK, StepOutcomes
  <1>6. /\ Explained(Siblings)' /\ journal \in Journal /\ olddir \in Place \cup {Gone}
        /\ guardFile \in {"guard", Gone}
    <2>1. Siblings' = Siblings /\ Explained(Siblings)
      BY <1>3 DEF Siblings, MigrationInv, MigrationTypeOK, ParentRight
    <2> QED
      BY <1>3, <2>1, Here, SiblingsAre DEF Explained, MigrationInv, MigrationTypeOK, Siblings
  <1>7. /\ Siblings' \in survivors'
        /\ survivors' \subseteq [journal: Journal \cup {Gone}, olddir: Place \cup {Gone},
                                 guardFile: {"guard", Gone}]
        /\ \A s \in survivors' : Explained(s)
        /\ journal' = Gone => survivors' = {Siblings'}
        /\ Unwritten(survivors') => Unwritten(survivors)
    BY <1>3, <1>6, ParentKept DEF MigrationInv
  <1>8. MigrationTypeOK'
    <2>1. CommandTypes'
      BY <1>2, <1>4 DEF CommandTypes, NoCommand, At, Missing
    <2> QED
      BY <1>2, <1>3, <1>4, <1>5, <1>7, <2>1 DEF MigrationInv, MigrationTypeOK
  <1>9. ParentRight' /\ Resumable'
    BY <1>3, <1>4, <1>7 DEF ParentRight, Resumable
  <1>10. ~hosting'
    BY <1>2, Resting
  <1>11. CommandRight' /\ HostedSafely'
    BY <1>4, <1>10 DEF CommandRight, HostedSafely, NoCommand, At, Barriered, Building
  <1>12. ImportRight'
    <2>1. OneEach(approved)' /\ Missing(approved) \subseteq approved
      BY <1>2, NoRepeats DEF OneEach, Missing
    <2>2. \A w \in approved \ Missing(approved) : active'[TidOf[w]].vis = w
      BY <1>2 DEF Missing, Replaces, There
    <2>3. told' # "imported"
      BY <1>4
    <2>4. At("importing")' => command'.j = Missing(approved)
      BY <1>4 DEF At, NoCommand
    <2> QED
      BY <1>2, <2>1, <2>2, <2>3, <2>4 DEF ImportRight, OneEach, Relaying
  <1> QED
    BY <1>8, <1>9, <1>11, <1>12 DEF MigrationInv

LEMMA ImportOneKeeps ==
    ASSUME MigrationInv, NEW w \in OldImage, ImportOne(w)
    PROVE  MigrationInv'
  <1> DEFINE left == command.j \ {w}
             t == TidOf[w]
  <1>1. PICK o \in StepOutcomes :
         /\ active' = [active EXCEPT ![t] = Store!Written(@, w, o)]
         /\ Continue(o, GoesWith("importing", left))
    BY DEF ImportOne
  <1>2. /\ At("importing") /\ w \in command.j
        /\ UNCHANGED <<parent, format, hosting, reported, commands>>
        /\ command.kind = "import" /\ command.j \subseteq OldImage /\ t \in Relayed
        /\ active \in [Relayed -> Store!File(OldImage)]
    BY Contents DEF ImportOne, MigrationInv, MigrationTypeOK, CommandTypes, At, NoCommand
  <1>3. active' \in [Relayed -> Store!File(OldImage)]
    <2>1. Store!Written(active[t], w, o) \in Store!File(OldImage)
      BY <1>2, FileWritten
    <2> QED
      BY <1>1, <1>2, <2>1
  <1>4. /\ command' \in {NoCommand, GoesWith("importing", left)} /\ told' \in {"nothing", "failed"}
        /\ o # "ok" => command' = NoCommand
        /\ storeFaults' = IF o = "ok" THEN storeFaults ELSE storeFaults + 1
    BY <1>1 DEF Continue
  <1>5. storeFaults' \in 0 .. MaxStoreFaults
    BY <1>4, MigrationAssumption DEF MigrationInv, MigrationTypeOK, StepOutcomes
  <1>6. /\ Siblings' \in survivors' /\ ParentRight'
        /\ survivors' \subseteq [journal: Journal \cup {Gone}, olddir: Place \cup {Gone},
                                 guardFile: {"guard", Gone}]
    BY <1>2, ParentSame DEF MigrationInv, MigrationTypeOK
  <1>7. CommandTypes'
    BY <1>2, <1>4 DEF CommandTypes, NoCommand, At, GoesWith
  <1>8. MigrationTypeOK'
    BY <1>2, <1>3, <1>4, <1>5, <1>6, <1>7 DEF MigrationInv, MigrationTypeOK
  <1>9. ~hosting /\ ~hosting'
    BY <1>2 DEF MigrationInv, CommandRight, NoCommand, At
  <1>10. CommandRight' /\ HostedSafely' /\ Resumable'
    BY <1>4, <1>9 DEF CommandRight, HostedSafely, Resumable, NoCommand, At, Barriered, Building, GoesWith
  <1>11. ImportRight'
    <2>1. /\ command.j \subseteq reported /\ OneEach(reported) /\ Relaying(reported \ command.j)
          /\ reported' = reported /\ reported \subseteq OldImage
      BY <1>2 DEF MigrationInv, MigrationTypeOK, ImportRight
    <2>2. ASSUME o = "ok", NEW v \in reported \ left
          PROVE  active'[TidOf[v]].vis = v
      <3>1. CASE v = w
        BY <1>1, <1>2, <2>2, <3>1 DEF Store!Written, Store!Settled
      <3>2. CASE v # w
        <4>1. TidOf[v] # t /\ TidOf[v] \in Relayed
          BY <1>2, <2>1, <2>2, <3>2, Contents DEF OneEach
        <4>2. active[TidOf[v]].vis = v
          BY <2>1, <2>2, <3>2 DEF Relaying
        <4> QED
          BY <1>1, <1>2, <4>1, <4>2
      <3> QED
        BY <3>1, <3>2
    <2>3. o = "ok" => \A v \in reported \ left : active'[TidOf[v]].vis = v
      BY <2>2
    <2>4. told' # "imported"
      BY <1>4
    <2>5. At("importing")' => o = "ok" /\ command'.j = left
      BY <1>4 DEF At, NoCommand, GoesWith
    <2> QED
      BY <2>1, <2>3, <2>4, <2>5 DEF ImportRight, OneEach, Relaying
  <1> QED
    BY <1>6, <1>8, <1>10, <1>11 DEF MigrationInv

LEMMA ImportEndsKeeps ==
    ASSUME MigrationInv, ImportEnds
    PROVE  MigrationInv'
  <1>1. /\ At("importing") /\ command.j = {} /\ command' = NoCommand /\ told' = "imported"
        /\ UNCHANGED <<parent, format, active, hosting, reported, commands, storeFaults>>
    BY DEF ImportEnds, CommandEnds, migrationFiles
  <1>2. /\ Siblings' \in survivors' /\ ParentRight'
        /\ survivors' \subseteq [journal: Journal \cup {Gone}, olddir: Place \cup {Gone},
                                 guardFile: {"guard", Gone}]
    BY <1>1, ParentSame DEF MigrationInv, MigrationTypeOK
  <1>3. CommandTypes'
    BY <1>1 DEF CommandTypes, NoCommand, At
  <1>4. MigrationTypeOK'
    BY <1>1, <1>2, <1>3 DEF MigrationInv, MigrationTypeOK
  <1>5. ~hosting'
    BY <1>1 DEF MigrationInv, CommandRight, NoCommand, At
  <1>6. CommandRight' /\ HostedSafely' /\ Resumable'
    BY <1>1, <1>5, CommandEnded DEF HostedSafely, Resumable
  <1>7. ImportRight'
    BY <1>1, <1>5 DEF MigrationInv, ImportRight, Relaying, At, NoCommand
  <1> QED
    BY <1>2, <1>4, <1>6, <1>7 DEF MigrationInv

(* The host changes nothing but the messages of the new store.              *)
LEMMA HostKeeps ==
    ASSUME MigrationInv, hosting, hosting' \in BOOLEAN, active' \in [Relayed -> Store!File(OldImage)],
           UNCHANGED <<parent, format, command, told, reported, commands, storeFaults>>
    PROVE  MigrationInv'
  <1>1. UNCHANGED <<journal, olddir, guardFile, survivors>> /\ command = NoCommand
    BY DEF parent, MigrationInv, CommandRight
  <1>2. /\ Siblings' \in survivors' /\ ParentRight'
        /\ survivors' \subseteq [journal: Journal \cup {Gone}, olddir: Place \cup {Gone},
                                 guardFile: {"guard", Gone}]
    BY ParentSame DEF MigrationInv, MigrationTypeOK
  <1>3. CommandTypes'
    BY <1>1 DEF CommandTypes, NoCommand, At
  <1>4. MigrationTypeOK'
    BY <1>2, <1>3 DEF MigrationInv, MigrationTypeOK
  <1>5. HostedSafely'
    <2>1. HostedSafely /\ UNCHANGED <<format, survivors>>
      BY <1>1 DEF MigrationInv
    <2> QED
      BY <2>1 DEF HostedSafely, For
  <1>6. CommandRight' /\ Resumable'
    BY <1>1, CommandEnded DEF Resumable, MigrationInv
  <1>7. ImportRight'
    BY <1>1 DEF MigrationInv, ImportRight, At, NoCommand
  <1> QED
    BY <1>2, <1>4, <1>5, <1>6, <1>7 DEF MigrationInv

LEMMA HostStepsKeep ==
    ASSUME MigrationInv,
           (\E w \in OldImage : HostStores(w)) \/ (\E t \in Relayed : HostRetires(t)) \/ HostStops
    PROVE  MigrationInv'
  <1>1. active \in [Relayed -> Store!File(OldImage)] /\ hosting \in BOOLEAN
    BY DEF MigrationInv, MigrationTypeOK
  <1>2. \A v \in OldImage \cup {Gone} : Store!Settled(v) \in Store!File(OldImage)
    BY DEF Store!Settled, Store!File
  <1>3. CASE \E w \in OldImage : HostStores(w)
    <2>1. PICK w \in OldImage : HostStores(w)
      BY <1>3
    <2>2. active' \in [Relayed -> Store!File(OldImage)]
      BY <1>1, <1>2, <2>1 DEF HostStores
    <2> QED
      BY <1>1, <2>1, <2>2, HostKeeps DEF HostStores
  <1>4. CASE \E t \in Relayed : HostRetires(t)
    <2>1. PICK t \in Relayed : HostRetires(t)
      BY <1>4
    <2>2. active' \in [Relayed -> Store!File(OldImage)]
      BY <1>1, <1>2, <2>1 DEF HostRetires
    <2> QED
      BY <1>1, <2>1, <2>2, HostKeeps DEF HostRetires
  <1>5. CASE HostStops
    BY <1>1, <1>5, HostKeeps DEF HostStops, migrationFiles
  <1> QED
    BY <1>3, <1>4, <1>5

LEMMA LeftTypes ==
    ASSUME NEW Values, NEW file \in Store!File(Values), NEW l \in Left(file)
    PROVE  /\ l \in Store!File(Values)
           /\ file = Store!Settled(Gone) => l = Store!Settled(Gone)
  BY DEF Left, Store!File, Store!Settled

LEMMA LosePowerKeeps ==
    ASSUME MigrationInv, LosePower
    PROVE  MigrationInv'
  <1>1. PICK s \in survivors :
         journal' = s.journal /\ olddir' = s.olddir /\ guardFile' = s.guardFile /\ survivors' = {s}
    BY DEF LosePower
  <1>2. /\ storeFaults < MaxStoreFaults /\ storeFaults' = storeFaults + 1
        /\ format' \in Left(format) /\ UNCHANGED <<reported, commands>>
        /\ active' \in [Relayed -> UNION {Left(active[t]) : t \in Relayed}]
        /\ \A t \in Relayed : active'[t] \in Left(active[t])
        /\ hosting' = FALSE /\ command' = NoCommand /\ told' = "failed"
    BY DEF LosePower, CommandEnds
  <1>3. s \in [journal: Journal \cup {Gone}, olddir: Place \cup {Gone}, guardFile: {"guard", Gone}]
    BY DEF MigrationInv, MigrationTypeOK
  <1>4. Siblings' = s
    BY <1>1, <1>3 DEF Siblings
  <1>5. format' \in Store!File({"format"}) /\ (format = Store!Settled(Gone) => format' = Store!Settled(Gone))
    BY <1>2, LeftTypes DEF MigrationInv, MigrationTypeOK
  <1>6. active' \in [Relayed -> Store!File(OldImage)]
    <2>1. \A t \in Relayed : active[t] \in Store!File(OldImage)
      BY DEF MigrationInv, MigrationTypeOK
    <2>2. \A t \in Relayed : active'[t] \in Store!File(OldImage)
      BY <1>2, <2>1, LeftTypes
    <2> QED
      BY <1>2, <2>2
  <1>7. storeFaults' \in 0 .. MaxStoreFaults
    BY <1>2, MigrationAssumption DEF MigrationInv, MigrationTypeOK
  <1>8. MigrationTypeOK'
    <2>1. CommandTypes'
      BY <1>2 DEF CommandTypes, NoCommand, At
    <2>2. Siblings' \in survivors'
      BY <1>1, <1>4
    <2>3. survivors' \subseteq [journal: Journal \cup {Gone}, olddir: Place \cup {Gone},
                                guardFile: {"guard", Gone}]
      BY <1>1, <1>3
    <2> QED
      BY <1>2, <1>5, <1>6, <1>7, <2>1, <2>2, <2>3 DEF MigrationInv, MigrationTypeOK
  <1>9. ParentRight'
    <2>1. \A r \in survivors' : Explained(r)'
      <3>1. Explained(s)
        BY DEF MigrationInv, ParentRight
      <3> QED
        BY <1>1, <3>1 DEF Explained
    <2>2. journal' = Gone => survivors' = {Siblings'}
      BY <1>1, <1>4
    <2>3. Unwritten(survivors)' => format' = Store!Settled(Gone)
      BY <1>1, <1>5 DEF Unwritten, MigrationInv, ParentRight
    <2> QED
      BY <2>1, <2>2, <2>3 DEF ParentRight
  <1>10. CommandRight' /\ HostedSafely' /\ Resumable' /\ ImportRight'
    BY <1>2, CommandEnded DEF HostedSafely, Resumable, ImportRight, At, NoCommand
  <1> QED
    BY <1>8, <1>9, <1>10 DEF MigrationInv

-----------------------------------------------------------------------------
(* The theorems.                                                            *)

LEMMA MigrationInitHolds == MigrationInit => MigrationInv
  <1> SUFFICES ASSUME MigrationInit PROVE MigrationInv
    OBVIOUS
  <1>1. /\ Siblings = [journal |-> Gone, olddir |-> olddir, guardFile |-> Gone]
        /\ olddir \in {Legacy, Gone} /\ survivors = {Siblings} /\ journal = Gone
    BY DEF MigrationInit, Siblings
  <1>2. /\ Store!Settled(Gone) \in Store!File({"format"})
        /\ Store!Settled(Gone) \in Store!File(OldImage)
    BY DEF Store!Settled, Store!File
  <1>3. CommandTypes /\ 0 \in 0 .. MaxCommands /\ 0 \in 0 .. MaxStoreFaults
    BY MigrationAssumption DEF MigrationInit, CommandTypes, NoCommand, At
  <1>4. MigrationTypeOK
    <2>1. /\ Siblings \in survivors
          /\ survivors \subseteq [journal: Journal \cup {Gone}, olddir: Place \cup {Gone},
                                 guardFile: {"guard", Gone}]
      BY <1>1, Places
    <2>2. active \in [Relayed -> Store!File(OldImage)] /\ format \in Store!File({"format"})
      BY <1>2 DEF MigrationInit
    <2> QED
      BY <1>3, <2>1, <2>2 DEF MigrationInit, MigrationTypeOK
  <1>5. ParentRight
    BY <1>1 DEF MigrationInit, ParentRight, Explained
  <1>6. CommandRight /\ ImportRight
    BY DEF MigrationInit, CommandRight, ImportRight, NoCommand, At, Barriered, Building
  <1>7. HostedSafely /\ Resumable
    BY DEF MigrationInit, HostedSafely, Resumable
  <1> QED
    BY <1>4, <1>5, <1>6, <1>7 DEF MigrationInv

LEMMA MigrationSame ==
    ASSUME MigrationInv, UNCHANGED migrationVars
    PROVE  MigrationInv'
  <1>1. /\ UNCHANGED <<journal, olddir, guardFile, survivors, format, active, command, hosting>>
        /\ UNCHANGED <<told, reported, commands, storeFaults>> /\ UNCHANGED parent
    BY DEF migrationVars, migrationFiles, parent
  <1>2. /\ Siblings' \in survivors' /\ ParentRight'
        /\ survivors' \subseteq [journal: Journal \cup {Gone}, olddir: Place \cup {Gone},
                                 guardFile: {"guard", Gone}]
    BY <1>1, ParentSame DEF MigrationInv, MigrationTypeOK
  <1>3. CommandTypes'
    BY <1>1 DEF MigrationInv, MigrationTypeOK, CommandTypes, At, NoCommand
  <1>4. MigrationTypeOK'
    BY <1>1, <1>2, <1>3 DEF MigrationInv, MigrationTypeOK
  <1>5. CommandRight'
    <2>1. Siblings' = Siblings /\ CommandRight
      BY <1>1 DEF Siblings, MigrationInv
    <2> QED
      BY <1>1, <2>1 DEF CommandRight, At, There, For
  <1>6. ImportRight' /\ Resumable' /\ HostedSafely'
    BY <1>1 DEF MigrationInv, ImportRight, Relaying, Resumable, HostedSafely, For, At
  <1> QED
    BY <1>2, <1>4, <1>5, <1>6 DEF MigrationInv

LEMMA MigrationStep == MigrationInv /\ [MigrationNext]_migrationVars => MigrationInv'
  <1> SUFFICES ASSUME MigrationInv, [MigrationNext]_migrationVars PROVE MigrationInv'
    OBVIOUS
  <1>1. CASE StartMigration \/ OpenComplete \/ OpenFresh \/ Begin
    BY <1>1, StartsKeep, OpenCompleteKeeps, BeginKeeps
  <1>2. CASE FirstArchive \/ RenewArchive \/ NothingToArchive
    BY <1>2, RunKeeps
  <1>3. CASE SaveMove \/ SaveRenewal \/ SaveReturn \/ SaveSettled \/ Move \/ MoveOut \/ MoveBack
    BY <1>3, SavesKeep, MovesKeep
  <1>4. CASE Archived \/ Guarded \/ Created
    <2>1. /\ "archived" \in Building /\ "guarded" \in Building /\ "created" \in Building
          /\ 1 \in 0 .. 4 /\ 2 \in 0 .. 4 /\ 3 \in 0 .. 4
      BY DEF Building
    <2> QED
      BY <1>4, <2>1, ReachKeeps DEF Archived, Guarded, Created
  <1>5. CASE WriteGuard \/ SaveWitness \/ Create \/ Verify \/ Publish
    BY <1>5, WritesKeep, SaveWitnessKeeps, PublishKeeps
  <1>6. CASE \/ \E approved \in Manifests : StartImport(approved)
             \/ \E w \in OldImage : ImportOne(w)
             \/ ImportEnds
    BY <1>6, StartImportKeeps, ImportOneKeeps, ImportEndsKeeps
  <1>7. CASE (\E w \in OldImage : HostStores(w)) \/ (\E t \in Relayed : HostRetires(t)) \/ HostStops
    BY <1>7, HostStepsKeep
  <1>8. CASE LosePower
    BY <1>8, LosePowerKeeps
  <1>9. CASE UNCHANGED migrationVars
    BY <1>9, MigrationSame
  <1> QED
    BY <1>1, <1>2, <1>3, <1>4, <1>5, <1>6, <1>7, <1>8, <1>9 DEF MigrationNext

(* The journal, the old directory, the new store and the command that runs  *)
(* are of their types.                                                      *)
THEOREM MigrationTypes == MigrationSpec => []MigrationTypeOK
  <1>1. MigrationInv => MigrationTypeOK
    BY DEF MigrationInv
  <1> QED
    BY MigrationInitHolds, MigrationStep, <1>1, PTL DEF MigrationSpec

(* Whatever write or rename failed or was undone, the journal says where    *)
(* the old directory is, and the same command goes on (run in migration.rs).*)
THEOREM MigrationResumes == MigrationSpec => []Resumable
  <1>1. MigrationInv => Resumable
    BY DEF MigrationInv
  <1> QED
    BY MigrationInitHolds, MigrationStep, <1>1, PTL DEF MigrationSpec

(* A daemon has a store open only when the guard, the new store and the     *)
(* archive are where no power loss moves them (open_store, offline.rs).     *)
THEOREM StoresHostedSafely == MigrationSpec => []HostedSafely
  <1>1. MigrationInv => HostedSafely
    BY DEF MigrationInv
  <1> QED
    BY MigrationInitHolds, MigrationStep, <1>1, PTL DEF MigrationSpec

(* An import that is reported relays each approved image, however many      *)
(* attempts before it failed half-way (import_trusted_recovery_manifest).   *)
THEOREM ImportsAccounted == MigrationSpec => []ImportAccounted
  <1>1. MigrationInv => ImportAccounted
    BY DEF MigrationInv, ImportRight, ImportAccounted, Relaying
  <1> QED
    BY MigrationInitHolds, MigrationStep, <1>1, PTL DEF MigrationSpec
===============================================================================
