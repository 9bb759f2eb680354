---------------------------- MODULE Outbound_proofs ----------------------------
(***************************************************************************)
(* Machine-checked proofs about outbound messages.  RouterOutbound: a      *)
(* message has one owner until it is over, stamps are searched in the      *)
(* order of deferral, and a deposit that is repeated has one ciphertext.   *)
(* Backchannel: attempts keep the promise of Settlement, no send is left   *)
(* to itself, and a proof that came early meets its receipt.               *)
(***************************************************************************)
EXTENDS RouterOutbound, Backchannel, SequenceTheorems, FiniteSetTheorems, WellFoundedInduction, TLAPS

-----------------------------------------------------------------------------
(* Sequences.                                                               *)

LEMMA MinIs ==
    ASSUME NEW S \in SUBSET Nat, S # {}
    PROVE  Min(S) \in S /\ \A i \in S : Min(S) <= i
  <1> DEFINE less == OpToRel(<, Nat)
  <1>1. IsWellFoundedOn(less, Nat)
    BY NatLessThanWellFounded
  <1>2. \A m, n \in Nat : m < n => <<m, n>> \in less
    BY DEF OpToRel
  <1> HIDE DEF less
  <1>3. PICK n \in S : \A m \in S : ~ (<<m, n>> \in less)
    BY <1>1, WFMin
  <1>4. ASSUME NEW m \in S PROVE n <= m
    <2>1. m \in Nat /\ n \in Nat /\ ~ (m < n)
      BY <1>2, <1>3
    <2> QED
      BY <2>1
  <1>5. n \in Nat /\ S \subseteq Nat
    OBVIOUS
  <1> QED
    BY <1>4, <1>5 DEF Min

Has(p, m) == \E i \in DOMAIN p : p[i].msg = m
Once(p, m) == \A i, j \in DOMAIN p : p[i].msg = m /\ p[j].msg = m => i = j

LEMMA Removed ==
    ASSUME NEW S, NEW s \in Seq(S), NEW i \in DOMAIN s, NEW q, q = RemoveAt(s, i)
    PROVE  /\ q \in Seq(S) /\ Len(q) = Len(s) - 1 /\ DOMAIN q = 1 .. Len(s) - 1
           /\ \A j \in DOMAIN q : q[j] = IF j < i THEN s[j] ELSE s[j + 1]
  <1>1. Len(s) \in Nat /\ DOMAIN s = 1 .. Len(s) /\ i \in 1 .. Len(s)
    OBVIOUS
  <1>2. SubSeq(s, 1, i - 1) \in Seq(S) /\ SubSeq(s, i + 1, Len(s)) \in Seq(S)
    BY <1>1
  <1>3. /\ Len(SubSeq(s, 1, i - 1)) = i - 1 /\ Len(SubSeq(s, i + 1, Len(s))) = Len(s) - i
        /\ \A j \in 1 .. i - 1 : SubSeq(s, 1, i - 1)[j] = s[j]
        /\ \A j \in 1 .. Len(s) - i : SubSeq(s, i + 1, Len(s))[j] = s[i + j]
    BY SMTT(30), <1>1
  <1> DEFINE a == SubSeq(s, 1, i - 1)
             b == SubSeq(s, i + 1, Len(s))
  <1>4. q = a \o b
    BY DEF RemoveAt
  <1> HIDE DEF a, b
  <1>5. a \in Seq(S) /\ b \in Seq(S) /\ Len(a) = i - 1 /\ Len(b) = Len(s) - i
    BY <1>2, <1>3 DEF a, b
  <1>6. /\ q \in Seq(S) /\ Len(q) = (i - 1) + (Len(s) - i)
        /\ \A j \in 1 .. (i - 1) + (Len(s) - i) : q[j] = IF j <= i - 1 THEN a[j] ELSE b[j - (i - 1)]
    <2>1. /\ a \o b \in Seq(S) /\ Len(a \o b) = Len(a) + Len(b)
          /\ \A j \in 1 .. Len(a) + Len(b) : (a \o b)[j] = IF j <= Len(a) THEN a[j] ELSE b[j - Len(a)]
      BY <1>5, ConcatProperties
    <2> QED
      BY <1>4, <1>5, <2>1
  <1>7. Len(q) = Len(s) - 1 /\ DOMAIN q = 1 .. Len(s) - 1
    BY <1>1, <1>6
  <1>8. ASSUME NEW j \in DOMAIN q PROVE q[j] = IF j < i THEN s[j] ELSE s[j + 1]
    <2>1. j \in 1 .. Len(s) - 1 /\ q[j] = IF j <= i - 1 THEN a[j] ELSE b[j - (i - 1)]
      BY <1>1, <1>6, <1>7
    <2>2. CASE j < i
      <3>1. j \in 1 .. i - 1 /\ a[j] = s[j]
        BY SMTT(30), <2>1, <2>2, <1>1, <1>3 DEF a
      <3> QED
        BY <3>1, <2>1, <2>2, <1>1
    <2>3. CASE j >= i
      <3>1. j - (i - 1) \in 1 .. Len(s) - i /\ i + (j - (i - 1)) = j + 1
        BY <2>1, <2>3, <1>1
      <3>2. b[j - (i - 1)] = s[i + (j - (i - 1))]
        BY <3>1, <1>3 DEF b
      <3> QED
        BY <3>1, <3>2, <2>1, <2>3, <1>1
    <2> QED
      BY <2>1, <2>2, <2>3, <1>1
  <1> QED
    BY <1>6, <1>7, <1>8

LEMMA EntryFields ==
    /\ \A m \in Messages, a \in Attempts : New(m, a) \in Entry /\ New(m, a).msg = m /\ New(m, a).att = a
    /\ \A e \in Entry : e.msg \in Messages /\ e.att \in Attempts /\ e = New(e.msg, e.att)
  BY DEF Entry, New

AppendOf(p, m, a, q) == q = Append(p, New(m, a))

LEMMA AppendedEntry ==
    ASSUME NEW p \in Seq(Entry), NEW m \in Messages, NEW a \in Attempts,
           NEW q, AppendOf(p, m, a, q)
    PROVE  /\ q \in Seq(Entry) /\ Len(q) = Len(p) + 1
           /\ \A x : Has(q, x) <=> Has(p, x) \/ x = m
           /\ \A x : Once(p, x) /\ (x # m \/ ~Has(p, x)) => Once(q, x)
  <1>1. /\ q \in Seq(Entry) /\ Len(q) = Len(p) + 1 /\ DOMAIN q = 1 .. Len(p) + 1
        /\ DOMAIN p = 1 .. Len(p) /\ Len(p) \in Nat
        /\ \A i \in 1 .. Len(p) : q[i] = p[i]
        /\ q[Len(p) + 1].msg = m
    BY EntryFields DEF AppendOf
  <1>2. \A i \in DOMAIN q : i \in DOMAIN p \/ i = Len(p) + 1
    BY <1>1
  <1>3. \A x : Has(q, x) <=> Has(p, x) \/ x = m
    BY <1>1, <1>2 DEF Has
  <1>4. \A x : Once(p, x) /\ (x # m \/ ~Has(p, x)) => Once(q, x)
    BY <1>1, <1>2 DEF Has, Once
  <1> QED
    BY <1>1, <1>3, <1>4

LEMMA RemovedEntry ==
    ASSUME NEW p \in Seq(Entry), NEW i \in DOMAIN p, NEW q, q = RemoveAt(p, i)
    PROVE  /\ q \in Seq(Entry) /\ Len(q) = Len(p) - 1
           /\ \A x : x # p[i].msg => (Has(q, x) <=> Has(p, x))
           /\ \A x : Once(p, x) => Once(q, x)
           /\ Once(p, p[i].msg) => ~Has(q, p[i].msg)
  <1>1. /\ q \in Seq(Entry) /\ Len(q) = Len(p) - 1 /\ DOMAIN q = 1 .. Len(p) - 1
        /\ \A j \in DOMAIN q : q[j] = IF j < i THEN p[j] ELSE p[j + 1]
    BY Removed
  <1>2. Len(p) \in Nat /\ DOMAIN p = 1 .. Len(p) /\ i \in 1 .. Len(p)
    OBVIOUS
  <1> DEFINE from == [j \in DOMAIN q |-> IF j < i THEN j ELSE j + 1]
  <1>3. \A j \in DOMAIN q : from[j] \in DOMAIN p /\ from[j] # i /\ q[j] = p[from[j]]
    BY <1>1, <1>2
  <1>4. \A j, k \in DOMAIN q : from[j] = from[k] => j = k
    BY <1>1, <1>2
  <1>5. \A k \in DOMAIN p : k # i => \E j \in DOMAIN q : from[j] = k
    <2>1. ASSUME NEW k \in DOMAIN p, k # i PROVE \E j \in DOMAIN q : from[j] = k
      <3>1. CASE k < i
        <4>1. k \in DOMAIN q /\ from[k] = k
          BY <3>1, <1>1, <1>2
        <4> QED
          BY <4>1
      <3>2. CASE k > i
        <4>1. k - 1 \in DOMAIN q /\ from[k - 1] = k
          BY <3>2, <1>1, <1>2
        <4> QED
          BY <4>1
      <3> QED
        BY <3>1, <3>2, <2>1, <1>2
    <2> QED
      BY <2>1
  <1> HIDE DEF from
  <1>6. \A x : x # p[i].msg => (Has(q, x) <=> Has(p, x))
    BY <1>3, <1>5 DEF Has
  <1>7. \A x : Once(p, x) => Once(q, x)
    BY <1>3, <1>4 DEF Once
  <1>8. Once(p, p[i].msg) => ~Has(q, p[i].msg)
    BY <1>3 DEF Once, Has
  <1> QED
    BY <1>1, <1>6, <1>7, <1>8

StayOf(p, i, a, q) == q = [p EXCEPT ![i].att = a]
RequeueOf(p, i, a, q) == q = Append(RemoveAt(p, i), New(p[i].msg, a))

LEMMA StayedEntry ==
    ASSUME NEW p \in Seq(Entry), NEW i \in DOMAIN p, NEW a \in Attempts,
           NEW q, StayOf(p, i, a, q)
    PROVE  /\ q \in Seq(Entry) /\ Len(q) = Len(p)
           /\ \A x : Has(q, x) <=> Has(p, x)
           /\ \A x : Once(p, x) => Once(q, x)
  <1>1. PICK e \in Entry : e = p[i]
    OBVIOUS
  <1>9. [e EXCEPT !.att = a] = New(e.msg, a) /\ New(e.msg, a) \in Entry
    BY DEF Entry, New
  <1>2. q = [p EXCEPT ![i] = New(e.msg, a)]
    BY <1>1, <1>9 DEF StayOf
  <1>3. q \in Seq(Entry) /\ Len(q) = Len(p) /\ DOMAIN q = DOMAIN p
    BY <1>9, <1>2
  <1>4. \A j \in DOMAIN p : q[j].msg = p[j].msg
    <2>1. New(e.msg, a).msg = e.msg
      BY DEF New
    <2> QED
      BY <1>1, <1>2, <2>1
  <1> QED
    BY <1>3, <1>4 DEF Has, Once

LEMMA RequeuedEntry ==
    ASSUME NEW p \in Seq(Entry), NEW i \in DOMAIN p, NEW a \in Attempts,
           NEW q, RequeueOf(p, i, a, q)
    PROVE  /\ q \in Seq(Entry) /\ Len(q) = Len(p)
           /\ \A x : Has(q, x) <=> Has(p, x)
           /\ \A x : Once(p, x) => Once(q, x)
  <1> DEFINE r == RemoveAt(p, i)
  <1>1. PICK m \in Messages : m = p[i].msg
    BY EntryFields
  <1>2. /\ r \in Seq(Entry) /\ Len(r) = Len(p) - 1 /\ Len(p) \in Nat
        /\ \A x : x # m => (Has(r, x) <=> Has(p, x))
        /\ \A x : Once(p, x) => Once(r, x)
        /\ Once(p, m) => ~Has(r, m)
    BY <1>1, RemovedEntry
  <1>3. Has(p, m)
    BY <1>1 DEF Has
  <1>4. AppendOf(r, m, a, q)
    BY <1>1 DEF RequeueOf, AppendOf
  <1> HIDE DEF r
  <1>5. /\ q \in Seq(Entry) /\ Len(q) = Len(r) + 1
        /\ \A x : Has(q, x) <=> Has(r, x) \/ x = m
        /\ \A x : Once(r, x) /\ (x # m \/ ~Has(r, x)) => Once(q, x)
    BY <1>2, <1>4, AppendedEntry
  <1>6. q \in Seq(Entry) /\ Len(q) = Len(p)
    BY <1>2, <1>5
  <1>7. \A x : Has(q, x) <=> Has(p, x)
    BY <1>2, <1>3, <1>5
  <1>8. \A x : Once(p, x) => Once(q, x)
    BY <1>2, <1>5
  <1> QED
    BY <1>6, <1>7, <1>8

-----------------------------------------------------------------------------
(* The invariant.  Of every message that did not end with a copy on a Link: *)
(* where it is, from its entries in the queue, the copies of it, whether it *)
(* waits for a stamp or a proof, is not over, and may be queued while a copy*)
(* is on a Link.                                                            *)
Copied(ls, m) == \E c \in ls : c.msg = m
Single(ls, m) == \A c, d \in ls : c.msg = m /\ d.msg = m => c = d

Owned(p, ls, waits, flies, open, direct, m) ==
    /\ Once(p, m)
    /\ waits => ~Has(p, m) /\ ~flies /\ ~Copied(ls, m)
    /\ Has(p, m) => ~flies /\ (direct \/ ~Copied(ls, m))
    /\ flies => ~Copied(ls, m)
    /\ direct /\ Copied(ls, m) => Has(p, m)
    /\ ~direct => Single(ls, m)
    /\ open <=> waits \/ Has(p, m) \/ flies \/ Copied(ls, m)

OwnedNow(m) ==
    Owned(pending, links, m \in deferred, flight[m] # None, outcome[m] = "open",
          method[m] = "Direct", m)

(* The entries that tick() has not visited yet are in the queue.            *)
Visiting ==
    /\ phase = "outbound" => at + left <= Len(pending) + 1
    /\ phase # "outbound" => at = 1

Outcomes == {"new", "open", "delivered", "proved", "failed", "expired", "cancelled", "dropped"}

LoopTypes ==
    /\ phase \in {"idle", "retry", "outbound", "links"} /\ method \in [Messages -> Method]
    /\ seen \in {"none", "active", "pending", "closed"} /\ failure \in BOOLEAN
    /\ shot \in {"daemon", "ready", "draining", "waiting", "success", "failed"}
    /\ submits \in Nat /\ sent \subseteq Messages
QueueTypes == pending \in Seq(Entry) /\ at \in 1 .. Len(pending) + 1 /\ left \in Nat
StampTypes ==
    /\ deferred \subseteq Messages /\ order \in Seq(Messages) /\ since \in [Messages -> Nat]
    /\ job \in Messages \cup {None} /\ search \in {None, "found", "dead"}
PacketTypes == flight \in [Messages -> Attempts \cup {None}] /\ proofs \subseteq Messages
LinkTypes == links \subseteq Copy
EnvelopeTypes ==
    /\ worker \in [Messages -> Worker \cup {None}] /\ envelope \in [Messages -> Envelope \cup {None}]
    /\ key \in Nat /\ cost \in Nat /\ encryptions \in [Messages -> Nat]
    /\ deposited \in [Messages -> SUBSET [key: Nat, n: Nat]] /\ requoted \subseteq Messages
EndTypes == outcome \in [Messages -> Outcomes] /\ stray \subseteq Messages

Typed == /\ LoopTypes /\ QueueTypes /\ StampTypes /\ PacketTypes /\ LinkTypes /\ EnvelopeTypes
         /\ EndTypes

LEMMA TypesSplit == TypeOK <=> Typed
  BY DEF TypeOK, Typed, LoopTypes, QueueTypes, StampTypes, PacketTypes, LinkTypes, EnvelopeTypes,
         EndTypes, Outcomes

SendInv == Typed /\ Visiting /\ \A m \in Messages : m \notin stray => OwnedNow(m)

(* A step about m leaves every other message where it is.                   *)
Others(m) ==
    \A x \in Messages : x # m =>
        /\ Once(pending, x) => Once(pending', x)
        /\ Has(pending', x) <=> Has(pending, x)
        /\ (x \in deferred') <=> (x \in deferred)
        /\ flight'[x] = flight[x]
        /\ \A c : c.msg = x => ((c \in links') <=> (c \in links))
        /\ (outcome'[x] = "open") <=> (outcome[x] = "open")
        /\ x \in stray => x \in stray'

LEMMA OthersStay ==
    ASSUME SendInv, NEW m \in Messages, Others(m), method' = method,
           NEW x \in Messages, x # m, x \notin stray'
    PROVE  OwnedNow(x)'
  <1>1. /\ x \notin stray /\ OwnedNow(x) /\ flight'[x] = flight[x]
        /\ Once(pending, x) => Once(pending', x)
        /\ Has(pending', x) <=> Has(pending, x)
        /\ (x \in deferred') <=> (x \in deferred)
        /\ (outcome'[x] = "open") <=> (outcome[x] = "open")
    BY DEF SendInv, Others
  <1>2. \A c : c.msg = x => ((c \in links') <=> (c \in links))
    BY DEF Others
  <1>3. (Copied(links', x) <=> Copied(links, x)) /\ (Single(links', x) <=> Single(links, x))
    BY <1>2 DEF Copied, Single
  <1> QED
    BY <1>1, <1>3 DEF OwnedNow, Owned

LEMMA Close ==
    ASSUME SendInv, Typed', Visiting', method' = method, NEW m \in Messages, Others(m),
           m \notin stray' => OwnedNow(m)'
    PROVE  SendInv'
  <1>1. ASSUME NEW x \in Messages, x \notin stray' PROVE OwnedNow(x)'
    BY <1>1, OthersStay
  <1> QED
    BY <1>1 DEF SendInv

(* A step that moves no message at all.                                     *)
LEMMA Unmoved ==
    ASSUME SendInv, Typed', Visiting', UNCHANGED <<method, pending, deferred, flight, links, outcome, stray>>
    PROVE  SendInv'
  BY DEF SendInv, OwnedNow, Owned

-----------------------------------------------------------------------------
(* What the steps have in common.                                           *)

LEMMA EndedIs ==
    ASSUME EndTypes, NEW m \in Messages, NEW how \in Outcomes \ {"open"}, NEW copies,
           Ended(m, how, copies)
    PROVE  /\ EndTypes' /\ outcome'[m] # "open"
           /\ \A x \in Messages : x # m => outcome'[x] = outcome[x]
           /\ \A x \in stray : x \in stray'
           /\ Copied(copies, m) => m \in stray'
  <1>1. /\ outcome' = IF outcome[m] = "open" THEN [outcome EXCEPT ![m] = how] ELSE outcome
        /\ stray' = IF Copied(copies, m) THEN stray \cup {m} ELSE stray
    BY DEF Ended, Copied
  <1> QED
    BY <1>1 DEF EndTypes

LEMMA StartsOne ==
    ASSUME LinkTypes, NEW m \in Messages, NEW a \in Attempts, NEW via \in {"Direct", "Deposit"},
           Starts(m, a, via)
    PROVE  /\ LinkTypes' /\ Copied(links', m)
           /\ \A c : c.msg # m => ((c \in links') <=> (c \in links))
           /\ ~Copied(links, m) => Single(links', m)
  <1>1. PICK id \in 1 .. MaxCopies : links' = links \cup {[msg |-> m, att |-> a, via |-> via, id |-> id]}
    BY DEF Starts
  <1> DEFINE new == [msg |-> m, att |-> a, via |-> via, id |-> id]
  <1>2. new \in Copy /\ new.msg = m
    BY DEF Copy
  <1>3. links' = links \cup {new}
    BY <1>1
  <1> HIDE DEF new
  <1> QED
    BY <1>2, <1>3 DEF LinkTypes, Copied, Single

(* The entry that tick() is at.                                             *)
LEMMA VisitedEntry ==
    ASSUME SendInv, NEW m \in Messages, NEW a, Visits(m, a)
    PROVE  /\ phase = "outbound" /\ left' = left - 1 /\ left - 1 \in Nat
           /\ at \in DOMAIN pending /\ at \in Nat /\ pending[at].msg = m /\ Has(pending, m)
           /\ a \in Attempts /\ pending \in Seq(Entry)
           /\ UNCHANGED <<phase, method, seen, stamps, proofs, shot, submits>>
           /\ LoopTypes /\ StampTypes /\ StampTypes'
  <1>1. /\ phase = "outbound" /\ left > 0 /\ left' = left - 1 /\ pending[at] = New(m, a)
        /\ UNCHANGED <<phase, method, seen, stamps, proofs, shot, submits>>
    BY DEF Visits
  <1>2. /\ pending \in Seq(Entry) /\ at \in 1 .. Len(pending) + 1 /\ left \in Nat
        /\ at + left <= Len(pending) + 1
    BY <1>1 DEF SendInv, Typed, QueueTypes, Visiting
  <1>3. at \in DOMAIN pending /\ at \in Nat /\ left - 1 \in Nat
    BY <1>1, <1>2
  <1>4. New(m, a).msg = m /\ New(m, a).att = a
    BY DEF New
  <1>5. a \in Attempts /\ Has(pending, m)
    BY <1>1, <1>2, <1>3, <1>4, EntryFields DEF Has
  <1>6. LoopTypes /\ StampTypes /\ StampTypes'
    BY <1>1 DEF SendInv, Typed, StampTypes, stamps
  <1> QED
    BY <1>1, <1>2, <1>3, <1>4, <1>5, <1>6

(* The three things tick() does with the entry.                             *)
LEMMA QueueAfterStays ==
    ASSUME SendInv, NEW m \in Messages, NEW a, Visits(m, a), NEW b \in Attempts, Stays(b)
    PROVE  /\ QueueTypes' /\ Visiting'
           /\ \A x : (Has(pending', x) <=> Has(pending, x)) /\ (Once(pending, x) => Once(pending', x))
  <1>1. /\ phase' = "outbound" /\ left' = left - 1 /\ left - 1 \in Nat
        /\ at \in DOMAIN pending /\ at \in Nat /\ pending \in Seq(Entry)
    BY VisitedEntry
  <1>2. StayOf(pending, at, b, pending') /\ at' = at + 1
    BY DEF Stays, StayOf
  <1>3. /\ pending' \in Seq(Entry) /\ Len(pending') = Len(pending)
        /\ \A x : Has(pending', x) <=> Has(pending, x)
        /\ \A x : Once(pending, x) => Once(pending', x)
    BY <1>1, <1>2, StayedEntry
  <1>4. at + left <= Len(pending) + 1 /\ left \in Nat
    BY VisitedEntry DEF SendInv, Typed, QueueTypes, Visiting
  <1>5. at + 1 \in 1 .. Len(pending) + 1 /\ Len(pending) \in Nat
    BY <1>1
  <1>6. QueueTypes' /\ Visiting'
    BY <1>1, <1>2, <1>3, <1>4, <1>5 DEF QueueTypes, Visiting
  <1> QED
    BY <1>3, <1>6

LEMMA QueueAfterRequeued ==
    ASSUME SendInv, NEW m \in Messages, NEW a, Visits(m, a), NEW b \in Attempts, Requeued(m, b)
    PROVE  /\ QueueTypes' /\ Visiting'
           /\ \A x : (Has(pending', x) <=> Has(pending, x)) /\ (Once(pending, x) => Once(pending', x))
  <1>1. /\ phase' = "outbound" /\ left' = left - 1 /\ left - 1 \in Nat /\ pending[at].msg = m
        /\ at \in DOMAIN pending /\ at \in Nat /\ pending \in Seq(Entry)
    BY VisitedEntry
  <1>2. RequeueOf(pending, at, b, pending') /\ at' = at
    BY <1>1 DEF Requeued, RequeueOf
  <1>3. /\ pending' \in Seq(Entry) /\ Len(pending') = Len(pending)
        /\ \A x : Has(pending', x) <=> Has(pending, x)
        /\ \A x : Once(pending, x) => Once(pending', x)
    BY <1>1, <1>2, RequeuedEntry
  <1>4. at + left <= Len(pending) + 1 /\ left \in Nat
    BY VisitedEntry DEF SendInv, Typed, QueueTypes, Visiting
  <1>5. at \in 1 .. Len(pending) + 1 /\ Len(pending) \in Nat
    BY <1>1
  <1>6. QueueTypes' /\ Visiting'
    BY <1>1, <1>2, <1>3, <1>4, <1>5 DEF QueueTypes, Visiting
  <1> QED
    BY <1>3, <1>6

LEMMA QueueAfterLeaves ==
    ASSUME SendInv, NEW m \in Messages, NEW a, Visits(m, a), Leaves
    PROVE  /\ QueueTypes' /\ Visiting'
           /\ \A x : x # m => (Has(pending', x) <=> Has(pending, x))
           /\ \A x : Once(pending, x) => Once(pending', x)
           /\ Once(pending, m) => ~Has(pending', m)
  <1>1. /\ phase' = "outbound" /\ left' = left - 1 /\ left - 1 \in Nat /\ pending[at].msg = m
        /\ at \in DOMAIN pending /\ at \in Nat /\ pending \in Seq(Entry)
    BY VisitedEntry
  <1>2. pending' = RemoveAt(pending, at) /\ at' = at
    BY DEF Leaves
  <1>3. /\ pending' \in Seq(Entry) /\ Len(pending') = Len(pending) - 1
        /\ \A x : x # m => (Has(pending', x) <=> Has(pending, x))
        /\ \A x : Once(pending, x) => Once(pending', x)
        /\ Once(pending, m) => ~Has(pending', m)
    BY <1>1, <1>2, RemovedEntry
  <1>4. at + left <= Len(pending) + 1 /\ left \in Nat
    BY VisitedEntry DEF SendInv, Typed, QueueTypes, Visiting
  <1>5. at \in 1 .. Len(pending) /\ Len(pending) \in Nat
    BY <1>1
  <1>6. QueueTypes' /\ Visiting'
    BY <1>1, <1>2, <1>3, <1>4, <1>5 DEF QueueTypes, Visiting
  <1> QED
    BY <1>3, <1>6

-----------------------------------------------------------------------------
(* tick() at an entry.                                                      *)

QueueKept(m) ==
    \A x \in Messages : x # m => /\ Has(pending', x) <=> Has(pending, x)
                                 /\ Once(pending, x) => Once(pending', x)

LEMMA VisitKeeps ==
    ASSUME SendInv, NEW m \in Messages, NEW a, Visits(m, a),
           QueueTypes', Visiting', QueueKept(m),
           failure' \in BOOLEAN, sent' \subseteq Messages,
           PacketTypes', \A x \in Messages : x # m => flight'[x] = flight[x],
           LinkTypes', \A c : c.msg # m => ((c \in links') <=> (c \in links)),
           EndTypes', \A x \in Messages : x # m => outcome'[x] = outcome[x],
           \A x \in stray : x \in stray',
           EnvelopeTypes',
           m \notin stray' => OwnedNow(m)'
    PROVE  SendInv'
  <1>1. UNCHANGED <<phase, method, seen, stamps, proofs, shot, submits>> /\ LoopTypes /\ StampTypes'
    BY VisitedEntry
  <1>2. LoopTypes'
    BY <1>1 DEF LoopTypes
  <1>3. Typed'
    BY <1>1, <1>2 DEF Typed
  <1>4. Others(m)
    BY <1>1 DEF Others, QueueKept, stamps
  <1> QED
    BY <1>1, <1>3, <1>4, Close

(* The message that is visited, unless it is stray.                         *)
LEMMA VisitedOwned ==
    ASSUME SendInv, NEW m \in Messages, NEW a, Visits(m, a), m \notin stray
    PROVE  /\ Once(pending, m) /\ Has(pending, m) /\ m \notin deferred /\ flight[m] = None
           /\ outcome[m] = "open"
           /\ method[m] # "Direct" => ~Copied(links, m)
  <1>1. OwnedNow(m) /\ Has(pending, m)
    BY VisitedEntry DEF SendInv
  <1> QED
    BY <1>1 DEF OwnedNow, Owned

LEMMA GivesUpKeeps ==
    ASSUME SendInv, NEW m \in Messages, NEW a \in Attempts, GivesUp(m, a)
    PROVE  SendInv'
  <1>1. /\ Visits(m, a) /\ Leaves /\ Forgets(m) /\ failure' = TRUE /\ UNCHANGED <<flight, links, sent>>
        /\ \E how \in {"failed", "expired"} : Ended(m, how, links)
    BY DEF GivesUp, Ends
  <1>2. Typed
    BY DEF SendInv
  <1>3. /\ QueueTypes' /\ Visiting' /\ QueueKept(m)
        /\ Once(pending, m) => ~Has(pending', m)
        /\ Once(pending, m) => Once(pending', m)
    BY <1>1, QueueAfterLeaves DEF QueueKept
  <1>4. /\ EndTypes' /\ outcome'[m] # "open"
        /\ \A x \in Messages : x # m => outcome'[x] = outcome[x]
        /\ \A x \in stray : x \in stray'
        /\ Copied(links, m) => m \in stray'
    BY <1>1, <1>2, EndedIs DEF Typed, Outcomes
  <1>5. EnvelopeTypes'
    BY <1>1, <1>2 DEF Typed, EnvelopeTypes, Forgets, Forget
  <1>6. sent' \subseteq Messages /\ failure' \in BOOLEAN /\ PacketTypes' /\ LinkTypes'
    BY <1>1, <1>2, VisitedEntry DEF Typed, LoopTypes, PacketTypes, LinkTypes
  <1>7. ASSUME m \notin stray' PROVE OwnedNow(m)'
    <2>1. m \notin stray /\ ~Copied(links, m) /\ m \notin deferred /\ flight[m] = None /\ Once(pending, m)
      BY <1>1, <1>4, <1>7, VisitedOwned
    <2>2. deferred' = deferred /\ flight' = flight /\ links' = links
      BY <1>1 DEF Visits, stamps
    <2> QED
      BY <2>1, <2>2, <1>3, <1>4 DEF OwnedNow, Owned, Single, Copied
  <1> QED
    BY <1>1, <1>3, <1>4, <1>5, <1>6, <1>7, VisitKeeps

(* The entry stays or is requeued; copies of a Direct message may be added. *)
LEMMA HeldVisit ==
    ASSUME SendInv, NEW m \in Messages, NEW a, Visits(m, a),
           QueueTypes', Visiting',
           \A x : (Has(pending', x) <=> Has(pending, x)) /\ (Once(pending, x) => Once(pending', x)),
           UNCHANGED <<flight, failure, ends, sent>>, EnvelopeTypes',
           \/ links' = links
           \/ method[m] = "Direct" /\ \E b \in Attempts : Starts(m, b, "Direct")
    PROVE  SendInv'
  <1>1. Typed /\ UNCHANGED <<outcome, stray>>
    BY DEF SendInv, ends
  <1>2. /\ LinkTypes' /\ \A c : c.msg # m => ((c \in links') <=> (c \in links))
        /\ method[m] # "Direct" => links' = links
    BY <1>1, StartsOne DEF Typed, LinkTypes
  <1>3. /\ PacketTypes' /\ failure' \in BOOLEAN /\ sent' \subseteq Messages /\ EndTypes'
        /\ QueueKept(m)
    BY <1>1, VisitedEntry DEF Typed, LoopTypes, PacketTypes, EndTypes, QueueKept
  <1>4. ASSUME m \notin stray' PROVE OwnedNow(m)'
    <2>1. /\ Once(pending, m) /\ Has(pending, m) /\ m \notin deferred /\ flight[m] = None
          /\ outcome[m] = "open"
          /\ method[m] # "Direct" => ~Copied(links, m)
      BY <1>1, <1>4, VisitedOwned
    <2>2. deferred' = deferred /\ method' = method
      BY DEF Visits, stamps
    <2> QED
      BY <2>1, <2>2, <1>1, <1>2 DEF OwnedNow, Owned, Single, Copied
  <1> QED
    BY <1>1, <1>2, <1>3, <1>4, VisitKeeps

LEMMA NotDueKeeps ==
    ASSUME SendInv, NEW m \in Messages, NEW a \in Attempts, NotDue(m, a)
    PROVE  SendInv'
  <1>1. Visits(m, a) /\ Stays(a) /\ UNCHANGED <<flight, links, envelopes, failure, ends, sent>>
    BY DEF NotDue
  <1>2. EnvelopeTypes'
    BY <1>1 DEF SendInv, Typed, EnvelopeTypes, envelopes
  <1> QED
    BY <1>1, <1>2, QueueAfterStays, HeldVisit

LEMMA DirectKeeps ==
    ASSUME SendInv, NEW m \in Messages, NEW a \in Attempts, Direct(m, a)
    PROVE  SendInv'
  <1>1. /\ Visits(m, a) /\ method[m] = "Direct" /\ a <= MaxAttempts
        /\ UNCHANGED <<flight, envelopes, failure, ends, sent>>
        /\ DirectOnLink(m, a) \/ DirectWaits(a) \/ DirectNewLink(m, a) \/ DirectOutOfBudget(a)
    BY DEF Direct
  <1>2. a \in Attempts /\ a + 1 \in Attempts
    BY <1>1, OutboundAssumption DEF Attempts
  <1>3. \E b \in Attempts : Stays(b)
    BY <1>1, <1>2 DEF DirectOnLink, DirectWaits, DirectNewLink, DirectOutOfBudget
  <1>4. links' = links \/ \E b \in Attempts : Starts(m, b, "Direct")
    BY <1>1, <1>2 DEF DirectOnLink, DirectWaits, DirectNewLink, DirectOutOfBudget
  <1>5. EnvelopeTypes'
    BY <1>1 DEF SendInv, Typed, EnvelopeTypes, envelopes
  <1> QED
    BY <1>1, <1>3, <1>4, <1>5, QueueAfterStays, HeldVisit

(* The entry leaves the queue for the transport or the link manager.        *)
LEMMA HandedVisit ==
    ASSUME SendInv, NEW m \in Messages, NEW a, Visits(m, a), Leaves, method[m] # "Direct",
           UNCHANGED <<failure, ends>>, sent' \subseteq Messages, EnvelopeTypes',
           \/ links' = links /\ \E b \in Attempts : flight' = [flight EXCEPT ![m] = b]
           \/ flight' = flight /\ \E b \in Attempts, via \in {"Direct", "Deposit"} : Starts(m, b, via)
    PROVE  SendInv'
  <1>1. Typed /\ UNCHANGED <<outcome, stray>>
    BY DEF SendInv, ends
  <1>2. /\ QueueTypes' /\ Visiting' /\ QueueKept(m)
        /\ Once(pending, m) => ~Has(pending', m)
        /\ Once(pending, m) => Once(pending', m)
    BY QueueAfterLeaves DEF QueueKept
  <1>3. /\ LinkTypes' /\ PacketTypes'
        /\ \A c : c.msg # m => ((c \in links') <=> (c \in links))
        /\ \A x \in Messages : x # m => flight'[x] = flight[x]
        /\ \/ links' = links /\ flight'[m] # None
           \/ flight' = flight /\ Copied(links', m) /\ (~Copied(links, m) => Single(links', m))
    <2>1. Visits(m, a) => proofs' = proofs
      BY DEF Visits
    <2>2. CASE links' = links /\ \E b \in Attempts : flight' = [flight EXCEPT ![m] = b]
      <3>1. PICK b \in Attempts : flight' = [flight EXCEPT ![m] = b]
        BY <2>2
      <3>2. b # None
        BY OutboundAssumption DEF Attempts
      <3> QED
        BY <2>1, <2>2, <3>1, <3>2, <1>1 DEF Typed, LinkTypes, PacketTypes
    <2>3. CASE flight' = flight /\ \E b \in Attempts, via \in {"Direct", "Deposit"} : Starts(m, b, via)
      BY <2>1, <2>3, <1>1, StartsOne DEF Typed, PacketTypes
    <2> QED
      BY <2>2, <2>3
  <1>4. failure' \in BOOLEAN /\ EndTypes'
    BY <1>1, VisitedEntry DEF Typed, LoopTypes, EndTypes
  <1>5. ASSUME m \notin stray' PROVE OwnedNow(m)'
    <2>1. /\ Once(pending, m) /\ m \notin deferred /\ flight[m] = None
          /\ outcome[m] = "open" /\ ~Copied(links, m)
      BY <1>1, <1>5, VisitedOwned
    <2>2. deferred' = deferred /\ method' = method
      BY DEF Visits, stamps
    <2> QED
      BY <2>1, <2>2, <1>1, <1>2, <1>3 DEF OwnedNow, Owned, Single, Copied
  <1> QED
    BY <1>1, <1>2, <1>3, <1>4, <1>5, VisitKeeps

LEMMA NextAttempt ==
    ASSUME NEW a \in Attempts, a <= MaxAttempts
    PROVE  a + 1 \in Attempts
  BY OutboundAssumption DEF Attempts

LEMMA PacketKeeps ==
    ASSUME SendInv, NEW m \in Messages, NEW a \in Attempts, Packet(m, a)
    PROVE  SendInv'
  <1>1. /\ Visits(m, a) /\ method[m] = "Opportunistic" /\ a <= MaxAttempts
        /\ UNCHANGED <<links, envelopes, failure, ends>>
        /\ \/ Requeued(m, a + 1) /\ UNCHANGED <<flight, sent>>
           \/ Leaves /\ flight' = [flight EXCEPT ![m] = a + 1] /\ sent' = sent \cup {m}
    BY DEF Packet
  <1>2. a + 1 \in Attempts
    BY <1>1, NextAttempt
  <1>3. EnvelopeTypes' /\ sent \cup {m} \subseteq Messages
    BY <1>1 DEF SendInv, Typed, EnvelopeTypes, LoopTypes, envelopes
  <1>4. CASE Requeued(m, a + 1) /\ UNCHANGED <<flight, sent>>
    BY <1>1, <1>2, <1>3, <1>4, QueueAfterRequeued, HeldVisit
  <1>5. CASE Leaves /\ flight' = [flight EXCEPT ![m] = a + 1] /\ sent' = sent \cup {m}
    BY <1>1, <1>2, <1>3, <1>5, HandedVisit
  <1> QED
    BY <1>1, <1>4, <1>5

LEMMA LargePacketKeeps ==
    ASSUME SendInv, NEW m \in Messages, NEW a \in Attempts, LargePacket(m, a)
    PROVE  SendInv'
  <1>1. /\ Visits(m, a) /\ method[m] = "Large" /\ a <= MaxAttempts
        /\ UNCHANGED <<flight, envelopes, failure, ends>>
        /\ \/ Requeued(m, a + 1) /\ UNCHANGED <<links, sent>>
           \/ Leaves /\ Starts(m, a + 1, "Direct") /\ sent' = sent \cup {m}
    BY DEF LargePacket
  <1>2. a + 1 \in Attempts
    BY <1>1, NextAttempt
  <1>3. EnvelopeTypes' /\ sent \cup {m} \subseteq Messages
    BY <1>1 DEF SendInv, Typed, EnvelopeTypes, LoopTypes, envelopes
  <1>4. CASE Requeued(m, a + 1) /\ UNCHANGED <<links, sent>>
    BY <1>1, <1>2, <1>3, <1>4, QueueAfterRequeued, HeldVisit
  <1>5. CASE Leaves /\ Starts(m, a + 1, "Direct") /\ sent' = sent \cup {m}
    BY <1>1, <1>2, <1>3, <1>5, HandedVisit
  <1> QED
    BY <1>1, <1>4, <1>5

LEMMA WorkerFields ==
    ASSUME EnvelopeTypes, NEW m \in Messages, worker[m] # None
    PROVE  /\ worker[m] \in Worker
           /\ worker[m].key \in Nat /\ worker[m].cost \in Nat /\ worker[m].n \in Nat
           /\ Made(m) \in Envelope
  BY DEF EnvelopeTypes, Worker, Envelope, Made

LEMMA PropagatedKeeps ==
    ASSUME SendInv, NEW m \in Messages, NEW a \in Attempts, Propagated(m, a)
    PROVE  SendInv'
  <1>1. /\ Visits(m, a) /\ method[m] = "Propagated" /\ a <= MaxAttempts /\ UNCHANGED flight
        /\ \/ NotReady(m, a) \/ StillWorking(m, a) \/ Invalid(m) \/ Prepares(m, a)
           \/ ReadyEnvelope(m, a)
    BY DEF Propagated
  <1>2. a + 1 \in Attempts /\ EnvelopeTypes /\ Typed /\ a \in Attempts
    BY <1>1, NextAttempt DEF SendInv, Typed
  <1>3. sent \cup {m} \subseteq Messages
    BY DEF SendInv, Typed, LoopTypes
  <1>4. CASE NotReady(m, a)
    <2>1. Requeued(m, a + 1) /\ UNCHANGED <<envelopes, failure, ends, links, sent>>
      BY <1>4 DEF NotReady
    <2>2. EnvelopeTypes'
      BY <1>2, <2>1 DEF EnvelopeTypes, envelopes
    <2> QED
      BY <1>1, <1>2, <2>1, <2>2, QueueAfterRequeued, HeldVisit
  <1>5. CASE StillWorking(m, a)
    <2>1. Requeued(m, a) /\ UNCHANGED <<envelopes, failure, ends, links, sent>>
      BY <1>5 DEF StillWorking
    <2>2. EnvelopeTypes'
      BY <1>2, <2>1 DEF EnvelopeTypes, envelopes
    <2> QED
      BY <1>1, <1>2, <2>1, <2>2, QueueAfterRequeued, HeldVisit
  <1>6. CASE Invalid(m)
    <2>1. Leaves /\ Ended(m, "failed", links) /\ Forgets(m) /\ failure' = TRUE /\ UNCHANGED <<links, sent>>
      BY <1>6 DEF Invalid, Ends
    <2>2. /\ QueueTypes' /\ Visiting' /\ QueueKept(m)
          /\ Once(pending, m) => ~Has(pending', m)
          /\ Once(pending, m) => Once(pending', m)
      BY <1>1, <2>1, QueueAfterLeaves DEF QueueKept
    <2>3. /\ EndTypes' /\ outcome'[m] # "open"
          /\ \A x \in Messages : x # m => outcome'[x] = outcome[x]
          /\ \A x \in stray : x \in stray'
          /\ Copied(links, m) => m \in stray'
      BY <1>2, <2>1, EndedIs DEF Typed, Outcomes
    <2>4. EnvelopeTypes'
      BY <1>2, <2>1 DEF EnvelopeTypes, Forgets, Forget
    <2>5. sent' \subseteq Messages /\ failure' \in BOOLEAN /\ PacketTypes' /\ LinkTypes'
      BY <1>1, <1>2, <2>1, VisitedEntry DEF Typed, LoopTypes, PacketTypes, LinkTypes
    <2>6. ASSUME m \notin stray' PROVE OwnedNow(m)'
      <3>1. m \notin stray /\ ~Copied(links, m) /\ m \notin deferred /\ flight[m] = None /\ Once(pending, m)
        BY <1>1, <2>3, <2>6, VisitedOwned
      <3>2. deferred' = deferred /\ flight' = flight /\ links' = links
        BY <1>1, <2>1 DEF Visits, stamps
      <3> QED
        BY <3>1, <3>2, <2>2, <2>3 DEF OwnedNow, Owned, Single, Copied
    <2> QED
      BY <1>1, <2>1, <2>2, <2>3, <2>4, <2>5, <2>6, VisitKeeps
  <1>7. CASE Prepares(m, a)
    <2> DEFINE n == IF Matching(m) THEN envelope[m].n ELSE encryptions[m] + 1
    <2>1. n \in Nat
      BY <1>2 DEF EnvelopeTypes, Envelope, Matching
    <2>2. /\ Requeued(m, a) /\ UNCHANGED <<key, cost, deposited, failure, ends, links, sent>>
          /\ requoted' = requoted \cup {m} \/ requoted' = requoted
          /\ \/ /\ worker' = [worker EXCEPT ![m] = [key |-> key, cost |-> cost, n |-> n, result |-> "working"]]
                /\ envelope' = [envelope EXCEPT ![m] = None]
                /\ encryptions' = [encryptions EXCEPT ![m] = IF Matching(m) THEN encryptions[m] ELSE encryptions[m] + 1]
             \/ /\ worker' = [worker EXCEPT ![m] = None] /\ UNCHANGED <<envelope, encryptions>>
      BY <1>7 DEF Prepares
    <2>3. [key |-> key, cost |-> cost, n |-> n, result |-> "working"] \in Worker
      BY <1>2, <2>1 DEF EnvelopeTypes, Worker
    <2> HIDE DEF n
    <2>4. worker' \in [Messages -> Worker \cup {None}] /\ envelope' \in [Messages -> Envelope \cup {None}]
      BY <1>2, <2>2, <2>3 DEF EnvelopeTypes
    <2>5. encryptions' \in [Messages -> Nat] /\ requoted' \subseteq Messages
      BY <1>2, <2>2 DEF EnvelopeTypes
    <2>6. EnvelopeTypes'
      BY <1>2, <2>2, <2>4, <2>5 DEF EnvelopeTypes
    <2> QED
      BY <1>1, <1>2, <2>2, <2>6, QueueAfterRequeued, HeldVisit
  <1>8. CASE ReadyEnvelope(m, a)
    <2>1. PICK e \in Envelope : Deposits(m, a, e)
      BY <1>2, <1>8, WorkerFields DEF ReadyEnvelope, Current, Fits, Matching, EnvelopeTypes
    <2>2. /\ worker' = [worker EXCEPT ![m] = None] /\ envelope' = [envelope EXCEPT ![m] = e]
          /\ UNCHANGED <<key, cost, encryptions, requoted, failure, ends>>
          /\ \/ Requeued(m, a + 1) /\ UNCHANGED <<links, sent, deposited>>
             \/ /\ Leaves /\ Starts(m, a + 1, "Deposit") /\ sent' = sent \cup {m}
                /\ deposited' = [deposited EXCEPT ![m] = deposited[m] \cup {[key |-> e.key, n |-> e.n]}]
      BY <2>1 DEF Deposits
    <2>3. [key |-> e.key, n |-> e.n] \in [key: Nat, n: Nat]
      BY DEF Envelope
    <2>4. deposited' \in [Messages -> SUBSET [key: Nat, n: Nat]]
      BY <1>2, <2>2, <2>3 DEF EnvelopeTypes
    <2>5. EnvelopeTypes'
      BY <1>2, <2>2, <2>4 DEF EnvelopeTypes
    <2>6. CASE Requeued(m, a + 1) /\ UNCHANGED <<links, sent, deposited>>
      BY <1>1, <1>2, <2>2, <2>5, <2>6, QueueAfterRequeued, HeldVisit
    <2>7. CASE Leaves /\ Starts(m, a + 1, "Deposit") /\ sent' = sent \cup {m}
      BY <1>1, <1>2, <1>3, <2>2, <2>5, <2>7, HandedVisit
    <2> QED
      BY <2>2, <2>6, <2>7
  <1> QED
    BY <1>1, <1>4, <1>5, <1>6, <1>7, <1>8

-----------------------------------------------------------------------------
(* tick(), the Links.                                                       *)

LEMMA DequeuedIs ==
    ASSUME pending \in Seq(Entry), NEW m, NEW q, q = Dequeued(m)
    PROVE  /\ q \in Seq(Entry)
           /\ \A x : x # m => (Has(q, x) <=> Has(pending, x))
           /\ \A x : Once(pending, x) => Once(q, x)
           /\ Once(pending, m) => ~Has(q, m)
  <1>1. CASE Queued(m) = {}
    BY <1>1 DEF Dequeued, Queued, Has
  <1>2. CASE Queued(m) # {}
    <2>1. Queued(m) \in SUBSET Nat /\ Queued(m) \subseteq DOMAIN pending
      BY DEF Queued
    <2>2. Min(Queued(m)) \in Queued(m)
      BY <1>2, <2>1, MinIs
    <2>3. PICK i \in DOMAIN pending : i = Min(Queued(m)) /\ pending[i].msg = m
      BY <2>2 DEF Queued
    <2>4. q = RemoveAt(pending, i)
      BY <1>2, <2>3 DEF Dequeued
    <2> QED
      BY SMTT(30), <2>3, <2>4, RemovedEntry
  <1> QED
    BY <1>1, <1>2

LEMMA ReportFields ==
    ASSUME SendInv, NEW c \in links, Reports(c)
    PROVE  /\ c.msg \in Messages /\ c.att \in Attempts /\ phase = "links" /\ at = 1
           /\ links' = links \ {c} /\ LinkTypes' /\ pending \in Seq(Entry) /\ Typed
           /\ UNCHANGED <<phase, method, at, left, seen, stamps, packets, shot, counts>>
           /\ \A d : d.msg # c.msg => ((d \in links') <=> (d \in links))
  <1>1. /\ phase = "links" /\ links' = links \ {c} /\ Typed
        /\ UNCHANGED <<phase, method, at, left, seen, stamps, packets, shot, counts>>
    BY DEF Reports, SendInv
  <1>2. c \in Copy
    BY <1>1 DEF Typed, LinkTypes
  <1>3. at = 1 /\ pending \in Seq(Entry) /\ LinkTypes'
    BY <1>1 DEF SendInv, Visiting, Typed, QueueTypes, LinkTypes
  <1> QED
    BY <1>1, <1>2, <1>3 DEF Copy

LEMMA ReportKeeps ==
    ASSUME SendInv, NEW c \in links, Reports(c), pending' \in Seq(Entry),
           \A x \in Messages : x # c.msg =>
               (Has(pending', x) <=> Has(pending, x)) /\ (Once(pending, x) => Once(pending', x)),
           EndTypes', \A x \in Messages : x # c.msg => outcome'[x] = outcome[x],
           \A x \in stray : x \in stray',
           EnvelopeTypes', failure' \in BOOLEAN,
           c.msg \notin stray' => OwnedNow(c.msg)'
    PROVE  SendInv'
  <1>1. /\ c.msg \in Messages /\ phase = "links" /\ at = 1 /\ LinkTypes' /\ Typed
        /\ UNCHANGED <<phase, method, at, left, seen, stamps, packets, shot, counts>>
        /\ \A d : d.msg # c.msg => ((d \in links') <=> (d \in links))
    BY ReportFields
  <1>2. LoopTypes' /\ StampTypes' /\ PacketTypes'
    BY <1>1 DEF Typed, LoopTypes, StampTypes, PacketTypes, stamps, packets, counts
  <1>3. QueueTypes' /\ Visiting'
    BY <1>1 DEF Typed, QueueTypes, Visiting
  <1>4. Typed'
    BY <1>1, <1>2, <1>3 DEF Typed
  <1>5. Others(c.msg)
    BY <1>1 DEF Others, stamps, packets
  <1> QED
    BY <1>1, <1>3, <1>4, <1>5, Close

LEMMA SettledKeeps ==
    ASSUME SendInv, NEW c \in links, Reports(c), Forgets(c.msg), pending' = Dequeued(c.msg),
           NEW how \in Outcomes \ {"open"}, Ended(c.msg, how, links \ {c}), failure' \in BOOLEAN
    PROVE  SendInv'
  <1> DEFINE m == c.msg
  <1>1. /\ m \in Messages /\ links' = links \ {c} /\ pending \in Seq(Entry) /\ Typed
        /\ UNCHANGED <<method, stamps, packets>>
    BY ReportFields
  <1>2. /\ pending' \in Seq(Entry)
        /\ \A x : x # m => (Has(pending', x) <=> Has(pending, x))
        /\ \A x : Once(pending, x) => Once(pending', x)
        /\ Once(pending, m) => ~Has(pending', m)
    BY <1>1, DequeuedIs
  <1>3. /\ EndTypes' /\ outcome'[m] # "open"
        /\ \A x \in Messages : x # m => outcome'[x] = outcome[x]
        /\ \A x \in stray : x \in stray'
        /\ Copied(links', m) => m \in stray'
    BY <1>1, EndedIs DEF Typed
  <1>4. EnvelopeTypes'
    BY <1>1 DEF Typed, EnvelopeTypes, Forgets, Forget
  <1>5. ASSUME m \notin stray' PROVE OwnedNow(m)'
    <2>1. m \notin stray /\ ~Copied(links', m) /\ Copied(links, m)
      BY <1>3, <1>5 DEF Copied
    <2>2. OwnedNow(m)
      BY <1>1, <2>1 DEF SendInv
    <2>3. Once(pending, m) /\ m \notin deferred /\ flight[m] = None
      BY <2>1, <2>2 DEF OwnedNow, Owned
    <2>4. deferred' = deferred /\ flight' = flight /\ method' = method
      BY <1>1 DEF stamps, packets
    <2> QED
      BY <1>2, <1>3, <2>1, <2>3, <2>4 DEF OwnedNow, Owned, Single, Copied
  <1> QED
    BY <1>2, <1>3, <1>4, <1>5, ReportKeeps

LEMMA LinkCompleteKeeps ==
    ASSUME SendInv, NEW c \in links, LinkComplete(c)
    PROVE  SendInv'
  <1>1. /\ Reports(c) /\ Forgets(c.msg) /\ pending' = Dequeued(c.msg) /\ UNCHANGED failure
        /\ \E how \in {"proved", "delivered"} : Ended(c.msg, how, links \ {c})
    BY DEF LinkComplete
  <1>2. failure' \in BOOLEAN
    BY <1>1 DEF SendInv, Typed, LoopTypes
  <1> QED
    BY <1>1, <1>2, SettledKeeps DEF Outcomes

LEMMA LinkRefusedKeeps ==
    ASSUME SendInv, NEW c \in links, LinkRefused(c)
    PROVE  SendInv'
  <1>1. /\ Reports(c) /\ Forgets(c.msg) /\ pending' = Dequeued(c.msg) /\ failure' = TRUE
        /\ Ended(c.msg, "failed", links \ {c})
    BY DEF LinkRefused
  <1> QED
    BY <1>1, SettledKeeps DEF Outcomes

LEMMA LinkFailedKeeps ==
    ASSUME SendInv, NEW c \in links, LinkFailed(c)
    PROVE  SendInv'
  <1> DEFINE m == c.msg
  <1>1. /\ Reports(c) /\ UNCHANGED <<envelopes, failure, ends>>
        /\ pending' = IF Queued(m) = {} THEN Append(pending, New(m, c.att)) ELSE pending
    BY DEF LinkFailed
  <1>2. /\ m \in Messages /\ c.att \in Attempts /\ links' = links \ {c} /\ pending \in Seq(Entry) /\ Typed
        /\ UNCHANGED <<method, stamps, packets>>
    BY <1>1, ReportFields
  <1>3. Queued(m) = {} <=> ~Has(pending, m)
    BY DEF Queued, Has
  <1>4. /\ pending' \in Seq(Entry)
        /\ \A x : x # m => (Has(pending', x) <=> Has(pending, x)) /\ (Once(pending, x) => Once(pending', x))
        /\ Once(pending, m) => Once(pending', m)
        /\ Has(pending', m)
    <2>1. CASE Queued(m) = {}
      <3>1. AppendOf(pending, m, c.att, pending')
        BY <1>1, <2>1 DEF AppendOf
      <3> QED
        BY <1>2, <1>3, <2>1, <3>1, AppendedEntry
    <2>2. CASE Queued(m) # {}
      BY <1>1, <1>2, <1>3, <2>2
    <2> QED
      BY <2>1, <2>2
  <1>5. EnvelopeTypes' /\ failure' \in BOOLEAN /\ EndTypes' /\ UNCHANGED <<outcome, stray>>
    BY <1>1, <1>2 DEF Typed, EnvelopeTypes, LoopTypes, EndTypes, envelopes, ends
  <1>6. ASSUME m \notin stray' PROVE OwnedNow(m)'
    <2>1. m \notin stray /\ Copied(links, m)
      BY <1>5, <1>6 DEF Copied
    <2>2. OwnedNow(m)
      BY <1>2, <2>1 DEF SendInv
    <2>3. /\ Once(pending, m) /\ m \notin deferred /\ flight[m] = None /\ outcome[m] = "open"
          /\ method[m] # "Direct" => Single(links, m)
      BY <2>1, <2>2 DEF OwnedNow, Owned
    <2>4. method[m] # "Direct" => ~Copied(links', m)
      BY <1>2, <2>3 DEF Single, Copied
    <2>5. deferred' = deferred /\ flight' = flight /\ method' = method
      BY <1>2 DEF stamps, packets
    <2> QED
      BY <1>4, <1>5, <2>3, <2>4, <2>5 DEF OwnedNow, Owned, Single, Copied
  <1> QED
    BY <1>1, <1>4, <1>5, <1>6, ReportKeeps

-----------------------------------------------------------------------------
(* The other steps of tick(), and what happens between two ticks.           *)

LEMMA EndOutboundKeeps ==
    ASSUME SendInv, EndOutbound
    PROVE  SendInv'
  <1>1. /\ phase' = "links" /\ at' = 1 /\ seen' = "none" /\ Typed
        /\ UNCHANGED <<method, pending, left, stamps, packets, links, envelopes, failure, shot, ends, counts>>
    BY DEF EndOutbound, SendInv
  <1>2. LoopTypes' /\ QueueTypes' /\ StampTypes' /\ PacketTypes' /\ LinkTypes' /\ EnvelopeTypes' /\ EndTypes'
    BY <1>1 DEF Typed, LoopTypes, QueueTypes, StampTypes, PacketTypes, LinkTypes, EnvelopeTypes,
                EndTypes, stamps, packets, envelopes, ends, counts
  <1>3. Visiting'
    BY <1>1 DEF Visiting
  <1> QED
    BY <1>1, <1>2, <1>3, Unmoved DEF Typed, stamps, packets, ends

LEMMA EndTickKeeps ==
    ASSUME SendInv, EndTick
    PROVE  SendInv'
  <1>1. /\ phase = "links" /\ phase' = "idle" /\ Typed
        /\ shot' \in {shot, "waiting", "success", "failed"}
        /\ UNCHANGED <<method, queue, stamps, packets, links, envelopes, failure, ends, counts>>
    BY DEF EndTick, Verdict, SendInv
  <1>2. LoopTypes' /\ QueueTypes' /\ StampTypes' /\ PacketTypes' /\ LinkTypes' /\ EnvelopeTypes' /\ EndTypes'
    BY <1>1 DEF Typed, LoopTypes, QueueTypes, StampTypes, PacketTypes, LinkTypes, EnvelopeTypes,
                EndTypes, queue, stamps, packets, envelopes, ends, counts
  <1>3. Visiting'
    BY <1>1 DEF SendInv, Visiting, queue
  <1> QED
    BY <1>1, <1>2, <1>3, Unmoved DEF Typed, queue, stamps, packets, ends

(* Steps between two ticks that move no message.                            *)
LEMMA IdleKeeps ==
    ASSUME SendInv, phase = "idle", UNCHANGED <<phase, method, queue, links, failure, shot, ends, counts>>,
           UNCHANGED <<deferred, flight>>, StampTypes', PacketTypes', EnvelopeTypes'
    PROVE  SendInv'
  <1>1. Typed
    BY DEF SendInv
  <1>2. LoopTypes' /\ QueueTypes' /\ LinkTypes' /\ EndTypes'
    BY <1>1 DEF Typed, LoopTypes, QueueTypes, LinkTypes, EndTypes, queue, ends, counts
  <1>3. Visiting'
    BY DEF SendInv, Visiting, queue
  <1> QED
    BY <1>1, <1>2, <1>3, Unmoved DEF Typed, queue, ends

LEMMA ProofArrivesKeeps ==
    ASSUME SendInv, NEW m \in Messages, ProofArrives(m)
    PROVE  SendInv'
  <1>1. /\ phase = "idle" /\ proofs' = proofs \cup {m}
        /\ UNCHANGED <<phase, method, queue, stamps, flight, links, envelopes, failure, shot, ends, counts>>
    BY DEF ProofArrives
  <1>2. StampTypes' /\ PacketTypes' /\ EnvelopeTypes'
    BY <1>1 DEF SendInv, Typed, StampTypes, PacketTypes, EnvelopeTypes, stamps, envelopes
  <1> QED
    BY <1>1, <1>2, IdleKeeps DEF stamps

LEMMA SearchEndsKeeps ==
    ASSUME SendInv, NEW result \in {"found", "dead"}, SearchEnds(result)
    PROVE  SendInv'
  <1>1. /\ phase = "idle" /\ search' = result
        /\ UNCHANGED <<phase, method, queue, deferred, order, job, since, packets, links, envelopes,
                       failure, shot, ends, counts>>
    BY DEF SearchEnds
  <1>2. StampTypes' /\ PacketTypes' /\ EnvelopeTypes'
    BY <1>1 DEF SendInv, Typed, StampTypes, PacketTypes, EnvelopeTypes, packets, envelopes
  <1> QED
    BY <1>1, <1>2, IdleKeeps DEF packets

LEMMA WorkerEndsKeeps ==
    ASSUME SendInv, NEW m \in Messages, NEW result \in {"ok", "bad"}, WorkerEnds(m, result)
    PROVE  SendInv'
  <1>1. /\ phase = "idle" /\ worker[m] # None /\ worker' = [worker EXCEPT ![m].result = result]
        /\ UNCHANGED <<phase, method, queue, stamps, packets, links, envelope, key, cost, encryptions,
                       deposited, requoted, failure, shot, ends, counts>>
    BY DEF WorkerEnds
  <1>2. EnvelopeTypes
    BY DEF SendInv, Typed
  <1>3. PICK w \in Worker : w = worker[m]
    BY <1>1, <1>2, WorkerFields
  <1>4. [w EXCEPT !.result = result] \in Worker
    BY DEF Worker
  <1>5. worker' = [worker EXCEPT ![m] = [w EXCEPT !.result = result]]
    BY <1>1, <1>3
  <1>6. worker' \in [Messages -> Worker \cup {None}]
    BY <1>2, <1>4, <1>5 DEF EnvelopeTypes
  <1>7. StampTypes' /\ PacketTypes' /\ EnvelopeTypes'
    BY <1>1, <1>2, <1>6 DEF SendInv, Typed, StampTypes, PacketTypes, EnvelopeTypes, stamps, packets
  <1> QED
    BY <1>1, <1>7, IdleKeeps DEF stamps, packets

LEMMA AnnouncedKeeps ==
    ASSUME SendInv, Announced
    PROVE  SendInv'
  <1>1. /\ phase = "idle" /\ key' \in {key, key + 1} /\ cost' \in {cost, cost + 1}
        /\ UNCHANGED <<phase, method, queue, stamps, packets, links, worker, envelope, encryptions,
                       deposited, requoted, failure, shot, ends, counts>>
    BY DEF Announced
  <1>2. StampTypes' /\ PacketTypes' /\ EnvelopeTypes'
    BY <1>1 DEF SendInv, Typed, StampTypes, PacketTypes, EnvelopeTypes, stamps, packets
  <1> QED
    BY <1>1, <1>2, IdleKeeps DEF stamps, packets

LEMMA RetryDueKeeps ==
    ASSUME SendInv, NEW m \in Messages, RetryDue(m)
    PROVE  SendInv'
  <1>1. /\ phase = "retry" /\ flight[m] # None /\ pending' = Append(pending, New(m, flight[m]))
        /\ flight' = [flight EXCEPT ![m] = None] /\ Typed
        /\ UNCHANGED <<phase, method, at, left, seen, stamps, proofs, links, envelopes, failure, shot,
                       ends, counts>>
    BY DEF RetryDue, SendInv
  <1>2. flight[m] \in Attempts /\ pending \in Seq(Entry)
    BY <1>1 DEF Typed, PacketTypes, QueueTypes
  <1>3. AppendOf(pending, m, flight[m], pending')
    BY <1>1 DEF AppendOf
  <1>4. /\ pending' \in Seq(Entry) /\ Len(pending') = Len(pending) + 1
        /\ \A x : Has(pending', x) <=> Has(pending, x) \/ x = m
        /\ \A x : Once(pending, x) /\ (x # m \/ ~Has(pending, x)) => Once(pending', x)
    BY <1>2, <1>3, AppendedEntry
  <1>5. QueueTypes' /\ Visiting'
    BY <1>1, <1>4 DEF SendInv, Typed, QueueTypes, Visiting
  <1>6. LoopTypes' /\ StampTypes' /\ PacketTypes' /\ LinkTypes' /\ EnvelopeTypes' /\ EndTypes'
    BY <1>1 DEF Typed, LoopTypes, StampTypes, PacketTypes, LinkTypes, EnvelopeTypes,
                EndTypes, stamps, envelopes, ends, counts
  <1>7. Others(m)
    BY <1>1, <1>4 DEF Others, Typed, PacketTypes, stamps, ends
  <1>8. ASSUME m \notin stray' PROVE OwnedNow(m)'
    <2>1. OwnedNow(m)
      BY <1>1, <1>8 DEF SendInv, ends
    <2>2. ~Has(pending, m) /\ Once(pending, m) /\ m \notin deferred /\ ~Copied(links, m) /\ outcome[m] = "open"
      BY <1>1, <2>1 DEF OwnedNow, Owned
    <2>3. flight'[m] = None /\ deferred' = deferred /\ links' = links /\ outcome' = outcome
      BY <1>1 DEF Typed, PacketTypes, stamps, ends
    <2> QED
      BY <1>4, <2>2, <2>3 DEF OwnedNow, Owned, Single, Copied
  <1> QED
    BY <1>1, <1>5, <1>6, <1>7, <1>8, Close DEF Typed

LEMMA DrainProofsKeeps ==
    ASSUME SendInv, DrainProofs
    PROVE  SendInv'
  <1> DEFINE proved == {x \in proofs : flight[x] # None}
  <1>1. /\ phase = "idle" /\ phase' = "retry" /\ proofs' = {} /\ Typed
        /\ flight' = [x \in Messages |-> IF x \in proved THEN None ELSE flight[x]]
        /\ outcome' = [x \in Messages |-> IF x \in proved /\ outcome[x] = "open" THEN "delivered" ELSE outcome[x]]
        /\ UNCHANGED <<method, queue, stamps, links, envelopes, failure, shot, stray, counts>>
    BY DEF DrainProofs, SendInv
  <1>2. LoopTypes' /\ QueueTypes' /\ StampTypes' /\ LinkTypes' /\ EnvelopeTypes'
    BY <1>1 DEF Typed, LoopTypes, QueueTypes, StampTypes, LinkTypes, EnvelopeTypes,
                queue, stamps, envelopes, counts
  <1>3. PacketTypes' /\ EndTypes'
    BY <1>1 DEF Typed, PacketTypes, EndTypes, Outcomes
  <1>4. Visiting'
    BY <1>1 DEF SendInv, Visiting, queue
  <1>5. ASSUME NEW x \in Messages, x \notin stray' PROVE OwnedNow(x)'
    <2>1. OwnedNow(x)
      BY <1>1, <1>5 DEF SendInv
    <2>2. pending' = pending /\ deferred' = deferred /\ links' = links /\ method' = method
      BY <1>1 DEF queue, stamps
    <2>3. CASE x \in proved
      <3>1. flight[x] # None /\ flight'[x] = None /\ outcome'[x] # "open"
        BY <1>1, <2>3
      <3>2. Once(pending, x) /\ ~Has(pending, x) /\ x \notin deferred /\ ~Copied(links, x)
        BY <2>1, <3>1 DEF OwnedNow, Owned
      <3> QED
        BY <2>2, <3>1, <3>2 DEF OwnedNow, Owned, Single, Copied
    <2>4. CASE x \notin proved
      <3>1. flight'[x] = flight[x] /\ outcome'[x] = outcome[x]
        BY <1>1, <2>4
      <3> QED
        BY <2>1, <2>2, <3>1 DEF OwnedNow
    <2> QED
      BY <2>3, <2>4
  <1> QED
    BY <1>2, <1>3, <1>4, <1>5 DEF SendInv, Typed

LEMMA SubmitKeeps ==
    ASSUME SendInv, NEW m \in Messages, Submit(m)
    PROVE  SendInv'
  <1>1. /\ phase = "idle" /\ outcome[m] # "open" /\ m \notin deferred /\ Queued(m) = {} /\ Typed
        /\ shot \in {"daemon", "ready"}
        /\ Defer(m) \/ TrySend(m)
        /\ outcome' = [outcome EXCEPT ![m] = "open"]
        /\ submits' = submits + 1 /\ sent' = sent \ {m}
        /\ deposited' = [deposited EXCEPT ![m] = {}] /\ requoted' = requoted \ {m}
        /\ shot' = IF shot = "ready" THEN "draining" ELSE shot
        /\ UNCHANGED <<phase, method, at, left, seen, packets, links, worker, envelope, key, cost,
                       encryptions, failure, stray>>
    BY DEF Submit, SendInv
  <1>2. ~Has(pending, m)
    BY <1>1 DEF Queued, Has
  <1>3. LoopTypes' /\ PacketTypes' /\ LinkTypes' /\ EndTypes'
    BY <1>1 DEF Typed, LoopTypes, PacketTypes, LinkTypes, EndTypes, Outcomes, packets
  <1>4. EnvelopeTypes'
    BY <1>1 DEF Typed, EnvelopeTypes
  <1>5. pending \in Seq(Entry) /\ 0 \in Attempts /\ at = 1 /\ Len(pending) \in Nat
    BY <1>1, OutboundAssumption DEF Typed, QueueTypes, Attempts, SendInv, Visiting
  <1>6. ASSUME m \notin stray' PROVE /\ Once(pending, m) /\ flight[m] = None /\ ~Copied(links, m)
    <2>1. OwnedNow(m)
      BY <1>1, <1>6 DEF SendInv
    <2> QED
      BY <1>1, <2>1 DEF OwnedNow, Owned
  <1>7. CASE Defer(m)
    <2>1. /\ deferred' = deferred \cup {m} /\ order' = Append(Without(order, m), m)
          /\ since' = [since EXCEPT ![m] = submits + 1] /\ UNCHANGED <<job, search, pending>>
      BY <1>7 DEF Defer
    <2>2. order' \in Seq(Messages)
      <3> DEFINE found == {i \in DOMAIN order : order[i] = m}
      <3>1. order \in Seq(Messages) /\ found \in SUBSET Nat
        BY <1>1 DEF Typed, StampTypes
      <3>2. CASE found = {}
        BY <2>1, <3>1, <3>2 DEF Without
      <3>3. CASE found # {}
        <4>1. Min(found) \in DOMAIN order
          BY <3>1, <3>3, MinIs
        <4>2. RemoveAt(order, Min(found)) \in Seq(Messages)
          BY <3>1, <4>1, Removed
        <4> QED
          BY <2>1, <3>3, <4>2 DEF Without
      <3> QED
        BY <3>2, <3>3
    <2>3. StampTypes'
      BY <1>1, <2>1, <2>2 DEF Typed, StampTypes, LoopTypes
    <2>4. QueueTypes' /\ Visiting'
      BY <1>1, <1>5, <2>1 DEF Typed, QueueTypes, Visiting
    <2>5. Others(m)
      BY <1>1, <2>1 DEF Others, packets, Typed, EndTypes
    <2>6. ASSUME m \notin stray' PROVE OwnedNow(m)'
      <3>1. outcome'[m] = "open" /\ flight' = flight /\ links' = links
        BY <1>1 DEF packets, Typed, EndTypes
      <3> QED
        BY <1>2, <1>6, <2>1, <2>6, <3>1 DEF OwnedNow, Owned, Single, Copied
    <2> QED
      BY <1>1, <1>3, <1>4, <2>3, <2>4, <2>5, <2>6, Close DEF Typed
  <1>8. CASE TrySend(m)
    <2>1. AppendOf(pending, m, 0, pending') /\ UNCHANGED stamps
      BY <1>8 DEF TrySend, AppendOf
    <2>2. /\ pending' \in Seq(Entry) /\ Len(pending') = Len(pending) + 1
          /\ \A x : Has(pending', x) <=> Has(pending, x) \/ x = m
          /\ \A x : Once(pending, x) /\ (x # m \/ ~Has(pending, x)) => Once(pending', x)
      BY <1>5, <2>1, AppendedEntry
    <2>3. StampTypes'
      BY <1>1, <2>1 DEF Typed, StampTypes, stamps
    <2>4. QueueTypes' /\ Visiting'
      BY <1>1, <1>5, <2>2 DEF Typed, QueueTypes, Visiting
    <2>5. Others(m)
      BY <1>1, <2>1, <2>2 DEF Others, packets, Typed, EndTypes, stamps
    <2>6. ASSUME m \notin stray' PROVE OwnedNow(m)'
      <3>1. outcome'[m] = "open" /\ flight' = flight /\ links' = links /\ deferred' = deferred
        BY <1>1, <2>1 DEF packets, Typed, EndTypes, stamps
      <3> QED
        BY <1>1, <1>2, <1>6, <2>2, <2>6, <3>1 DEF OwnedNow, Owned, Single, Copied
    <2> QED
      BY <1>1, <1>3, <1>4, <2>3, <2>4, <2>5, <2>6, Close DEF Typed
  <1> QED
    BY <1>1, <1>7, <1>8

LEMMA CancelKeeps ==
    ASSUME SendInv, NEW m \in Messages, Cancel(m)
    PROVE  SendInv'
  <1>1. /\ phase = "idle" /\ outcome[m] = "open" /\ Typed
        /\ CancelQueued(m) \/ CancelDeferred(m)
        /\ \/ CopiesOf(m) = {} /\ links' = links
           \/ \E c \in CopiesOf(m) : links' = links \ {c}
        /\ Ended(m, "cancelled", links')
        /\ UNCHANGED <<phase, method, at, left, seen, packets, envelopes, failure, shot, counts>>
    BY DEF Cancel, SendInv
  <1>2. /\ LinkTypes' /\ \A c : c.msg # m => ((c \in links') <=> (c \in links))
    BY <1>1 DEF Typed, LinkTypes, CopiesOf
  <1>3. /\ EndTypes' /\ outcome'[m] # "open"
        /\ \A x \in Messages : x # m => outcome'[x] = outcome[x]
        /\ \A x \in stray : x \in stray'
        /\ Copied(links', m) => m \in stray'
    BY <1>1, EndedIs DEF Typed, Outcomes
  <1>4. LoopTypes' /\ PacketTypes' /\ EnvelopeTypes'
    BY <1>1 DEF Typed, LoopTypes, PacketTypes, EnvelopeTypes, packets, envelopes, counts
  <1>5. pending \in Seq(Entry) /\ at = 1 /\ Len(pending) \in Nat
    BY <1>1 DEF Typed, QueueTypes, SendInv, Visiting
  <1>6. ASSUME m \notin stray' PROVE /\ OwnedNow(m) /\ ~Copied(links', m) /\ flight' = flight
    BY <1>1, <1>3, <1>6 DEF SendInv, packets
  <1>7. CASE CancelQueued(m)
    <2>1. PICK i \in DOMAIN pending : pending[i].msg = m /\ pending' = RemoveAt(pending, i) /\ UNCHANGED stamps
      BY <1>7 DEF CancelQueued, Queued
    <2>2. /\ pending' \in Seq(Entry) /\ Len(pending') = Len(pending) - 1
          /\ \A x : x # m => (Has(pending', x) <=> Has(pending, x))
          /\ \A x : Once(pending, x) => Once(pending', x)
          /\ Once(pending, m) => ~Has(pending', m)
      BY <1>5, <2>1, RemovedEntry
    <2>3. StampTypes' /\ QueueTypes' /\ Visiting'
      <3>1. Len(pending) - 1 \in Nat
        BY <2>1, <1>5
      <3> QED
        BY <1>1, <1>5, <2>1, <2>2, <3>1 DEF Typed, QueueTypes, Visiting, StampTypes, stamps
    <2>4. Others(m)
      BY <1>1, <1>2, <1>3, <2>1, <2>2 DEF Others, packets, stamps
    <2>5. ASSUME m \notin stray' PROVE OwnedNow(m)'
      <3>1. Once(pending, m) /\ Has(pending, m) /\ m \notin deferred /\ flight[m] = None
        BY <1>6, <2>1, <2>5 DEF OwnedNow, Owned, Has
      <3>2. m \notin deferred'
        BY <2>1, <3>1 DEF stamps
      <3> QED
        BY <1>3, <1>6, <2>2, <2>5, <3>1, <3>2 DEF OwnedNow, Owned, Single, Copied
    <2> QED
      BY <1>1, <1>2, <1>3, <1>4, <2>3, <2>4, <2>5, Close DEF Typed
  <1>8. CASE CancelDeferred(m)
    <2>1. /\ Queued(m) = {} /\ m \in deferred /\ deferred' = deferred \ {m}
          /\ since' = [since EXCEPT ![m] = 0] /\ UNCHANGED <<pending, order>>
          /\ job' \in {job, None} /\ search' \in {search, None}
      BY <1>8 DEF CancelDeferred
    <2>2. StampTypes' /\ QueueTypes' /\ Visiting'
      BY <1>1, <1>5, <2>1 DEF Typed, QueueTypes, Visiting, StampTypes
    <2>3. Others(m)
      BY <1>1, <1>2, <1>3, <2>1 DEF Others, packets
    <2>4. ASSUME m \notin stray' PROVE OwnedNow(m)'
      <3>1. ~Has(pending, m) /\ Once(pending, m) /\ flight[m] = None
        BY <1>6, <2>1, <2>4 DEF OwnedNow, Owned
      <3> QED
        BY <1>3, <1>6, <2>1, <2>4, <3>1 DEF OwnedNow, Owned, Single, Copied
    <2> QED
      BY <1>1, <1>2, <1>3, <1>4, <2>2, <2>3, <2>4, Close DEF Typed
  <1> QED
    BY <1>1, <1>7, <1>8

(* The order of deferral after a poll.                                      *)
LEMMA OrderTypes ==
    ASSUME StampTypes
    PROVE  /\ LiveAt \in SUBSET Nat /\ LiveAt \subseteq DOMAIN order
           /\ LiveAt # {} => Min(LiveAt) \in LiveAt /\ \A i \in LiveAt : Min(LiveAt) <= i
           /\ Oldest \in Messages \cup {None}
           /\ DropStale \in Seq(Messages)
           /\ LiveAt # {} =>
                /\ Len(DropStale) = Len(order) - Min(LiveAt) + 1
                /\ \A i \in DOMAIN DropStale : DropStale[i] = order[Min(LiveAt) + i - 1]
  <1>1. order \in Seq(Messages) /\ LiveAt \in SUBSET Nat /\ LiveAt \subseteq DOMAIN order
    BY DEF StampTypes, LiveAt
  <1>2. LiveAt # {} => Min(LiveAt) \in LiveAt /\ \A i \in LiveAt : Min(LiveAt) <= i
    BY <1>1, MinIs
  <1>4. CASE LiveAt = {}
    BY <1>1, <1>2, <1>4 DEF DropStale, Oldest
  <1>5. CASE LiveAt # {}
    <2> DEFINE k == Min(LiveAt)
    <2> HIDE DEF k
    <2>0. k \in LiveAt
      BY <1>2, <1>5 DEF k
    <2>8. k \in DOMAIN order
      BY <1>1, <2>0
    <2>1. k \in DOMAIN order /\ k \in 1 .. Len(order)
      BY <1>1, <2>8
    <2>6. Oldest = order[k]
      BY <1>5 DEF Oldest, k
    <2>7. Oldest \in Messages
      BY <1>1, <2>1, <2>6
    <2>2. DropStale = SubSeq(order, k, Len(order))
      BY <1>5 DEF DropStale, k
    <2>3. /\ SubSeq(order, k, Len(order)) \in Seq(Messages)
          /\ Len(SubSeq(order, k, Len(order))) = Len(order) - k + 1
          /\ \A i \in 1 .. Len(order) - k + 1 : SubSeq(order, k, Len(order))[i] = order[k + i - 1]
      BY <1>1, <2>1, SubSeqProperties
    <2>4. DropStale \in Seq(Messages) /\ Len(DropStale) = Len(order) - k + 1
      BY <2>2, <2>3
    <2>5. \A i \in DOMAIN DropStale : DropStale[i] = order[k + i - 1]
      BY <2>2, <2>3, <2>4
    <2> QED
      BY <1>1, <1>2, <1>5, <2>1, <2>4, <2>5, <2>7 DEF k
  <1> QED
    BY <1>4, <1>5

(* What a poll does to the message whose search has ended.                  *)
LEMMA PolledIs ==
    ASSUME StampTypes
    PROVE  /\ Polled("found") \subseteq {job} \cap deferred /\ Polled("dead") \subseteq {job} \cap deferred
           /\ Polled("found") = {} \/ Polled("dead") = {}
           /\ Polled("found") # {} => Polled("found") = {job} /\ job \in Messages /\ search = "found"
           /\ Polled("dead") # {} => Polled("dead") = {job} /\ job \in Messages /\ search = "dead"
  BY DEF StampTypes, Polled

LEMMA ProcessStampsKeeps ==
    ASSUME SendInv, ProcessStamps
    PROVE  SendInv'
  <1>1. /\ phase = "retry" /\ phase' = "outbound" /\ Typed /\ StampTypes
        /\ deferred' = Waiting
        /\ since' = [x \in Messages |-> IF x \in Waiting THEN since[x] ELSE 0]
        /\ pending' = IF Polled("found") = {} THEN pending ELSE Append(pending, New(job, 0))
        /\ \/ UNCHANGED <<order, job, search>>
           \/ order' = DropStale /\ job' = Oldest /\ search' = None
        /\ outcome' = [x \in Messages |-> IF x \in Polled("dead") THEN "dropped" ELSE outcome[x]]
        /\ at' = 1 /\ left' = Len(pending') /\ seen' \in LinkSeen
        /\ UNCHANGED <<method, packets, links, envelopes, failure, shot, stray, counts>>
    BY DEF ProcessStamps, SendInv, Typed
  <1>2. Waiting = deferred \ (Polled("found") \cup Polled("dead"))
    BY DEF Waiting
  <1>3. pending \in Seq(Entry) /\ 0 \in Attempts
    BY <1>1, OutboundAssumption DEF Typed, QueueTypes, Attempts
  <1>4. /\ pending' \in Seq(Entry)
        /\ \A x : Has(pending', x) <=> Has(pending, x) \/ x \in Polled("found")
        /\ \A x : Once(pending, x) /\ (x \notin Polled("found") \/ ~Has(pending, x)) => Once(pending', x)
    <2>1. CASE Polled("found") = {}
      BY <1>1, <1>3, <2>1
    <2>2. CASE Polled("found") # {}
      <3>1. Polled("found") = {job} /\ job \in Messages
        BY <1>1, <2>2, PolledIs
      <3>2. AppendOf(pending, job, 0, pending')
        BY <1>1, <2>2 DEF AppendOf
      <3>3. /\ pending' \in Seq(Entry)
            /\ \A x : Has(pending', x) <=> Has(pending, x) \/ x = job
            /\ \A x : Once(pending, x) /\ (x # job \/ ~Has(pending, x)) => Once(pending', x)
        BY <1>3, <3>1, <3>2, AppendedEntry
      <3> QED
        BY <3>1, <3>3
    <2> QED
      BY <2>1, <2>2
  <1>5. QueueTypes' /\ Visiting'
    BY <1>1, <1>4 DEF QueueTypes, Visiting
  <1>6. StampTypes'
    BY <1>1, <1>2, OrderTypes DEF StampTypes
  <1>7. LoopTypes' /\ PacketTypes' /\ LinkTypes' /\ EnvelopeTypes'
    BY <1>1 DEF Typed, LoopTypes, PacketTypes, LinkTypes, EnvelopeTypes, LinkSeen, packets, envelopes, counts
  <1>8. EndTypes'
    BY <1>1 DEF Typed, EndTypes, Outcomes
  <1>9. ASSUME NEW x \in Messages, x \notin stray' PROVE OwnedNow(x)'
    <2>1. OwnedNow(x)
      BY <1>1, <1>9 DEF SendInv
    <2>2. flight' = flight /\ links' = links /\ method' = method
      BY <1>1 DEF packets
    <2>3. CASE x \in Polled("found")
      <3>1. x \in deferred /\ x \notin Polled("dead") /\ x \notin deferred'
        BY <1>1, <1>2, <2>3, PolledIs
      <3>2. outcome'[x] = outcome[x] /\ Has(pending', x)
        BY <1>1, <1>4, <2>3, <3>1
      <3>3. Once(pending, x) /\ ~Has(pending, x) /\ flight[x] = None /\ ~Copied(links, x) /\ outcome[x] = "open"
        BY <2>1, <3>1 DEF OwnedNow, Owned
      <3> QED
        BY <1>4, <2>2, <3>1, <3>2, <3>3 DEF OwnedNow, Owned, Single, Copied
    <2>4. CASE x \in Polled("dead")
      <3>1. x \in deferred /\ x \notin Polled("found") /\ x \notin deferred'
        BY <1>1, <1>2, <2>4, PolledIs
      <3>2. outcome'[x] = "dropped" /\ (Has(pending', x) <=> Has(pending, x)) /\ (Once(pending, x) => Once(pending', x))
        BY <1>1, <1>4, <2>4, <3>1
      <3>3. Once(pending, x) /\ ~Has(pending, x) /\ flight[x] = None /\ ~Copied(links, x)
        BY <2>1, <3>1 DEF OwnedNow, Owned
      <3> QED
        BY <2>2, <3>1, <3>2, <3>3 DEF OwnedNow, Owned, Single, Copied
    <2>5. CASE x \notin Polled("found") \cup Polled("dead")
      <3>1. outcome'[x] = outcome[x] /\ (Has(pending', x) <=> Has(pending, x)) /\ (Once(pending, x) => Once(pending', x))
        BY <1>1, <1>4, <2>5
      <3>2. (x \in deferred') <=> (x \in deferred)
        BY <1>1, <1>2, <2>5
      <3> QED
        BY <2>1, <2>2, <3>1, <3>2 DEF OwnedNow, Owned
    <2> QED
      BY <2>3, <2>4, <2>5
  <1> QED
    BY <1>5, <1>6, <1>7, <1>8, <1>9 DEF SendInv, Typed

-----------------------------------------------------------------------------
LEMMA InitSend == Init => SendInv
  <1>1. ASSUME Init PROVE Typed
    <2>4. LoopTypes
      BY <1>1 DEF Init, LoopTypes
    <2>5. pending = <<>> /\ at = 1 /\ left = 0
      BY <1>1 DEF Init
    <2>6. pending \in Seq(Entry) /\ Len(pending) = 0
      BY <2>5
    <2>1. LoopTypes /\ QueueTypes
      BY <2>4, <2>5, <2>6 DEF QueueTypes
    <2>2. StampTypes /\ PacketTypes /\ LinkTypes
      BY <1>1 DEF Init, StampTypes, PacketTypes, LinkTypes
    <2>3. EnvelopeTypes /\ EndTypes
      BY <1>1 DEF Init, EnvelopeTypes, EndTypes, Outcomes
    <2> QED
      BY <2>1, <2>2, <2>3 DEF Typed
  <1>2. ASSUME Init PROVE Visiting
    BY <1>2 DEF Init, Visiting
  <1>3. ASSUME Init, NEW m \in Messages PROVE OwnedNow(m)
    BY <1>3 DEF Init, OwnedNow, Owned, Once, Has, Copied, Single
  <1> QED
    BY <1>1, <1>2, <1>3 DEF SendInv

LEMMA SendSame ==
    ASSUME SendInv, UNCHANGED vars
    PROVE  SendInv'
  BY DEF SendInv, vars, queue, stamps, packets, envelopes, ends, counts, Typed, LoopTypes, QueueTypes, StampTypes, PacketTypes,
         LinkTypes, EnvelopeTypes, EndTypes, Visiting, OwnedNow

LEMMA SendStep == SendInv /\ [Next]_vars => SendInv'
  <1>1. ASSUME SendInv, NEW m \in Messages, NEW a \in Attempts, Visit(m, a) PROVE SendInv'
    BY <1>1, GivesUpKeeps, NotDueKeeps, DirectKeeps, PacketKeeps, LargePacketKeeps, PropagatedKeeps DEF Visit
  <1>2. ASSUME SendInv, Tick PROVE SendInv'
    BY <1>1, <1>2, DrainProofsKeeps, ProcessStampsKeeps, EndOutboundKeeps, EndTickKeeps,
       LinkCompleteKeeps, LinkRefusedKeeps, LinkFailedKeeps DEF Tick
  <1>3. ASSUME SendInv, Next PROVE SendInv'
    BY <1>2, <1>3, AnnouncedKeeps, SendSame, SubmitKeeps, CancelKeeps, RetryDueKeeps, ProofArrivesKeeps,
       WorkerEndsKeeps, SearchEndsKeeps DEF Next, Over
  <1> QED
    BY <1>3, SendSame

LEMMA SendAlways == Spec => []SendInv
  BY InitSend, SendStep, PTL DEF Spec

(* The queue, the Links and the history have the types the module gives.    *)
THEOREM SendTypes == Spec => []TypeOK
  <1>1. SendInv => TypeOK
    BY TypesSplit DEF SendInv
  <1> QED
    BY <1>1, SendAlways, PTL

LEMMA AtMostOne ==
    ASSUME NEW S, \A x, y \in S : x = y
    PROVE  Cardinality(S) = IF S = {} THEN 0 ELSE 1
  <1>1. CASE S = {}
    BY <1>1, FS_EmptySet
  <1>2. CASE S # {}
    <2>1. PICK x \in S : TRUE
      BY <1>2
    <2>2. S = {x}
      BY <2>1
    <2>3. Cardinality({x}) = 1
      BY FS_Singleton
    <2> QED
      BY <1>2, <2>2, <2>3
  <1> QED
    BY <1>1, <1>2

(* One owner: a message that is not over is in one place, and one that is   *)
(* over is in none, whatever the attempts, copies and submissions           *)
(* (submit_signed, process_outbound_with_direct, execute_encrypted_actions  *)
(* and handle_link_delivery_result).                                        *)
THEOREM MessagesHaveOneOwner == Spec => []OneOwner
  <1>1. ASSUME SendInv, NEW m \in Messages, m \notin stray
        PROVE  /\ Places(m) = IF outcome[m] = "open" THEN 1 ELSE 0
               /\ outcome[m] # "open" => CopiesOf(m) = {}
    <2>1. Owned(pending, links, m \in deferred, flight[m] # None, outcome[m] = "open",
                method[m] = "Direct", m)
      BY <1>1 DEF SendInv, OwnedNow
    <2>2. \A i, j \in Queued(m) : i = j
      BY <2>1 DEF Owned, Once, Queued
    <2>3. Cardinality(Queued(m)) = IF Has(pending, m) THEN 1 ELSE 0
      <3>1. Has(pending, m) <=> Queued(m) # {}
        BY DEF Has, Queued
      <3> QED
        BY <2>2, <3>1, AtMostOne
    <2>4. method[m] # "Direct" => Cardinality(CopiesOf(m)) = IF Copied(links, m) THEN 1 ELSE 0
      <3>1. Copied(links, m) <=> CopiesOf(m) # {}
        BY DEF Copied, CopiesOf
      <3>2. ASSUME method[m] # "Direct" PROVE \A c, d \in CopiesOf(m) : c = d
        BY <2>1, <3>2 DEF Owned, Single, CopiesOf
      <3> QED
        BY <3>1, <3>2, AtMostOne
    <2>5. outcome[m] # "open" => CopiesOf(m) = {}
      BY <2>1 DEF Owned, Copied, CopiesOf
    <2> DEFINE has == Has(pending, m)
               copied == Copied(links, m)
    <2>6. /\ m \in deferred => ~has /\ flight[m] = None /\ ~copied
          /\ has => flight[m] = None /\ (method[m] = "Direct" \/ ~copied)
          /\ flight[m] # None => ~copied
          /\ method[m] = "Direct" /\ copied => has
          /\ (outcome[m] = "open") <=> (m \in deferred \/ has \/ flight[m] # None \/ copied)
      BY <2>1 DEF Owned
    <2>7. Cardinality(Queued(m)) = IF has THEN 1 ELSE 0
      BY <2>3
    <2>8. method[m] # "Direct" => Cardinality(CopiesOf(m)) = IF copied THEN 1 ELSE 0
      BY <2>4
    <2> HIDE DEF has, copied
    <2>9. Places(m) = IF outcome[m] = "open" THEN 1 ELSE 0
      BY <2>6, <2>7, <2>8 DEF Places
    <2> QED
      BY <2>5, <2>9
  <1>2. SendInv => OneOwner
    BY <1>1 DEF OneOwner
  <1> QED
    BY <1>2, SendAlways, PTL

-----------------------------------------------------------------------------
(* The order of deferral.                                                   *)

Distinct(s) == \A i, j \in DOMAIN s : s[i] = s[j] => i = j
In(s, m) == \E i \in DOMAIN s : s[i] = m
Sorted(s, D, f) == \A i, j \in DOMAIN s : i < j /\ s[i] \in D /\ s[j] \in D => f[s[i]] <= f[s[j]]

(* q holds elements of s in the order in which s holds them.                *)
Within(q, s) ==
    \A i, j \in DOMAIN q : i < j =>
        \E k, l \in DOMAIN s : k < l /\ q[i] = s[k] /\ q[j] = s[l]

LEMMA WithoutIs ==
    ASSUME NEW s \in Seq(Messages), Distinct(s), NEW m, NEW q, q = Without(s, m)
    PROVE  /\ q \in Seq(Messages) /\ Distinct(q) /\ Within(q, s)
           /\ \A x : In(q, x) <=> In(s, x) /\ x # m
  <1> DEFINE found == {i \in DOMAIN s : s[i] = m}
  <1>1. found \in SUBSET Nat /\ DOMAIN s = 1 .. Len(s) /\ Len(s) \in Nat
    OBVIOUS
  <1>2. CASE found = {}
    <2>1. q = s
      BY <1>2 DEF Without
    <2> QED
      BY <2>1, <1>2 DEF Within, In
  <1>3. CASE found # {}
    <2> DEFINE k == Min(found)
    <2>1. k \in found
      BY <1>1, <1>3, MinIs
    <2>2. q = RemoveAt(s, k)
      BY <1>3 DEF Without
    <2> HIDE DEF k
    <2>3. k \in DOMAIN s /\ s[k] = m /\ k \in 1 .. Len(s)
      BY <2>1, <1>1
    <2>4. /\ q \in Seq(Messages) /\ Len(q) = Len(s) - 1 /\ DOMAIN q = 1 .. Len(s) - 1
          /\ \A j \in DOMAIN q : q[j] = IF j < k THEN s[j] ELSE s[j + 1]
      BY SMTT(30), <2>2, <2>3, Removed
    <2> DEFINE from == [j \in DOMAIN q |-> IF j < k THEN j ELSE j + 1]
    <2>5. \A j \in DOMAIN q : from[j] \in DOMAIN s /\ from[j] # k /\ q[j] = s[from[j]]
      BY <2>3, <2>4, <1>1
    <2>6. \A i, j \in DOMAIN q : i < j => from[i] < from[j]
      BY <2>3, <2>4, <1>1
    <2>7. \A l \in DOMAIN s : l # k => \E j \in DOMAIN q : from[j] = l
      <3>1. ASSUME NEW l \in DOMAIN s, l # k PROVE \E j \in DOMAIN q : from[j] = l
        <4>1. CASE l < k
          <5>1. l \in DOMAIN q /\ from[l] = l
            BY <4>1, <2>3, <2>4, <1>1
          <5> QED
            BY <5>1
        <4>2. CASE l > k
          <5>1. l - 1 \in DOMAIN q /\ from[l - 1] = l
            BY <4>2, <2>3, <2>4, <1>1
          <5> QED
            BY <5>1
        <4> QED
          BY <3>1, <4>1, <4>2, <2>3, <1>1
      <3> QED
        BY <3>1
    <2>8. DOMAIN q \subseteq Nat /\ DOMAIN s \subseteq Nat
      BY <2>4, <1>1
    <2>9. \A i, j \in DOMAIN q : from[i] = from[j] => i = j
      BY <2>3, <2>4, <1>1
    <2> HIDE DEF from
    <2>10. Distinct(q)
      BY <2>5, <2>9 DEF Distinct
    <2>11. Within(q, s)
      BY <2>5, <2>6 DEF Within
    <2>12. ASSUME NEW x PROVE In(q, x) <=> In(s, x) /\ x # m
      <3>1. In(q, x) => In(s, x) /\ x # m
        BY <2>3, <2>5 DEF In, Distinct
      <3>2. In(s, x) /\ x # m => In(q, x)
        BY <2>3, <2>5, <2>7 DEF In
      <3> QED
        BY <3>1, <3>2
    <2> QED
      BY <2>4, <2>10, <2>11, <2>12
  <1> QED
    BY <1>2, <1>3

LEMMA WithinSorted ==
    ASSUME NEW s, NEW q, NEW D, NEW E, NEW f, NEW g, Within(q, s), Sorted(s, D, f),
           \A x \in E : In(q, x) => x \in D /\ g[x] = f[x]
    PROVE  Sorted(q, E, g)
  <1>1. ASSUME NEW i \in DOMAIN q, NEW j \in DOMAIN q, i < j, q[i] \in E, q[j] \in E
        PROVE  g[q[i]] <= g[q[j]]
    <2>1. PICK k, l \in DOMAIN s : k < l /\ q[i] = s[k] /\ q[j] = s[l]
      BY <1>1 DEF Within
    <2>2. q[i] \in D /\ q[j] \in D /\ g[q[i]] = f[q[i]] /\ g[q[j]] = f[q[j]]
      BY <1>1 DEF In
    <2> QED
      BY <2>1, <2>2 DEF Sorted
  <1> QED
    BY <1>1 DEF Sorted

StampInv ==
    /\ Distinct(order) /\ Sorted(order, deferred, since)
    /\ \A m \in deferred : In(order, m) /\ since[m] <= submits
    /\ job # None => job \in deferred /\ \A m \in deferred : since[job] <= since[m]

LEMMA StampSame ==
    ASSUME StampInv, UNCHANGED <<deferred, order, since, job, submits>>
    PROVE  StampInv'
  BY DEF StampInv, Distinct, Sorted, In

LEMMA DeferStamps ==
    ASSUME StampInv, SendInv, NEW m \in Messages, Defer(m), m \notin deferred, submits' = submits + 1
    PROVE  StampInv'
  <1> DEFINE q == Without(order, m)
  <1>1. /\ deferred' = deferred \cup {m} /\ order' = Append(q, m)
        /\ since' = [since EXCEPT ![m] = submits + 1] /\ job' = job
    BY DEF Defer
  <1>2. /\ order \in Seq(Messages) /\ since \in [Messages -> Nat] /\ submits \in Nat
        /\ deferred \subseteq Messages
    BY DEF SendInv, Typed, StampTypes, LoopTypes
  <1>3. /\ q \in Seq(Messages) /\ Distinct(q) /\ Within(q, order)
        /\ \A x : In(q, x) <=> In(order, x) /\ x # m
    BY <1>2, WithoutIs DEF StampInv
  <1> HIDE DEF q
  <1>4. /\ DOMAIN q = 1 .. Len(q) /\ Len(q) \in Nat /\ DOMAIN order' = 1 .. Len(q) + 1
        /\ order'[Len(q) + 1] = m /\ \A i \in DOMAIN q : order'[i] = q[i] /\ q[i] # m
    <2>1. \A i \in DOMAIN q : q[i] # m
      BY <1>3 DEF In
    <2> QED
      BY <1>1, <1>3, <2>1
  <1>5. since'[m] = submits + 1 /\ \A x \in deferred : since'[x] = since[x] /\ x # m /\ since[x] \in Nat
    BY <1>1, <1>2
  <1>6. \A i \in DOMAIN order' : i \in DOMAIN q \/ i = Len(q) + 1
    BY <1>4
  <1>7. Distinct(order')
    BY <1>3, <1>4, <1>6 DEF Distinct
  <1>8. \A x \in deferred' : In(order', x) /\ since'[x] <= submits'
    <2>1. ASSUME NEW x \in deferred' PROVE In(order', x) /\ since'[x] <= submits'
      <3>1. CASE x = m
        BY <3>1, <1>2, <1>4, <1>5 DEF In
      <3>2. CASE x # m
        <4>1. x \in deferred /\ In(q, x) /\ since[x] <= submits /\ since'[x] = since[x] /\ since[x] \in Nat
          BY <2>1, <3>2, <1>1, <1>3, <1>5 DEF StampInv
        <4>2. In(order', x)
          BY <4>1, <1>4 DEF In
        <4> QED
          BY <4>1, <4>2, <1>2
      <3> QED
        BY <3>1, <3>2
    <2> QED
      BY <2>1
  <1>9. Sorted(order', deferred', since')
    <2>1. Sorted(q, deferred, since')
      BY <1>3, <1>5, WithinSorted DEF StampInv
    <2>2. ASSUME NEW i \in DOMAIN order', NEW j \in DOMAIN order', i < j,
                 order'[i] \in deferred', order'[j] \in deferred'
          PROVE  since'[order'[i]] <= since'[order'[j]]
      <3>1. i \in DOMAIN q /\ order'[i] = q[i] /\ q[i] \in deferred
        BY <2>2, <1>1, <1>4, <1>6
      <3>2. CASE j = Len(q) + 1
        <4>1. order'[j] = m /\ since[q[i]] <= submits /\ since'[q[i]] = since[q[i]] /\ since[q[i]] \in Nat
          BY <3>1, <3>2, <1>4, <1>5 DEF StampInv
        <4> QED
          BY <3>1, <4>1, <1>2, <1>5
      <3>3. CASE j \in DOMAIN q
        <4>1. order'[j] = q[j] /\ q[j] \in deferred
          BY <2>2, <3>3, <1>1, <1>4
        <4> QED
          BY <2>1, <2>2, <3>1, <3>3, <4>1 DEF Sorted
      <3> QED
        BY <3>2, <3>3, <1>6
    <2> QED
      BY <2>2 DEF Sorted
  <1>10. job' # None => job' \in deferred' /\ \A x \in deferred' : since'[job'] <= since'[x]
    <2>1. ASSUME job # None, NEW x \in deferred' PROVE job \in deferred /\ since'[job] <= since'[x]
      <3>1. job \in deferred /\ \A y \in deferred : since[job] <= since[y]
        BY <2>1 DEF StampInv
      <3>2. since[job] <= submits /\ since[job] \in Nat /\ since'[job] = since[job]
        BY <3>1, <1>5 DEF StampInv
      <3>3. CASE x = m
        BY <3>1, <3>2, <3>3, <1>2, <1>5
      <3>4. CASE x # m
        BY <2>1, <3>1, <3>2, <3>4, <1>1, <1>5
      <3> QED
        BY <3>1, <3>3, <3>4
    <2>2. m \in deferred'
      BY <1>1
    <2> QED
      BY <1>1, <2>1, <2>2
  <1> QED
    BY <1>7, <1>8, <1>9, <1>10 DEF StampInv

LEMMA CancelStamps ==
    ASSUME StampInv, SendInv, NEW m \in Messages, CancelDeferred(m), submits' = submits
    PROVE  StampInv'
  <1>1. /\ deferred' = deferred \ {m} /\ since' = [since EXCEPT ![m] = 0] /\ order' = order
        /\ job' = IF job = m THEN None ELSE job
    BY DEF CancelDeferred
  <1>2. /\ order \in Seq(Messages) /\ since \in [Messages -> Nat] /\ deferred \subseteq Messages
    BY DEF SendInv, Typed, StampTypes
  <1>3. \A x \in deferred' : x \in deferred /\ since'[x] = since[x]
    BY <1>1, <1>2
  <1>4. Distinct(order') /\ Sorted(order', deferred', since')
    BY <1>1, <1>3 DEF StampInv, Sorted
  <1>5. \A x \in deferred' : In(order', x) /\ since'[x] <= submits'
    BY <1>1, <1>3 DEF StampInv
  <1>6. ASSUME job' # None
        PROVE  job' \in deferred' /\ \A x \in deferred' : since'[job'] <= since'[x]
    <2>1. job' = job /\ job # None /\ job # m
      BY <1>1, <1>6
    <2>2. job \in deferred /\ \A x \in deferred : since[job] <= since[x]
      BY <2>1 DEF StampInv
    <2>3. job' \in deferred'
      BY <1>1, <2>1, <2>2
    <2> QED
      BY <1>3, <2>1, <2>2, <2>3
  <1> QED
    BY <1>4, <1>5, <1>6 DEF StampInv

LEMMA PollStamps ==
    ASSUME StampInv, SendInv, ProcessStamps
    PROVE  StampInv'
  <1>1. /\ deferred' = Waiting /\ submits' = submits
        /\ since' = [x \in Messages |-> IF x \in Waiting THEN since[x] ELSE 0]
        /\ IF job # None /\ search = None THEN UNCHANGED <<order, job, search>>
           ELSE order' = DropStale /\ job' = Oldest /\ search' = None
    BY DEF ProcessStamps, counts
  <1>2. /\ StampTypes /\ order \in Seq(Messages) /\ since \in [Messages -> Nat]
        /\ deferred \subseteq Messages /\ Len(order) \in Nat /\ DOMAIN order = 1 .. Len(order)
    BY DEF SendInv, Typed, StampTypes
  <1>3. \A x \in Waiting : x \in deferred /\ x \in Messages /\ since'[x] = since[x]
    BY <1>1, <1>2 DEF Waiting
  <1>4. \A x \in Waiting : In(order, x) /\ since'[x] <= submits'
    BY <1>1, <1>3 DEF StampInv
  <1>5. CASE job # None /\ search = None
    <2>1. Waiting = deferred
      BY <1>5, NoneOutside DEF Waiting, Polled
    <2>2. order' = order /\ job' = job
      BY <1>1, <1>5
    <2>3. Sorted(order', deferred', since')
      BY <1>1, <1>3, <2>1, <2>2 DEF StampInv, Sorted
    <2>4. job \in deferred /\ \A x \in deferred : since'[job] <= since'[x]
      BY <1>3, <1>5, <2>1 DEF StampInv
    <2> QED
      BY <1>1, <1>4, <2>1, <2>2, <2>3, <2>4 DEF StampInv
  <1>6. CASE ~(job # None /\ search = None)
    <2>1. order' = DropStale /\ job' = Oldest
      BY <1>1, <1>6
    <2>2. CASE LiveAt = {}
      <3>1. Waiting = {}
        BY <1>4, <2>2 DEF LiveAt, In
      <3>2. order' = <<>> /\ job' = None
        BY <2>1, <2>2 DEF DropStale, Oldest
      <3> QED
        BY <1>1, <3>1, <3>2 DEF StampInv, Distinct, Sorted
    <2>3. CASE LiveAt # {}
      <3> DEFINE k == Min(LiveAt)
                 q == DropStale
      <3>1. /\ k \in LiveAt /\ (\A i \in LiveAt : k <= i) /\ LiveAt \subseteq DOMAIN order
            /\ q \in Seq(Messages) /\ Len(q) = Len(order) - k + 1
            /\ \A i \in DOMAIN q : q[i] = order[k + i - 1]
        BY <1>2, <2>3, OrderTypes
      <3>2. Oldest = order[k]
        BY <2>3 DEF Oldest
      <3> HIDE DEF k, q
      <3>3. k \in 1 .. Len(order) /\ DOMAIN q = 1 .. Len(order) - k + 1
        BY <1>2, <3>1
      <3>4. order' = q /\ job' = order[k]
        BY <2>1, <3>2 DEF q
      <3> DEFINE from == [i \in DOMAIN q |-> k + i - 1]
      <3>5. \A i \in DOMAIN q : from[i] \in DOMAIN order /\ q[i] = order[from[i]]
        BY SMTT(30), <1>2, <3>1, <3>3
      <3>6. /\ \A i, j \in DOMAIN q : i < j => from[i] < from[j]
            /\ \A i, j \in DOMAIN q : from[i] = from[j] => i = j
        BY SMTT(30), <3>3
      <3>7. \A i \in LiveAt : i - k + 1 \in DOMAIN q /\ from[i - k + 1] = i
        BY SMTT(30), <1>2, <3>1, <3>3
      <3> HIDE DEF from
      <3>8. Distinct(q)
        BY <3>5, <3>6 DEF StampInv, Distinct
      <3>9. Within(q, order)
        BY <3>5, <3>6 DEF Within
      <3>10. Sorted(q, Waiting, since')
        BY <1>3, <3>9, WithinSorted DEF StampInv
      <3>11. ASSUME NEW x \in Waiting PROVE In(q, x) /\ since[order[k]] <= since[x]
        <4>1. PICK i \in DOMAIN order : order[i] = x
          BY <1>4 DEF In
        <4>2. i \in LiveAt
          BY <4>1 DEF LiveAt
        <4>3. In(q, x)
          <5>1. i - k + 1 \in DOMAIN q /\ q[i - k + 1] = order[i]
            BY <4>2, <3>5, <3>7
          <5> QED
            BY <4>1, <5>1 DEF In
        <4>4. order[k] \in Waiting /\ k \in DOMAIN order /\ k <= i
          BY <4>2, <3>1 DEF LiveAt
        <4>5. CASE k = i
          <5>1. since[x] \in Nat /\ order[k] = x
            BY <4>1, <4>5, <1>2, <1>3
          <5> QED
            BY <4>3, <5>1
        <4>6. CASE k # i
          <5>1. k < i
            BY <4>1, <4>4, <4>6, <1>2
          <5>2. order[k] \in deferred /\ order[i] \in deferred
            BY <4>1, <4>4, <1>3
          <5> QED
            BY <4>1, <4>3, <4>4, <5>1, <5>2 DEF StampInv, Sorted
        <4> QED
          BY <4>3, <4>5, <4>6
      <3>12. order[k] \in Waiting
        BY <3>1 DEF LiveAt
      <3>13. job' \in deferred' /\ \A x \in deferred' : since'[job'] <= since'[x]
        BY <1>1, <1>3, <3>4, <3>11, <3>12
      <3> QED
        BY <1>1, <1>4, <3>4, <3>8, <3>10, <3>11, <3>13 DEF StampInv
    <2> QED
      BY <2>2, <2>3
  <1> QED
    BY <1>5, <1>6

LEMMA StampStep == SendInv /\ StampInv /\ [Next]_vars => StampInv'
  <1> SUFFICES ASSUME SendInv, StampInv, [Next]_vars PROVE StampInv'
    OBVIOUS
  <1>1. ASSUME NEW m \in Messages, Submit(m) PROVE StampInv'
    <2>1. Defer(m) \/ TrySend(m)
      BY <1>1 DEF Submit
    <2>2. m \notin deferred /\ submits' = submits + 1 /\ submits \in Nat
      BY <1>1 DEF Submit, SendInv, Typed, LoopTypes
    <2>3. CASE TrySend(m)
      <3>1. UNCHANGED <<deferred, order, job, since>>
        BY <2>3 DEF TrySend, stamps
      <3>2. \A x \in deferred : since[x] \in Nat
        BY DEF SendInv, Typed, StampTypes
      <3>3. \A x \in deferred : since[x] <= submits + 1
        BY <2>2, <3>2 DEF StampInv
      <3> QED
        BY <2>2, <3>1, <3>3 DEF StampInv, Distinct, Sorted, In
    <2> QED
      BY <2>1, <2>2, <2>3, DeferStamps
  <1>2. ASSUME NEW m \in Messages, Cancel(m) PROVE StampInv'
    <2>1. /\ CancelQueued(m) \/ CancelDeferred(m)
          /\ submits' = submits
      BY <1>2 DEF Cancel, counts
    <2>2. CASE CancelQueued(m)
      BY <2>1, <2>2, StampSame DEF CancelQueued, stamps
    <2> QED
      BY <2>1, <2>2, CancelStamps
  <1>3. ASSUME NEW m \in Messages, NEW a \in Attempts, Visit(m, a) PROVE StampInv'
    <2>1. Visits(m, a)
      BY <1>3 DEF Visit, GivesUp, NotDue, Direct, Packet, LargePacket, Propagated
    <2> QED
      BY <2>1, StampSame DEF Visits, stamps
  <1>4. ASSUME NEW c \in links, LinkComplete(c) \/ LinkRefused(c) \/ LinkFailed(c) PROVE StampInv'
    <2>1. Reports(c)
      BY <1>4 DEF LinkComplete, LinkRefused, LinkFailed
    <2> QED
      BY <2>1, StampSame DEF Reports, stamps, counts
  <1>5. ASSUME DrainProofs \/ EndOutbound \/ EndTick \/ Announced PROVE StampInv'
    BY <1>5, StampSame DEF DrainProofs, EndOutbound, EndTick, Announced, stamps, counts
  <1>6. ASSUME NEW m \in Messages, RetryDue(m) \/ ProofArrives(m) PROVE StampInv'
    BY <1>6, StampSame DEF RetryDue, ProofArrives, stamps, counts
  <1>7. ASSUME NEW m \in Messages, WorkerEnds(m, "ok") \/ WorkerEnds(m, "bad") PROVE StampInv'
    BY <1>7, StampSame DEF WorkerEnds, stamps, counts
  <1>8. ASSUME SearchEnds("found") \/ SearchEnds("dead") PROVE StampInv'
    BY <1>8, StampSame DEF SearchEnds, stamps, counts
  <1>9. ASSUME UNCHANGED vars PROVE StampInv'
    BY <1>9, StampSame DEF vars, stamps, counts
  <1>10. ASSUME Tick PROVE StampInv'
    BY <1>10, <1>3, <1>4, <1>5, PollStamps DEF Tick
  <1>11. ASSUME Next PROVE StampInv'
    BY <1>11, <1>1, <1>2, <1>5, <1>6, <1>7, <1>8, <1>9, <1>10 DEF Next, Over
  <1> QED
    BY <1>9, <1>11

(* Stamps are searched in the order of deferral, also after cancels and     *)
(* resubmissions (defer_stamp, next_deferred_stamp, poll_active_deferred_   *)
(* stamp): the message under way has waited at least as long as any other.  *)
THEOREM StampsStayInOrder == Spec => []StampsInOrder
  <1>1. Init => StampInv
    BY DEF Init, StampInv, Distinct, Sorted
  <1>2. SendInv /\ StampInv => StampsInOrder
    BY NoneOutside, OutboundAssumption DEF SendInv, Typed, StampTypes, StampInv, StampsInOrder
  <1> QED
    BY <1>1, <1>2, SendAlways, StampStep, PTL DEF Spec

-----------------------------------------------------------------------------
(* The ciphertext.  A message that is not over still has the ciphertext it  *)
(* was last deposited with, as long as the key is that of the deposit: in   *)
(* its envelope, or with the worker that prepares one.                      *)
StillHas(m, e) ==
    \/ envelope[m] # None /\ envelope[m].key = key /\ envelope[m].n = e.n
    \/ worker[m] # None /\ worker[m].key = key /\ worker[m].n = e.n

Cipher(m) ==
    /\ worker[m] # None => envelope[m] = None
    /\ \A e \in deposited[m] : e.key <= key
    /\ m \notin requoted \cup stray =>
         /\ \A e, f \in deposited[m] : e.key = f.key => e.n = f.n
         /\ outcome[m] = "open" => \A e \in deposited[m] : e.key = key => StillHas(m, e)

CipherInv == \A m \in Messages : Cipher(m)

Grows(m) == (m \in stray => m \in stray') /\ (outcome'[m] = "open" => outcome[m] = "open")

LEMMA CipherSame ==
    ASSUME NEW m \in Messages, Cipher(m), Grows(m), m \in requoted => m \in requoted', key' = key,
           worker'[m] = worker[m], envelope'[m] = envelope[m], deposited'[m] = deposited[m]
    PROVE  Cipher(m)'
  BY DEF Cipher, StillHas, Grows

LEMMA CipherForgotten ==
    ASSUME NEW m \in Messages, Cipher(m), Grows(m), requoted' = requoted, key' = key,
           worker'[m] = None, deposited'[m] = deposited[m], outcome'[m] # "open"
    PROVE  Cipher(m)'
  BY DEF Cipher, Grows

(* A step that has nothing to do with the ciphertexts.                      *)
LEMMA CipherUnmoved ==
    ASSUME CipherInv, UNCHANGED envelopes, \A m \in Messages : Grows(m)
    PROVE  CipherInv'
  <1>1. ASSUME NEW m \in Messages PROVE Cipher(m)'
    BY CipherSame DEF envelopes, CipherInv
  <1> QED
    BY <1>1 DEF CipherInv

(* A step about m alone.                                                    *)
LEMMA CipherOthers ==
    ASSUME CipherInv, NEW m \in Messages, key' = key, Cipher(m)',
           \A x \in Messages : x # m =>
               /\ Grows(x) /\ (x \in requoted => x \in requoted')
               /\ worker'[x] = worker[x] /\ envelope'[x] = envelope[x] /\ deposited'[x] = deposited[x]
    PROVE  CipherInv'
  <1>1. ASSUME NEW x \in Messages PROVE Cipher(x)'
    <2>1. CASE x # m
      BY <2>1, CipherSame DEF CipherInv
    <2> QED
      BY <2>1
  <1> QED
    BY <1>1 DEF CipherInv

(* The message ends, and its envelope goes.                                 *)
LEMMA CipherEnds ==
    ASSUME CipherInv, SendInv, NEW m \in Messages, Forgets(m), NEW how \in Outcomes \ {"open"}, NEW copies,
           Ended(m, how, copies)
    PROVE  CipherInv'
  <1>1. /\ worker' = [worker EXCEPT ![m] = None] /\ envelope' = [envelope EXCEPT ![m] = None]
        /\ UNCHANGED <<key, cost, encryptions, deposited, requoted>>
    BY DEF Forgets, Forget
  <1>2. EnvelopeTypes /\ EndTypes
    BY DEF SendInv, Typed
  <1>3. /\ outcome'[m] # "open"
        /\ \A x \in Messages : x # m => outcome'[x] = outcome[x]
        /\ \A x \in stray : x \in stray'
    BY <1>2, EndedIs
  <1>4. worker'[m] = None /\ Grows(m) /\ Cipher(m)
    BY <1>1, <1>2, <1>3 DEF EnvelopeTypes, Grows, CipherInv
  <1>5. Cipher(m)'
    BY <1>1, <1>3, <1>4, CipherForgotten
  <1>6. \A x \in Messages : x # m =>
            /\ Grows(x)
            /\ worker'[x] = worker[x] /\ envelope'[x] = envelope[x] /\ deposited'[x] = deposited[x]
    BY <1>1, <1>2, <1>3 DEF EnvelopeTypes, Grows
  <1> QED
    BY <1>1, <1>5, <1>6, CipherOthers

(* A worker starts, or finds no slot.                                       *)
LEMMA CipherPrepares ==
    ASSUME CipherInv, SendInv, NEW m \in Messages, NEW a, Prepares(m, a)
    PROVE  CipherInv'
  <1> DEFINE n == IF Matching(m) THEN envelope[m].n ELSE encryptions[m] + 1
             new == [key |-> key, cost |-> cost, n |-> n, result |-> "working"]
  <1>1. /\ UNCHANGED <<key, cost, deposited, outcome, stray>>
        /\ requoted' = IF worker[m] # None /\ worker[m].key = key THEN requoted \cup {m} ELSE requoted
        /\ \/ worker' = [worker EXCEPT ![m] = new] /\ envelope' = [envelope EXCEPT ![m] = None]
           \/ worker' = [worker EXCEPT ![m] = None] /\ UNCHANGED envelope
    BY DEF Prepares, ends
  <1>2. EnvelopeTypes
    BY DEF SendInv, Typed
  <1>3. new.key = key /\ new.n = n /\ new # None
    <2>1. n \in Nat
      BY <1>2 DEF EnvelopeTypes, Envelope, Matching
    <2>2. new \in Worker
      BY <1>2, <2>1 DEF EnvelopeTypes, Worker
    <2> QED
      BY <2>2, NoneOutside
  <1>4. Matching(m) => n = envelope[m].n
    OBVIOUS
  <1> HIDE DEF n, new
  <1>5. \/ worker'[m] = new /\ envelope'[m] = None
        \/ worker'[m] = None /\ envelope'[m] = envelope[m]
    BY <1>1, <1>2 DEF EnvelopeTypes
  <1>6. Cipher(m) /\ deposited'[m] = deposited[m] /\ outcome'[m] = outcome[m]
    BY <1>1 DEF CipherInv
  <1>7. ASSUME m \notin requoted' \cup stray', outcome'[m] = "open", NEW e \in deposited'[m], e.key = key'
        PROVE  StillHas(m, e)'
    <2>1. m \notin requoted \cup stray /\ ~ (worker[m] # None /\ worker[m].key = key)
      BY <1>1, <1>7
    <2>2. envelope[m] # None /\ envelope[m].key = key /\ envelope[m].n = e.n
      BY <1>1, <1>6, <1>7, <2>1 DEF Cipher, StillHas
    <2>3. Matching(m) /\ n = e.n
      BY <1>4, <2>2 DEF Matching
    <2> QED
      BY <1>1, <1>3, <1>5, <2>2, <2>3 DEF StillHas
  <1>8. Cipher(m)'
    <2>1. worker'[m] # None => envelope'[m] = None
      BY <1>5
    <2>2. \A e \in deposited'[m] : e.key <= key'
      BY <1>1, <1>6 DEF Cipher
    <2>3. m \notin requoted' \cup stray' => \A e, f \in deposited'[m] : e.key = f.key => e.n = f.n
      BY <1>1, <1>6 DEF Cipher
    <2> QED
      BY <1>7, <2>1, <2>2, <2>3 DEF Cipher
  <1>9. \A x \in Messages : x # m =>
            /\ Grows(x) /\ (x \in requoted => x \in requoted')
            /\ worker'[x] = worker[x] /\ envelope'[x] = envelope[x] /\ deposited'[x] = deposited[x]
    BY <1>1, <1>2 DEF EnvelopeTypes, Grows
  <1> QED
    BY <1>1, <1>8, <1>9, CipherOthers

(* An envelope is ready, and the deposit is handed over or tried again.     *)
LEMMA CipherDeposits ==
    ASSUME CipherInv, SendInv, NEW m \in Messages, NEW a, Visits(m, a), ReadyEnvelope(m, a)
    PROVE  CipherInv'
  <1>1. EnvelopeTypes /\ Cipher(m)
    BY DEF SendInv, Typed, CipherInv
  <1>2. PICK e \in Envelope :
          /\ Deposits(m, a, e) /\ e.key = key
          /\ \A f \in deposited[m] : f.key = key /\ StillHas(m, f) => f.n = e.n
    <2>1. CASE Current(m) /\ worker[m].result = "ok" /\ Deposits(m, a, Made(m))
      <3>1. worker[m] # None /\ worker[m].key = key
        BY <2>1 DEF Current
      <3>2. Made(m) \in Envelope /\ Made(m).key = key /\ Made(m).n = worker[m].n
        BY <1>1, <3>1, WorkerFields DEF Made
      <3>3. envelope[m] = None
        BY <1>1, <3>1 DEF Cipher
      <3> QED
        BY <2>1, <3>2, <3>3 DEF StillHas
    <2>2. CASE worker[m] = None /\ Fits(m) /\ Deposits(m, a, envelope[m])
      <3>1. envelope[m] # None /\ envelope[m].key = key /\ envelope[m] \in Envelope
        BY <1>1, <2>2 DEF Fits, Matching, EnvelopeTypes
      <3> QED
        BY <2>2, <3>1 DEF StillHas
    <2> QED
      BY <2>1, <2>2 DEF ReadyEnvelope
  <1> DEFINE new == [key |-> e.key, n |-> e.n]
  <1>3. /\ worker' = [worker EXCEPT ![m] = None] /\ envelope' = [envelope EXCEPT ![m] = e]
        /\ UNCHANGED <<key, cost, encryptions, requoted, outcome, stray>>
        /\ \/ deposited' = deposited
           \/ deposited' = [deposited EXCEPT ![m] = deposited[m] \cup {new}]
    BY <1>2 DEF Deposits, ends
  <1>4. new.key = e.key /\ new.n = e.n
    OBVIOUS
  <1> HIDE DEF new
  <1>5. /\ worker'[m] = None /\ envelope'[m] = e
        /\ deposited'[m] = deposited[m] \/ deposited'[m] = deposited[m] \cup {new}
    BY <1>1, <1>3 DEF EnvelopeTypes
  <1>6. m \notin stray => outcome[m] = "open"
    BY VisitedOwned
  <1>7. ASSUME m \notin requoted' \cup stray', NEW f \in deposited'[m], f.key = key
        PROVE  f.n = e.n
    <2>1. CASE f = new
      BY <2>1, <1>4
    <2>2. CASE f \in deposited[m]
      <3>1. StillHas(m, f)
        BY <1>1, <1>3, <1>6, <1>7, <2>2 DEF Cipher
      <3> QED
        BY <1>2, <1>7, <2>2, <3>1
    <2> QED
      BY <1>5, <1>7, <2>1, <2>2
  <1>8. \A f \in deposited'[m] : f.key <= key'
    <2>1. key \in Nat /\ new.key = key
      BY <1>1, <1>2, <1>4 DEF EnvelopeTypes
    <2> QED
      BY <1>1, <1>3, <1>5, <2>1 DEF Cipher
  <1>9. ASSUME m \notin requoted' \cup stray', NEW f \in deposited'[m], NEW g \in deposited'[m], f.key = g.key
        PROVE  f.n = g.n
    <2>1. CASE f.key = key
      <3>1. f.n = e.n
        BY <1>7, <1>9, <2>1
      <3>2. g.n = e.n
        BY <1>7, <1>9, <2>1
      <3> QED
        BY <3>1, <3>2
    <2>2. CASE f.key # key
      <3>1. f # new /\ g # new
        BY <1>2, <1>4, <1>9, <2>2
      <3>2. f \in deposited[m] /\ g \in deposited[m]
        BY <1>5, <1>9, <3>1
      <3> QED
        BY <1>1, <1>3, <1>9, <3>2 DEF Cipher
    <2> QED
      BY <2>1, <2>2
  <1>10. e # None
    BY NoneOutside
  <1>11. Cipher(m)'
    <2>1. ASSUME m \notin requoted' \cup stray', NEW f \in deposited'[m], f.key = key' PROVE StillHas(m, f)'
      <3>1. f.n = e.n
        BY <1>3, <1>7, <2>1
      <3> QED
        BY <1>2, <1>3, <1>5, <1>10, <3>1 DEF StillHas
    <2> QED
      BY <1>5, <1>8, <1>9, <2>1 DEF Cipher
  <1>12. \A x \in Messages : x # m =>
            /\ Grows(x) /\ (x \in requoted => x \in requoted')
            /\ worker'[x] = worker[x] /\ envelope'[x] = envelope[x] /\ deposited'[x] = deposited[x]
    BY <1>1, <1>3 DEF EnvelopeTypes, Grows
  <1> QED
    BY <1>3, <1>11, <1>12, CipherOthers

LEMMA CipherStep == SendInv /\ CipherInv /\ [Next]_vars => CipherInv'
  <1> SUFFICES ASSUME SendInv, CipherInv, [Next]_vars PROVE CipherInv'
    OBVIOUS
  <1>0. Typed /\ EnvelopeTypes /\ EndTypes
    BY DEF SendInv, Typed
  <1>1. ASSUME NEW m \in Messages, Submit(m) PROVE CipherInv'
    <2>1. /\ outcome' = [outcome EXCEPT ![m] = "open"] /\ requoted' = requoted \ {m}
          /\ deposited' = [deposited EXCEPT ![m] = {}] /\ UNCHANGED <<worker, envelope, key, stray>>
      BY <1>1 DEF Submit
    <2>2. deposited'[m] = {} /\ Cipher(m)
      BY <1>0, <2>1 DEF EnvelopeTypes, CipherInv
    <2>3. Cipher(m)'
      BY <2>1, <2>2 DEF Cipher
    <2>4. \A x \in Messages : x # m =>
            /\ Grows(x) /\ (x \in requoted => x \in requoted')
            /\ worker'[x] = worker[x] /\ envelope'[x] = envelope[x] /\ deposited'[x] = deposited[x]
      BY <1>0, <2>1 DEF EnvelopeTypes, EndTypes, Grows
    <2> QED
      BY <2>1, <2>3, <2>4, CipherOthers
  <1>2. ASSUME NEW m \in Messages, Cancel(m) PROVE CipherInv'
    <2>1. Ended(m, "cancelled", links') /\ UNCHANGED envelopes
      BY <1>2 DEF Cancel
    <2>2. /\ outcome'[m] # "open" /\ \A x \in stray : x \in stray'
          /\ \A x \in Messages : x # m => outcome'[x] = outcome[x]
      BY <1>0, <2>1, EndedIs DEF Outcomes
    <2>3. \A x \in Messages : Grows(x)
      BY <2>2 DEF Grows
    <2> QED
      BY <2>1, <2>3, CipherUnmoved
  <1>3. ASSUME NEW m \in Messages, NEW a \in Attempts, Propagated(m, a) PROVE CipherInv'
    <2>1. /\ Visits(m, a)
          /\ NotReady(m, a) \/ StillWorking(m, a) \/ Invalid(m) \/ Prepares(m, a) \/ ReadyEnvelope(m, a)
      BY <1>3 DEF Propagated
    <2>2. CASE NotReady(m, a) \/ StillWorking(m, a)
      <3>1. UNCHANGED <<envelopes, ends>>
        BY <2>2 DEF NotReady, StillWorking
      <3> QED
        BY <3>1, CipherUnmoved DEF ends, Grows
    <2>3. CASE Invalid(m)
      <3>1. Forgets(m) /\ Ended(m, "failed", links)
        BY <2>3 DEF Invalid, Ends
      <3> QED
        BY <3>1, CipherEnds DEF Outcomes
    <2> QED
      BY <2>1, <2>2, <2>3, CipherPrepares, CipherDeposits
  <1>4. ASSUME NEW m \in Messages, NEW a \in Attempts, Visit(m, a) PROVE CipherInv'
    <2>1. CASE GivesUp(m, a)
      <3>1. Forgets(m) /\ \E how \in {"failed", "expired"} : Ended(m, how, links)
        BY <2>1 DEF GivesUp, Ends
      <3> QED
        BY <3>1, CipherEnds DEF Outcomes
    <2>2. CASE NotDue(m, a) \/ Direct(m, a) \/ Packet(m, a) \/ LargePacket(m, a)
      <3>1. UNCHANGED <<envelopes, ends>>
        BY <2>2 DEF NotDue, Direct, Packet, LargePacket
      <3> QED
        BY <3>1, CipherUnmoved DEF ends, Grows
    <2> QED
      BY <1>3, <1>4, <2>1, <2>2 DEF Visit
  <1>5. ASSUME NEW c \in links, LinkComplete(c) \/ LinkRefused(c) PROVE CipherInv'
    <2>1. Forgets(c.msg) /\ \E how \in {"proved", "delivered", "failed"} : Ended(c.msg, how, links \ {c})
      BY <1>5 DEF LinkComplete, LinkRefused
    <2>2. c.msg \in Messages
      BY <1>0 DEF Typed, LinkTypes, Copy
    <2> QED
      BY <2>1, <2>2, CipherEnds DEF Outcomes
  <1>6. ASSUME NEW c \in links, LinkFailed(c) PROVE CipherInv'
    BY <1>6, CipherUnmoved DEF LinkFailed, ends, Grows
  <1>7. ASSUME DrainProofs PROVE CipherInv'
    <2>1. UNCHANGED <<envelopes, stray>> /\ \A x \in Messages : outcome'[x] \in {outcome[x], "delivered"}
      BY <1>7 DEF DrainProofs
    <2> QED
      BY <2>1, CipherUnmoved DEF Grows
  <1>8. ASSUME ProcessStamps PROVE CipherInv'
    <2>1. UNCHANGED <<envelopes, stray>> /\ \A x \in Messages : outcome'[x] \in {outcome[x], "dropped"}
      BY <1>8 DEF ProcessStamps
    <2> QED
      BY <2>1, CipherUnmoved DEF Grows
  <1>9. ASSUME EndOutbound \/ EndTick PROVE CipherInv'
    BY <1>9, CipherUnmoved DEF EndOutbound, EndTick, ends, Grows
  <1>10. ASSUME NEW m \in Messages, RetryDue(m) \/ ProofArrives(m) PROVE CipherInv'
    BY <1>10, CipherUnmoved DEF RetryDue, ProofArrives, ends, Grows
  <1>11. ASSUME SearchEnds("found") \/ SearchEnds("dead") PROVE CipherInv'
    BY <1>11, CipherUnmoved DEF SearchEnds, ends, Grows
  <1>12. ASSUME NEW m \in Messages, NEW result \in {"ok", "bad"}, WorkerEnds(m, result) PROVE CipherInv'
    <2>1. /\ worker[m] # None /\ worker' = [worker EXCEPT ![m].result = result]
          /\ UNCHANGED <<envelope, key, deposited, requoted, ends>>
      BY <1>12 DEF WorkerEnds
    <2>2. PICK w \in Worker : w = worker[m]
      BY <1>0, <2>1, WorkerFields
    <2> DEFINE v == [w EXCEPT !.result = result]
    <2>3. v \in Worker /\ v.key = w.key /\ v.n = w.n
      BY DEF Worker
    <2>4. worker' = [worker EXCEPT ![m] = v]
      BY <2>1, <2>2
    <2> HIDE DEF v
    <2>5. worker'[m] = v /\ v # None /\ Cipher(m)
      BY <1>0, <2>3, <2>4, NoneOutside DEF EnvelopeTypes, CipherInv
    <2>6. ASSUME NEW e, StillHas(m, e) PROVE StillHas(m, e)'
      BY <2>1, <2>2, <2>3, <2>5, <2>6 DEF StillHas
    <2>7. Cipher(m)'
      BY <2>1, <2>5, <2>6 DEF Cipher, ends
    <2>8. \A x \in Messages : x # m =>
            /\ Grows(x) /\ (x \in requoted => x \in requoted')
            /\ worker'[x] = worker[x] /\ envelope'[x] = envelope[x] /\ deposited'[x] = deposited[x]
      BY <1>0, <2>1, <2>4 DEF EnvelopeTypes, ends, Grows
    <2> QED
      BY <2>1, <2>7, <2>8, CipherOthers
  <1>13. ASSUME Announced PROVE CipherInv'
    <2>1. /\ UNCHANGED <<worker, envelope, deposited, requoted, ends>>
          /\ key' = key \/ key' = key + 1
      BY <1>13 DEF Announced
    <2>2. ASSUME NEW m \in Messages PROVE Cipher(m)'
      <3>1. CASE key' = key
        BY <2>1, <3>1, CipherSame DEF CipherInv, ends, Grows
      <3>2. CASE key' = key + 1
        <4>1. key \in Nat /\ \A e \in deposited[m] : e.key \in Nat /\ e.key <= key
          BY <1>0 DEF CipherInv, Cipher, EnvelopeTypes
        <4>2. \A e \in deposited'[m] : e.key <= key' /\ e.key # key'
          BY <2>1, <3>2, <4>1
        <4> QED
          BY <2>1, <4>2 DEF CipherInv, Cipher, ends
      <3> QED
        BY <2>1, <3>1, <3>2
    <2> QED
      BY <2>2 DEF CipherInv
  <1>14. ASSUME UNCHANGED vars PROVE CipherInv'
    BY <1>14, CipherUnmoved DEF vars, ends, Grows
  <1>15. ASSUME Tick PROVE CipherInv'
    BY <1>15, <1>4, <1>5, <1>6, <1>7, <1>8, <1>9 DEF Tick
  <1>16. ASSUME Next PROVE CipherInv'
    BY <1>16, <1>1, <1>2, <1>10, <1>11, <1>12, <1>13, <1>14, <1>15 DEF Next, Over
  <1> QED
    BY <1>14, <1>16

(* One ciphertext per key: a message that is deposited again for the same   *)
(* key of its recipient is deposited with the same ciphertext, unless the   *)
(* cost changed while a worker had it (pack_message_for_propagation).       *)
THEOREM DepositsRepeatTheCiphertext == Spec => []SameCiphertext
  <1>1. Init => CipherInv
    BY DEF Init, CipherInv, Cipher
  <1>2. CipherInv => SameCiphertext
    BY DEF CipherInv, Cipher, SameCiphertext
  <1> QED
    BY <1>1, <1>2, SendAlways, CipherStep, PTL DEF Spec

-----------------------------------------------------------------------------
(* Sends over the Links of peers.                                           *)

Fresh(a) == fate[a] = "new" =>
    /\ send[a] = "none" /\ pipe[a] = "none" /\ starts[a] = "none" /\ wait[a] = "unread"
    /\ early[a] = "none" /\ a \notin deliveries \cup handles \cup earlyHandles \cup calledOff
    /\ a \notin resourceCancels \cup unlisted \cup abandons

(* What a start or a delivery says of its attempt.                          *)
Pending(a) ==
    /\ Open(a) => fate[a] = "open"
    /\ a \in deliveries => fate[a] = "open" /\ starts[a] = "none" /\ early[a] = "none"

(* What is known of its Link.                                               *)
Linked(a) ==
    /\ starts[a] = "closed" => try[a].link \in shut
    /\ try[a].link \in shut => send[a] \notin {"staged", "out"}

(* What the manager has read says what the runtime did.                     *)
Heard(a) ==
    /\ pipe[a] \in {"none", "command"} => send[a] = "none"
    /\ send[a] \in {"none", "asked"} => wait[a] = "unread"
    /\ early[a] # "none" => send[a] \in {"acked", "told"}
    /\ early[a] = "proof" => send[a] = "acked"
    /\ fate[a] = "complete" => send[a] = "acked"

Kinds(a) ==
    /\ send[a] = "staged" => try[a].kind = "packet"
    /\ a \in calledOff => try[a].kind = "packet"
    /\ a \in resourceCancels => try[a].kind = "resource"

(* The handle of a staged packet, once read, is kept until it is used.      *)
Recallable(a) ==
    send[a] = "staged" /\ wait[a] = "kept" => a \in handles \cup earlyHandles \cup unlisted

Known(a) ==
    Sending(a) =>
        \/ pipe[a] = "answered" \/ (pipe[a] = "receipt" /\ Open(a))
        \/ a \in deliveries \cup abandons \cup resourceCancels \cup unlisted
        \/ (a \in calledOff /\ wait[a] # "kept")

(* Its start is there while its command or answer is on the way or waits to *)
(* be abandoned, so that its handle finds somebody when it comes.           *)
Sheltered(a) ==
    /\ a \in abandons => pipe[a] \in {"over", "error"}
    /\ try[a].kind = "packet" =>
          /\ a \in abandons /\ pipe[a] = "error" => a \in bereft
          /\ pipe[a] \notin {"none", "over"} \/ a \in abandons => starts[a] # "none" \/ a \in bereft

Unheard(a) == send[a] = "staged" /\ wait[a] = "vain" => a \in bereft \cup unlisted

Accounted(a) ==
    /\ Fresh(a) /\ Pending(a) /\ Linked(a) /\ Heard(a) /\ Kinds(a)
    /\ Recallable(a) /\ Known(a) /\ Sheltered(a) /\ Unheard(a)
BackInv == BackTypeOK /\ \A a \in Tries : Accounted(a)

(* Nothing new is proved to the runtime, and only open attempts are settled.*)
Received == {a \in Tries : send[a] \in {"proven", "acked"}}
EndStates == {"complete", "rejected", "failed", "cut", "cancelled"}
Moves ==
    /\ \A a \in Tries : fate'[a] = fate[a] \/ (fate[a] = "open" /\ fate'[a] \in EndStates)
    /\ Received' = Received

LEMMA BackStart == BackInit => BackInv
  <1> SUFFICES ASSUME BackInit PROVE BackInv
    OBVIOUS
  <1> USE BackchannelAssumption DEF BackInit
  <1>1. BackTypeOK
    BY DEF BackTypeOK, StartState, Pipe, Sent, Fate, Kind
  <1>2. ASSUME NEW a \in Tries PROVE Accounted(a)
    BY DEF Accounted, Fresh, Pending, Linked, Heard, Kinds, Recallable, Known, Sheltered, Unheard,
       Sending, Open
  <1> QED
    BY <1>1, <1>2 DEF BackInv

LEMMA OwnerSteps ==
    ASSUME BackInv, CommandsFull \/ \E l \in PeerLinks : Register(l)
    PROVE  BackInv' /\ Moves
  <1> USE DEF Register, CommandsFull, runtime, handover, cancellations
  <1>1. BackTypeOK'
    BY DEF BackInv, BackTypeOK
  <1>2. ASSUME NEW a \in Tries PROVE Accounted(a)'
    <2>1. Accounted(a)
      BY DEF BackInv
    <2> QED
      BY <2>1 DEF Accounted, Fresh, Pending, Linked, Heard, Kinds, Recallable, Known, Sheltered,
         Unheard, Sending, Open
  <1>3. Moves
    BY DEF Moves, Received
  <1> QED
    BY <1>1, <1>2, <1>3 DEF BackInv

LEMMA StartStep ==
    ASSUME BackInv, NEW x \in Tries, StartBackchannel(x)
    PROVE  BackInv'
  <1> USE BackchannelAssumption DEF StartBackchannel, IsNext, runtime, handover, cancellations
  <1>1. BackTypeOK'
    <2>1. BackTypeOK
      BY DEF BackInv
    <2>2. try' \in [Tries -> [msg: Letters, link: PeerLinks \cup {NoLink}, kind: Kind]]
      BY <2>1 DEF BackTypeOK
    <2> QED
      BY <2>1, <2>2 DEF BackTypeOK, StartState, Pipe, Fate
  <1>2. ASSUME NEW a \in Tries PROVE Accounted(a)'
    <2>1. Accounted(a) /\ BackTypeOK
      BY DEF BackInv
    <2> QED
      BY <2>1 DEF Accounted, Fresh, Pending, Linked, Heard, Kinds, Recallable, Known, Sheltered,
         Unheard, Sending, Open, Tries, BackTypeOK
  <1> QED
    BY <1>1, <1>2 DEF BackInv

LEMMA BridgeSteps ==
    ASSUME BackInv, NEW x \in Tries,
           Dispatch(x) \/ Forward(x) \/ BridgeLeaves(x)
    PROVE  BackInv' /\ Moves
  <1> USE BackchannelAssumption DEF Dispatch, Forward, BridgeLeaves, GivesUpOn, Packets, manager, runtime, handover, cancellations
  <1>1. BackTypeOK'
    <2>1. BackTypeOK
      BY DEF BackInv
    <2>2. CASE Dispatch(x)
      BY <2>1, <2>2 DEF BackTypeOK, Pipe, Sent
    <2>3. CASE Forward(x)
      BY <2>1, <2>3 DEF BackTypeOK, Pipe, Sent
    <2>4. CASE BridgeLeaves(x)
      BY <2>1, <2>4 DEF BackTypeOK, Pipe, Sent
    <2> QED
      BY <2>2, <2>3, <2>4
  <1>2. ASSUME NEW a \in Tries PROVE Accounted(a)'
    <2>1. Accounted(a) /\ BackTypeOK
      BY DEF BackInv
    <2> QED
      BY <2>1 DEF Accounted, Fresh, Pending, Linked, Heard, Kinds, Recallable, Known, Sheltered,
         Unheard, Sending, Open, BackTypeOK
  <1>3. Moves
    BY DEF BackInv, BackTypeOK, Accounted, Heard, Moves, Received
  <1> QED
    BY <1>1, <1>2, <1>3 DEF BackInv

LEMMA RuntimeSteps ==
    ASSUME BackInv, NEW x \in Tries,
           \/ RuntimeAnswers(x) \/ Admitted(x) \/ PeerRejects(x) \/ TransferFails(x)
           \/ CancelResource(x) \/ AbandonResource(x)
    PROVE  BackInv' /\ Moves
  <1> USE BackchannelAssumption DEF RuntimeAnswers, Admitted, PeerRejects,
         TransferFails, CancelResource, AbandonResource, Sends, manager, runtime, handover, cancellations
  <1>1. BackTypeOK'
    <2>1. BackTypeOK
      BY DEF BackInv
    <2>2. CASE RuntimeAnswers(x)
      BY <2>1, <2>2 DEF BackTypeOK, Pipe, Sent
    <2>3. CASE Admitted(x) \/ PeerRejects(x) \/ TransferFails(x)
      BY <2>1, <2>3 DEF BackTypeOK, Pipe, Sent
    <2>4. CASE CancelResource(x)
      BY <2>1, <2>4 DEF BackTypeOK, Pipe, Sent
    <2>5. CASE AbandonResource(x)
      BY <2>1, <2>5 DEF BackTypeOK, Pipe, Sent
    <2> QED
      BY <2>2, <2>3, <2>4, <2>5
  <1>2. ASSUME NEW a \in Tries PROVE Accounted(a)'
    <2>1. Accounted(a) /\ BackTypeOK
      BY DEF BackInv
    <2> QED
      BY <2>1 DEF Accounted, Fresh, Pending, Linked, Heard, Kinds, Recallable, Known, Sheltered,
         Unheard, Sending, Open, BackTypeOK, Kind
  <1>3. Moves
    BY DEF BackInv, BackTypeOK, Moves, Received
  <1> QED
    BY <1>1, <1>2, <1>3 DEF BackInv

LEMMA ProvesStep ==
    ASSUME BackInv, NEW x \in Tries, PeerProves(x)
    PROVE  /\ BackInv'
           /\ UNCHANGED fate /\ fate[x] # "new" /\ Received' = Received \cup {x}
  <1> USE BackchannelAssumption DEF PeerProves, Sends, manager, runtime, handover, cancellations
  <1>1. BackTypeOK'
    <2>1. BackTypeOK
      BY DEF BackInv
    <2> QED
      BY <2>1 DEF BackTypeOK, Pipe, Sent
  <1>2. ASSUME NEW a \in Tries PROVE Accounted(a)'
    <2>1. Accounted(a) /\ BackTypeOK
      BY DEF BackInv
    <2> QED
      BY <2>1 DEF Accounted, Fresh, Pending, Linked, Heard, Kinds, Recallable, Known, Sheltered,
         Unheard, Sending, Open, BackTypeOK, Kind
  <1>3. Accounted(x) /\ BackTypeOK
    BY DEF BackInv
  <1>4. fate[x] # "new" /\ Received' = Received \cup {x}
    BY <1>3 DEF Accounted, Fresh, BackTypeOK, Received
  <1> QED
    BY <1>1, <1>2, <1>4 DEF BackInv

LEMMA CloseSteps ==
    ASSUME BackInv, NEW l \in PeerLinks, Closes(l)
    PROVE  BackInv' /\ Moves
  <1> USE BackchannelAssumption DEF Closes, manager, runtime, handover, cancellations
  <1>1. BackTypeOK'
    <2>1. BackTypeOK
      BY DEF BackInv
    <2> QED
      BY <2>1 DEF BackTypeOK, Pipe, Sent
  <1>2. ASSUME NEW a \in Tries PROVE Accounted(a)'
    <2>1. Accounted(a) /\ BackTypeOK
      BY DEF BackInv
    <2> QED
      BY <2>1 DEF Accounted, Fresh, Pending, Linked, Heard, Kinds, Recallable, Known, Sheltered,
         Unheard, Sending, Open, BackTypeOK
  <1>3. Moves
    BY DEF BackInv, BackTypeOK, Moves, Received
  <1> QED
    BY <1>1, <1>2, <1>3 DEF BackInv

LEMMA AgeStep ==
    ASSUME BackInv, NEW x \in Tries, AgesOut(x)
    PROVE  BackInv' /\ Moves
  <1> USE BackchannelAssumption DEF AgesOut, manager, runtime, handover, cancellations
  <1>1. BackTypeOK'
    <2>1. BackTypeOK
      BY DEF BackInv
    <2> QED
      BY <2>1 DEF BackTypeOK, Pipe, Sent
  <1>2. ASSUME NEW a \in Tries PROVE Accounted(a)'
    <2>1. Accounted(a) /\ BackTypeOK
      BY DEF BackInv
    <2> QED
      BY <2>1 DEF Accounted, Fresh, Pending, Linked, Heard, Kinds, Recallable, Known, Sheltered,
         Unheard, Sending, Open, BackTypeOK
  <1>3. Moves
    BY DEF Moves, Received
  <1> QED
    BY <1>1, <1>2, <1>3 DEF BackInv

Reads(x, what) ==
    \/ what = "proof" /\ ReadProof(x)
    \/ /\ what \in {"rejected", "failed"} /\ send[x] \in {"rejected", "lost", "cancelled", "ended"}
       /\ Read(x, what)

LEMMA ReadSteps ==
    ASSUME BackInv, NEW x \in Tries, NEW what \in {"proof", "rejected", "failed"}, Reads(x, what)
    PROVE  BackInv' /\ Moves
  <1>1. /\ Read(x, what)
        /\ what = "proof" => send[x] = "proven"
        /\ what # "proof" => send[x] \in {"rejected", "lost", "cancelled", "ended"}
    BY DEF Reads, ReadProof
  <1>2. BackTypeOK /\ \A a \in Tries : Accounted(a)
    BY DEF BackInv
  <1>3. /\ send' = [send EXCEPT ![x] = IF what = "proof" THEN "acked" ELSE "told"]
        /\ UNCHANGED <<starts, earlyHandles, cancellations, handover, pipe, try, wait, shut>>
    BY <1>1 DEF Read
  <1>4. CASE Concludes(x, what)
    <2> USE DEF Concludes, Settled, Outcome, Disowned
    <2>1. BackTypeOK'
      BY <1>2, <1>3, <1>4 DEF BackTypeOK, Fate, Sent, handover, cancellations
    <2>2. ASSUME NEW a \in Tries PROVE Accounted(a)'
      <3>1. Accounted(a) /\ Accounted(x)
        BY <1>2
      <3> QED
        BY <3>1, <1>1, <1>2, <1>3, <1>4 DEF Accounted, Fresh, Pending, Linked, Heard, Kinds,
           Recallable, Known, Sheltered, Unheard, Sending, Open, BackTypeOK, handover, cancellations
    <2>3. Moves
      <3>1. fate[x] = "open" /\ Outcome(what) \in EndStates
        BY <1>1, <1>2, <1>4 DEF Accounted, Pending, EndStates
      <3> QED
        BY <3>1, <1>1, <1>2, <1>3, <1>4 DEF BackTypeOK, Moves, Received
    <2> QED
      BY <2>1, <2>2, <2>3 DEF BackInv
  <1>5. CASE x \notin deliveries /\ Remembers(x, what)
    <2>1. /\ early' \in [Tries -> {"none", "proof", "rejected", "failed"}] /\ early'[x] = what
          /\ early[x] = "none"
          /\ \A b \in Tries : b # x => early'[b] \in {early[b], "none"}
          /\ UNCHANGED <<owner, deliveries, handles, fate>>
      BY <1>2, <1>5 DEF Remembers, BackTypeOK
    <2>2. BackTypeOK'
      BY <1>2, <1>3, <2>1 DEF BackTypeOK, Sent, handover, cancellations
    <2>3. ASSUME NEW a \in Tries PROVE Accounted(a)'
      <3>1. Accounted(a) /\ Accounted(x)
        BY <1>2
      <3> QED
        BY <3>1, <1>1, <1>2, <1>3, <1>5, <2>1 DEF Accounted, Fresh, Pending, Linked, Heard, Kinds,
           Recallable, Known, Sheltered, Unheard, Sending, Open, BackTypeOK, handover, cancellations
    <2>4. Moves
      BY <1>1, <1>2, <1>3, <2>1 DEF BackTypeOK, Moves, Received
    <2> QED
      BY <2>2, <2>3, <2>4 DEF BackInv
  <1>6. CASE UNCHANGED <<owner, deliveries, handles, early, fate>>
    <2>1. BackTypeOK'
      BY <1>2, <1>3, <1>6 DEF BackTypeOK, Sent, handover, cancellations
    <2>2. ASSUME NEW a \in Tries PROVE Accounted(a)'
      <3>1. Accounted(a)
        BY <1>2
      <3> QED
        BY <3>1, <1>1, <1>2, <1>3, <1>6 DEF Accounted, Fresh, Pending, Linked, Heard, Kinds,
           Recallable, Known, Sheltered, Unheard, Sending, Open, BackTypeOK, handover, cancellations
    <2>3. Moves
      BY <1>1, <1>2, <1>3, <1>6 DEF BackTypeOK, Moves, Received
    <2> QED
      BY <2>1, <2>2, <2>3 DEF BackInv
  <1> QED
    BY <1>1, <1>4, <1>5, <1>6 DEF Read

LEMMA WaitStep ==
    ASSUME BackInv, NEW x \in Tries, ReadWait(x)
    PROVE  BackInv' /\ Moves
  <1> USE BackchannelAssumption DEF ReadWait, Recalled, handover, cancellations
  <1>1. BackTypeOK /\ \A a \in Tries : Accounted(a)
    BY DEF BackInv
  <1>2. /\ wait' = [wait EXCEPT ![x] = wait'[x]] /\ wait'[x] \in {"kept", "vain"}
        /\ earlyHandles \subseteq earlyHandles' /\ earlyHandles' \subseteq earlyHandles \cup {x}
        /\ handles \subseteq handles' /\ handles' \subseteq handles \cup {x}
        /\ x \in handles' => x \in deliveries
        /\ send' \in [Tries -> Sent] /\ \A b \in Tries : send'[b] = send[b] \/ (b = x /\ send[b] = "staged" /\ send'[b] = "cancelled")
        /\ send'[x] = "staged" /\ wait'[x] = "kept" => x \in handles' \cup earlyHandles'
        /\ send'[x] = "staged" => x \notin calledOff
        /\ wait'[x] = "vain" => starts[x] = "none" /\ x \notin deliveries
        /\ send[x] \notin {"none", "asked"}
        /\ UNCHANGED <<owner, starts, deliveries, early, cancellations, handover, pipe, try, shut, fate>>
    <2>1. CASE x \in calledOff
      BY <2>1, <1>1 DEF BackTypeOK, Sent
    <2>2. CASE x \notin calledOff /\ x \in deliveries
      BY <2>2, <1>1 DEF BackTypeOK, Sent
    <2>3. CASE x \notin calledOff /\ x \notin deliveries
      BY <2>3, <1>1 DEF BackTypeOK, Sent, Awaiting, Held
    <2> QED
      BY <2>1, <2>2, <2>3
  <1> HIDE DEF ReadWait
  <1>3. BackTypeOK'
    BY <1>1, <1>2 DEF BackTypeOK
  <1>4. ASSUME NEW a \in Tries PROVE Accounted(a)'
    <2>1. Accounted(a)
      BY <1>1
    <2> QED
      BY <2>1, <1>1, <1>2 DEF Accounted, Fresh, Pending, Linked, Heard, Kinds,
           Recallable, Known, Sheltered, Unheard, Sending, Open, BackTypeOK
  <1>5. Moves
    BY <1>1, <1>2 DEF BackTypeOK, Moves, Received
  <1> QED
    BY <1>3, <1>4, <1>5 DEF BackInv

LEMMA AbandonStep ==
    ASSUME BackInv, NEW x \in Tries, AbandonPacket(x)
    PROVE  BackInv' /\ Moves
  <1> USE BackchannelAssumption
  <1>1. BackTypeOK /\ \A a \in Tries : Accounted(a)
    BY DEF BackInv
  <1>2. /\ x \in abandons /\ try[x].kind = "packet"
        /\ calledOff' = calledOff \cup {x} /\ earlyHandles' = earlyHandles \ {x}
        /\ send' = Recalled({x} \cap earlyHandles) /\ abandons' = abandons \ {x}
        /\ UNCHANGED <<owner, deliveries, handles, early, resourceCancels, unlisted, pipe, try,
                       wait, shut, fate>>
    BY DEF AbandonPacket
  <1>3. /\ starts' \in [Tries -> StartState]
        /\ \A b \in Tries : \/ starts'[b] = starts[b]
                            \/ /\ starts[b] = "settled" /\ starts'[b] = "none"
                               /\ b = x \/ b \in bereft'
        /\ bereft \subseteq bereft' /\ bereft' \subseteq Tries
    <2> DEFINE spare == {b \in Tries : starts[b] = "settled" /\ try[b].link = try[x].link}
    <2>1. \/ UNCHANGED <<starts, bereft>>
          \/ \E b \in spare : /\ starts' = StartsWithout(b)
                               /\ bereft' = bereft \cup ({b} \ {x})
      BY DEF AbandonPacket
    <2> QED
      BY <2>1, <1>1 DEF StartsWithout, BackTypeOK, StartState
  <1>4. BackTypeOK'
    BY <1>1, <1>2, <1>3 DEF BackTypeOK, Recalled, Sent
  <1>5. ASSUME NEW a \in Tries PROVE Accounted(a)'
    <2>1. Accounted(a)
      BY <1>1
    <2> QED
      BY <2>1, <1>1, <1>2, <1>3 DEF Accounted, Fresh, Pending, Linked, Heard, Kinds,
           Recallable, Known, Sheltered, Unheard, Sending, Open, BackTypeOK, Recalled
  <1>6. Moves
    BY <1>1, <1>2 DEF BackTypeOK, Moves, Received, Recalled
  <1> QED
    BY <1>4, <1>5, <1>6 DEF BackInv

(* What the steps that give up attempts have in common: the attempts S are  *)
(* settled, those of T are called off, the packets D among them with room   *)
(* in the table.                                                            *)
Swept(S, T, D, how) ==
    /\ S \subseteq Tries /\ T \subseteq S /\ how \in {"failed", "cut", "cancelled"}
    /\ \A b \in S : Open(b) \/ b \in deliveries
    /\ UNCHANGED <<handover, try, wait, shut>> /\ owner' \in {owner, NoLink}
    /\ fate' = [b \in Tries |-> IF b \in S THEN how ELSE fate[b]]
    /\ starts' \in [Tries -> StartState]
    /\ \A b \in Tries : IF b \in S THEN starts'[b] \in {"none", "settled"}
                        ELSE \/ starts'[b] = starts[b]
                             \/ starts[b] = "live" /\ starts'[b] = "closed" /\ try[b].link \in shut
    /\ \A b \in deliveries : starts'[b] = "none"
    /\ \A b \in S : starts'[b] = "none" =>
          b \in deliveries \/ (pipe[b] \in {"receipt", "error"} /\ pipe'[b] = "over")
    /\ deliveries' = deliveries \ S /\ handles' = handles \ S
    /\ pipe' \in [Tries -> Pipe]
    /\ \A b \in Tries : \/ pipe'[b] = pipe[b]
                        \/ b \in S /\ pipe[b] \in {"receipt", "error"} /\ pipe'[b] = "over"
    /\ \A b \in S : \/ try[b].link \in shut \/ b \in T
                    \/ b \notin deliveries /\ pipe[b] # "receipt"
    /\ early' \in [Tries -> {"none", "proof", "rejected", "failed"}]
    /\ \A b \in Tries : early'[b] \in {early[b], "none"}
    /\ earlyHandles' \subseteq earlyHandles

    /\ D \subseteq Packets(T) /\ calledOff' = calledOff \cup D
    /\ unlisted' = unlisted \cup (Packets(T) \ D)
    /\ resourceCancels \subseteq resourceCancels'
    /\ \A b \in resourceCancels' : b \in resourceCancels \/ (b \in T /\ try[b].kind = "resource")
    /\ \A b \in T : try[b].kind = "resource" => b \in resourceCancels' \/ try[b].link \in shut
    /\ send' \in [Tries -> Sent]
    /\ \A b \in Tries : \/ send'[b] = send[b]
                        \/ send[b] = "staged" /\ send'[b] = "cancelled"
    /\ \A b \in D : b \in handles \cup earlyHandles => send'[b] # "staged"
    /\ \A b \in earlyHandles : b \in earlyHandles' \/ b \in D \/ send'[b] # "staged"

LEMMA Sweeps ==
    ASSUME BackInv, NEW S, NEW T, NEW D, NEW how, Swept(S, T, D, how)
    PROVE  BackInv' /\ Moves
  <1> USE BackchannelAssumption
  <1>1. BackTypeOK /\ \A a \in Tries : Accounted(a)
    BY DEF BackInv
  <1>2. BackTypeOK'
    BY <1>1 DEF BackTypeOK, Swept, Fate, Packets, handover
  <1>3. ASSUME NEW a \in Tries PROVE Accounted(a)'
    <2>1. Accounted(a)
      BY <1>1
    <2>2. Fresh(a)' /\ Pending(a)' /\ Linked(a)' /\ Heard(a)' /\ Kinds(a)'
      BY <2>1, <1>1 DEF Accounted, Fresh, Pending, Linked, Heard, Kinds, Open, BackTypeOK, Swept,
         Packets,
         handover
    <2>3. Recallable(a)'
      BY <2>1, <1>1 DEF Accounted, Linked, Kinds, Recallable, BackTypeOK, Swept, Packets, Kind,
         handover
    <2>4. Known(a)'
      BY <2>1, <1>1 DEF Accounted, Linked, Kinds, Pending, Recallable, Known, Sending, BackTypeOK,
         Swept, Packets, Kind, Open,
         handover
    <2>5. Sheltered(a)' /\ Unheard(a)'
      BY <2>1, <1>1 DEF Accounted, Pending, Sheltered, Unheard, BackTypeOK, Swept, Packets, handover
    <2> QED
      BY <2>2, <2>3, <2>4, <2>5 DEF Accounted
  <1>4. Moves
    BY <1>1 DEF BackTypeOK, Accounted, Pending, Open, Swept, Moves, Received, EndStates
  <1> QED
    BY <1>2, <1>3, <1>4 DEF BackInv

(* One start is given up, and its receipt called off if it was there.       *)
LEMMA StartSwept ==
    ASSUME BackInv, NEW x \in Tries, Open(x), NEW how \in {"failed", "cancelled"},
           NEW D \in SUBSET Packets(Receipts({x})), CallsOff(Receipts({x}), D),
           fate' = Settled({x}, how), pipe' = Emptied({x}),
           starts' \in {Retain({x}), [starts EXCEPT ![x] = "settled"]},
           UNCHANGED <<deliveries, handles, handover, try, wait, shut>>,
           owner' \in {owner, NoLink},
           early' = Remembered(early, starts') \/ early' = early,
           \/ Prune(starts', deliveries, earlyHandles \ D, Called(D))
           \/ earlyHandles' = earlyHandles \ D /\ send' = Recalled(Called(D))
    PROVE  BackInv' /\ Moves
  <1>1. BackTypeOK /\ Accounted(x)
    BY DEF BackInv
  <1> DEFINE T == Receipts({x})
  <1>2. T = IF pipe[x] = "receipt" THEN {x} ELSE {}
    BY DEF Receipts
  <1>3. x \notin deliveries /\ starts[x] # "none"
    BY <1>1 DEF Accounted, Pending, Open
  <1>4. /\ fate' = [b \in Tries |-> IF b \in {x} THEN how ELSE fate[b]]
        /\ deliveries' = deliveries \ {x} /\ handles' = handles \ {x}
    BY <1>1, <1>3 DEF Settled, BackTypeOK
  <1>5. /\ starts' \in [Tries -> StartState]
        /\ \A b \in Tries : b # x => starts'[b] = starts[b]
        /\ starts'[x] \in {"none", "settled"}
        /\ starts'[x] = "none" => pipe[x] \in {"receipt", "error"} /\ pipe'[x] = "over"
    BY <1>1 DEF Retain, Returned, Emptied, BackTypeOK, StartState
  <1>6. /\ pipe' \in [Tries -> Pipe]
        /\ \A b \in Tries : \/ pipe'[b] = pipe[b]
                            \/ b \in {x} /\ pipe[b] \in {"receipt", "error"} /\ pipe'[b] = "over"
    BY <1>1 DEF Emptied, Returned, BackTypeOK, Pipe
  <1>7. /\ early' \in [Tries -> {"none", "proof", "rejected", "failed"}]
        /\ \A b \in Tries : early'[b] \in {early[b], "none"}
    BY <1>1 DEF Remembered, BackTypeOK
  <1>8. /\ D \subseteq Packets(T) /\ calledOff' = calledOff \cup D
        /\ unlisted' = unlisted \cup (Packets(T) \ D)
        /\ resourceCancels' = resourceCancels \cup (T \ Packets(T))
    BY DEF CallsOff
  <1>9. /\ earlyHandles' \subseteq earlyHandles
        /\ send' \in [Tries -> Sent]
        /\ \A b \in Tries : \/ send'[b] = send[b]
                            \/ send[b] = "staged" /\ send'[b] = "cancelled"
        /\ \A b \in D : b \in handles \cup earlyHandles => send'[b] # "staged"
        /\ \A b \in earlyHandles : b \in earlyHandles' \/ b \in D \/ send'[b] # "staged"
    <2>1. CASE Prune(starts', deliveries, earlyHandles \ D, Called(D))
      BY <1>1, <2>1 DEF Prune, Recalled, Called, BackTypeOK, Sent
    <2>2. CASE earlyHandles' = earlyHandles \ D /\ send' = Recalled(Called(D))
      BY <1>1, <2>2 DEF Recalled, Called, BackTypeOK, Sent
    <2> QED
      BY <2>1, <2>2
  <1>10. Swept({x}, T, D, how)
    <2> HIDE DEF T
    <2>1. /\ resourceCancels \subseteq resourceCancels'
          /\ \A b \in resourceCancels' : b \in resourceCancels \/ (b \in T /\ try[b].kind = "resource")
          /\ \A b \in T : try[b].kind = "resource" => b \in resourceCancels'
      BY <1>1, <1>2, <1>8 DEF Packets, BackTypeOK, Kind
    <2>2. \A b \in deliveries : starts'[b] = "none"
      <3>1. ASSUME NEW b \in deliveries PROVE starts'[b] = "none"
        <4>1. b \in Tries /\ Accounted(b)
          BY <1>1 DEF BackInv, BackTypeOK
        <4> QED
          BY <4>1, <1>3, <1>5 DEF Accounted, Pending
      <3> QED
        BY <3>1
    <2>3. UNCHANGED <<handover, try, wait, shut>>
      OBVIOUS
    <2>4. /\ {x} \subseteq Tries /\ T \subseteq {x} /\ \A b \in {x} : Open(b) \/ b \in deliveries
          /\ \A b \in Tries : IF b \in {x} THEN starts'[b] \in {"none", "settled"}
                              ELSE \/ starts'[b] = starts[b]
                                   \/ starts[b] = "live" /\ starts'[b] = "closed" /\ try[b].link \in shut
      BY <1>2, <1>5
    <2>5. /\ \A b \in {x} : try[b].link \in shut \/ b \in T \/ (b \notin deliveries /\ pipe[b] # "receipt")
          /\ \A b \in T : try[b].kind = "resource" => b \in resourceCancels' \/ try[b].link \in shut
      BY <1>2, <1>3, <2>1
    <2>6. how \in {"failed", "cut", "cancelled"} /\ owner' \in {owner, NoLink}
      OBVIOUS
    <2> QED
      BY ONLY <1>4, <1>5, <1>6, <1>7, <1>8, <1>9, <2>1, <2>2, <2>3, <2>4, <2>5, <2>6 DEF Swept
  <1> QED
    BY <1>10, Sweeps

LEMMA TimeOutStep ==
    ASSUME BackInv, NEW x \in Tries, StartTimesOut(x), UNCHANGED <<handover, try, wait, shut>>
    PROVE  BackInv' /\ Moves
  <1>1. PICK D \in SUBSET Packets(Receipts({x})) :
            CallsOff(Receipts({x}), D) /\ Prune(starts', deliveries, earlyHandles \ D, Called(D))
    BY DEF StartTimesOut
  <1>2. /\ Open(x) /\ fate' = Settled({x}, "failed") /\ owner' \in {owner, NoLink}
        /\ starts' = [starts EXCEPT ![x] = IF pipe[x] = "receipt" THEN "none" ELSE "settled"]
        /\ pipe' = Emptied({x}) /\ early' = Remembered(early, starts')
        /\ UNCHANGED <<deliveries, handles, handover, try, wait, shut>>
    BY DEF StartTimesOut, Disowned
  <1>3. starts' \in {Retain({x}), [starts EXCEPT ![x] = "settled"]}
    <2>1. starts \in [Tries -> StartState]
      BY DEF BackInv, BackTypeOK
    <2>2. pipe[x] = "receipt" => starts' = Retain({x})
      BY <1>2, <2>1 DEF Retain, Returned
    <2> QED
      BY <1>2, <2>2
  <1> QED
    BY <1>1, <1>2, <1>3, StartSwept

LEMMA FailStartStep ==
    ASSUME BackInv, NEW m \in Letters, FailStart(m)
    PROVE  BackInv' /\ Moves
  <1> DEFINE x == Min(OpenStart(m))
  <1>1. x \in Tries /\ Open(x)
    <2>1. OpenStart(m) # {} /\ OpenStart(m) \in SUBSET Nat
      BY DEF FailStart, OpenStart, Tries
    <2>2. x \in OpenStart(m)
      BY <2>1, MinIs
    <2> QED
      BY <2>2 DEF OpenStart
  <1>2. PICK D \in SUBSET Packets(Receipts({x})) :
            CallsOff(Receipts({x}), D) /\ Prune(starts', deliveries, earlyHandles \ D, Called(D))
    BY DEF FailStart
  <1>3. /\ fate' = Settled({x}, "failed") /\ owner' \in {owner, NoLink}
        /\ starts' = Retain({x}) /\ pipe' = Emptied({x}) /\ early' = Remembered(early, starts')
        /\ UNCHANGED <<deliveries, handles, handover, try, wait, shut>>
    BY DEF FailStart, Disowned
  <1> HIDE DEF x
  <1> QED
    BY <1>1, <1>2, <1>3, StartSwept

LEMMA CancelStartStep ==
    ASSUME BackInv, NEW m \in Letters, CancelStart(m)
    PROVE  BackInv' /\ Moves
  <1>1. PICK x \in StartOf(m) :
          /\ Open(x)
          /\ fate' = Settled({x}, "cancelled") /\ owner' = owner
          /\ starts' = Retain({x}) /\ pipe' = Emptied({x}) /\ early' = early
          /\ UNCHANGED <<deliveries, handles, handover, try, wait, shut>>
          /\ \E D \in SUBSET Packets(Receipts({x})) :
              /\ CallsOff(Receipts({x}), D)
              /\ earlyHandles' = earlyHandles \ D /\ send' = Recalled(Called(D))
    BY DEF CancelStart
  <1>2. x \in Tries
    BY DEF StartOf, Held
  <1>3. PICK D \in SUBSET Packets(Receipts({x})) :
              /\ CallsOff(Receipts({x}), D)
              /\ earlyHandles' = earlyHandles \ D /\ send' = Recalled(Called(D))
    BY <1>1
  <1> QED
    BY <1>1, <1>2, <1>3, StartSwept

(* A delivery is given up.                                                  *)
LEMMA DropStep ==
    ASSUME BackInv, NEW x \in deliveries, NEW how \in {"failed", "cancelled"},
           DropsDelivery(x, how), owner' \in {owner, NoLink},
           early' \in {early, [early EXCEPT ![x] = "none"]}
    PROVE  BackInv' /\ Moves
  <1>1. BackTypeOK /\ x \in Tries /\ Accounted(x)
    BY DEF BackInv, BackTypeOK
  <1>2. PICK D \in SUBSET Packets({x}) :
          /\ CallsOff({x}, D)
          /\ earlyHandles' = IF x \in handles THEN earlyHandles ELSE earlyHandles \ D
          /\ send' = Recalled(Called(D))
    BY DEF DropsDelivery
  <1>3. /\ deliveries' = deliveries \ {x} /\ handles' = handles \ {x}
        /\ fate' = [b \in Tries |-> IF b \in {x} THEN how ELSE fate[b]]
        /\ UNCHANGED <<starts, handover, pipe, try, wait, shut>>
    BY DEF DropsDelivery, Settled
  <1>4. /\ starts \in [Tries -> StartState] /\ starts[x] = "none" /\ pipe \in [Tries -> Pipe]
        /\ \A b \in deliveries : starts[b] = "none"
    BY <1>1 DEF BackInv, BackTypeOK, Accounted, Pending
  <1>5. /\ early' \in [Tries -> {"none", "proof", "rejected", "failed"}]
        /\ \A b \in Tries : early'[b] \in {early[b], "none"}
    BY <1>1 DEF BackTypeOK
  <1>6. /\ D \subseteq Packets({x}) /\ calledOff' = calledOff \cup D
        /\ unlisted' = unlisted \cup (Packets({x}) \ D)
        /\ resourceCancels \subseteq resourceCancels'
        /\ \A b \in resourceCancels' : b \in resourceCancels \/ (b \in {x} /\ try[b].kind = "resource")
        /\ \A b \in {x} : try[b].kind = "resource" => b \in resourceCancels'
    BY <1>1, <1>2 DEF CallsOff, Packets, BackTypeOK, Kind
  <1>7. /\ earlyHandles' \subseteq earlyHandles
        /\ send' \in [Tries -> Sent]
        /\ \A b \in Tries : \/ send'[b] = send[b]
                            \/ send[b] = "staged" /\ send'[b] = "cancelled"
        /\ \A b \in D : b \in handles \cup earlyHandles => send'[b] # "staged"
        /\ \A b \in earlyHandles : b \in earlyHandles' \/ b \in D \/ send'[b] # "staged"
    BY <1>1, <1>2 DEF Recalled, Called, BackTypeOK, Sent
  <1>8. Swept({x}, {x}, D, how)
    BY <1>1, <1>3, <1>4, <1>5, <1>6, <1>7 DEF Swept
  <1> QED
    BY <1>8, Sweeps

LEMMA DropSteps ==
    ASSUME BackInv,
           \/ \E x \in Tries : DeliveryTimesOut(x)
           \/ \E m \in Letters : FailDelivery(m) \/ CancelDelivery(m)
    PROVE  BackInv' /\ Moves
  <1>1. CASE \E x \in Tries : DeliveryTimesOut(x)
    <2>1. PICK x \in deliveries : DropsDelivery(x, "failed") /\ owner' \in {owner, NoLink} /\ early' = early
      BY <1>1 DEF DeliveryTimesOut, Disowned
    <2> QED
      BY <2>1, DropStep
  <1>2. CASE \E m \in Letters : FailDelivery(m)
    <2>1. PICK a \in deliveries : DropsDelivery(a, "failed") /\ owner' = Disowned(try[a].link)
      BY <1>2 DEF FailDelivery
    <2>2. owner' \in {owner, NoLink} /\ early' = early
      BY <1>2, <2>1 DEF FailDelivery, Disowned
    <2> QED
      BY <2>1, <2>2, DropStep
  <1>3. CASE \E m \in Letters : CancelDelivery(m)
    <2>1. PICK a \in deliveries : DropsDelivery(a, "cancelled") /\ early' = [early EXCEPT ![a] = "none"]
      BY <1>3 DEF CancelDelivery
    <2>2. owner' = owner
      BY <1>3 DEF CancelDelivery
    <2> QED
      BY <2>1, <2>2, DropStep
  <1> QED
    BY <1>1, <1>2, <1>3

LEMMA FailLinkStep ==
    ASSUME BackInv, NEW l \in PeerLinks, FailLink(l)
    PROVE  BackInv' /\ Moves
  <1> DEFINE failing == IF HasEarly(l) THEN {} ELSE {a \in Starting(l) : Open(a)}
             ended == {a \in deliveries : try[a].link = l}
             S == failing \cup ended
             T == Packets(ended) \cup Receipts(failing)
  <1>1. BackTypeOK /\ l \in shut /\ \A a \in Tries : Accounted(a)
    BY DEF BackInv, FailLink
  <1>2. /\ S \subseteq Tries /\ \A b \in S : try[b].link = l /\ (Open(b) \/ b \in deliveries)
        /\ \A b \in failing : b \in Tries /\ Open(b) /\ b \notin deliveries
        /\ T \subseteq S
    <2>1. ended \subseteq Tries /\ failing \subseteq Tries
      BY <1>1 DEF BackTypeOK, Starting, Held
    <2>2. \A b \in Tries : Open(b) => b \notin deliveries
      BY <1>1 DEF Accounted, Pending, Open
    <2>3. \A b \in failing : try[b].link = l /\ Open(b)
      BY DEF Starting
    <2> QED
      BY <2>1, <2>2, <2>3 DEF Packets, Receipts
  <1>3. PICK D \in SUBSET Packets(ended \cup Receipts(failing)) :
              CallsOff(T, D) /\ Prune(starts', deliveries', earlyHandles \ D, Called(D))
    BY DEF FailLink
  <1>4. /\ owner' \in {owner, NoLink}
        /\ fate' = [b \in Tries |-> IF b \in S THEN "cut" ELSE fate[b]]
        /\ UNCHANGED <<handover, try, wait, shut>>
        /\ early' = Remembered(early, starts')
        /\ deliveries' = deliveries \ ended /\ handles' = handles \ ended
        /\ pipe' = Emptied(failing)
        /\ starts' = [a \in Tries |-> IF try[a].link = l /\ starts[a] = "live" /\ a \notin failing
                                      THEN "closed" ELSE Retain(failing)[a]]
    BY DEF FailLink, Settled, Disowned
  <1> HIDE DEF failing, T
  <1>5. /\ starts' \in [Tries -> StartState]
        /\ \A b \in failing : starts'[b] \in {"none", "settled"}
        /\ \A b \in Tries : b \notin failing =>
              \/ starts'[b] = starts[b]
              \/ starts[b] = "live" /\ starts'[b] = "closed" /\ try[b].link \in shut
    BY <1>1, <1>2, <1>4 DEF Retain, Returned, BackTypeOK, StartState, Open
  <1>18. \A b \in failing : starts'[b] = "none" => pipe[b] \in {"receipt", "error"} /\ pipe'[b] = "over"
    BY <1>1, <1>2, <1>4 DEF Retain, Returned, Emptied, BackTypeOK, Open
  <1>6. \A b \in deliveries : starts[b] = "none" /\ b \in Tries
    BY <1>1 DEF BackTypeOK, Accounted, Pending
  <1>7. /\ \A b \in deliveries : starts'[b] = "none"
        /\ \A b \in S : starts'[b] \in {"none", "settled"}
        /\ \A b \in Tries : b \notin S => \/ starts'[b] = starts[b]
                                          \/ starts[b] = "live" /\ starts'[b] = "closed" /\ try[b].link \in shut
    BY <1>2, <1>5, <1>6
  <1>8. deliveries' = deliveries \ S /\ handles' = handles \ S
    BY <1>1, <1>2, <1>4 DEF BackTypeOK
  <1>9. /\ pipe' \in [Tries -> Pipe]
        /\ \A b \in Tries : \/ pipe'[b] = pipe[b]
                            \/ b \in S /\ pipe[b] \in {"receipt", "error"} /\ pipe'[b] = "over"
    BY <1>1, <1>4 DEF Emptied, Returned, BackTypeOK, Pipe
  <1>10. /\ early' \in [Tries -> {"none", "proof", "rejected", "failed"}]
         /\ \A b \in Tries : early'[b] \in {early[b], "none"}
    BY <1>1, <1>4 DEF Remembered, BackTypeOK
  <1>11. \A b \in S : try[b].link \in shut
    BY <1>1, <1>2
  <1>12. /\ D \subseteq Packets(T) /\ calledOff' = calledOff \cup D
         /\ unlisted' = unlisted \cup (Packets(T) \ D)
         /\ resourceCancels' = resourceCancels \cup (T \ Packets(T))
    BY <1>3 DEF CallsOff
  <1>13. /\ resourceCancels \subseteq resourceCancels'
         /\ \A b \in resourceCancels' : b \in resourceCancels \/ (b \in T /\ try[b].kind = "resource")
    BY <1>1, <1>2, <1>12 DEF Packets, BackTypeOK, Kind
  <1>14. /\ earlyHandles' \subseteq earlyHandles
         /\ send' \in [Tries -> Sent]
         /\ \A b \in Tries : \/ send'[b] = send[b]
                             \/ send[b] = "staged" /\ send'[b] = "cancelled"
         /\ \A b \in D : b \in handles \cup earlyHandles => send'[b] # "staged"
         /\ \A b \in earlyHandles : b \in earlyHandles' \/ b \in D \/ send'[b] # "staged"
    BY <1>1, <1>3 DEF Prune, Recalled, Called, BackTypeOK, Sent
  <1> HIDE DEF ended, S
  <1>15. \A b \in T : try[b].link \in shut
    BY <1>2, <1>11
  <1>16. \A b \in Tries : IF b \in S THEN starts'[b] \in {"none", "settled"}
                         ELSE \/ starts'[b] = starts[b]
                              \/ starts[b] = "live" /\ starts'[b] = "closed" /\ try[b].link \in shut
    BY <1>7
  <1>17. Swept(S, T, D, "cut")
    <2>1. /\ S \subseteq Tries /\ T \subseteq S /\ \A b \in S : Open(b) \/ b \in deliveries
      BY <1>2
    <2>2. /\ \A b \in S : try[b].link \in shut \/ b \in T \/ (b \notin deliveries /\ pipe[b] # "receipt")
          /\ \A b \in T : try[b].kind = "resource" => b \in resourceCancels' \/ try[b].link \in shut
      BY <1>11, <1>15
    <2>3. \A b \in S : starts'[b] = "none" =>
             b \in deliveries \/ (pipe[b] \in {"receipt", "error"} /\ pipe'[b] = "over")
      BY <1>18 DEF S, ended
    <2> QED
      BY ONLY <2>1, <2>2, <2>3, <1>4, <1>5, <1>7, <1>8, <1>9, <1>10, <1>12, <1>13, <1>14,
         <1>16 DEF Swept
  <1> QED
    BY <1>17, Sweeps

(* A start leaves with its answer, or its reservation ends.                 *)
Pruned(h) ==
    /\ earlyHandles' \subseteq earlyHandles /\ h \subseteq Tries
    /\ send' \in [Tries -> Sent]
    /\ \A b \in Tries : \/ send'[b] = send[b]
                        \/ send[b] = "staged" /\ send'[b] = "cancelled"
    /\ \A b \in earlyHandles : b \in earlyHandles' \/ b \in h \/ send'[b] # "staged"

LEMMA PruneIs ==
    ASSUME BackTypeOK, NEW ds, NEW h \in SUBSET Tries, Prune(starts', ds, earlyHandles \ h, {})
    PROVE  Pruned(h)
  BY DEF Prune, Recalled, BackTypeOK, Sent, Pruned

Left(x, how, h) ==
    /\ UNCHANGED <<cancellations, handover, try, wait, shut>> /\ owner' \in {owner, NoLink}
    /\ starts[x] # "none" /\ starts' \in [Tries -> StartState] /\ starts'[x] = "none"
    /\ \A b \in Tries : b # x => starts'[b] = starts[b]
    /\ pipe' \in [Tries -> Pipe] /\ \A b \in Tries : b # x => pipe'[b] = pipe[b]
    /\ \/ pipe[x] \in {"receipt", "error"} /\ pipe'[x] = "over"
       \/ pipe'[x] = pipe[x] /\ ~Open(x) /\ pipe[x] = "over" /\ x \notin abandons
    /\ how \in {fate[x], "cut", "complete", "rejected", "failed"}
    /\ how # fate[x] => Open(x)
    /\ how = "complete" /\ how # fate[x] => send[x] = "acked"
    /\ fate' = [fate EXCEPT ![x] = how]
    /\ early' \in [Tries -> {"none", "proof", "rejected", "failed"}]
    /\ \A b \in Tries : early'[b] \in {early[b], "none"}
    /\ Pruned(h) /\ h \subseteq {x}
    /\ \/ /\ deliveries' = deliveries /\ handles' = handles
          /\ (pipe[x] = "receipt" /\ Open(x)) \/ x \in h => send[x] # "staged" /\ ~(send[x] = "out" /\ try[x].kind = "resource")
       \/ /\ deliveries' = deliveries \cup {x} /\ handles' = handles \cup (earlyHandles \cap {x})
          /\ Open(x) /\ how = fate[x] /\ early'[x] = "none"

LEMMA LeavesKeeps ==
    ASSUME BackInv, NEW x \in Tries, NEW how, NEW h, Left(x, how, h)
    PROVE  BackInv' /\ Moves
  <1>1. BackTypeOK /\ \A a \in Tries : Accounted(a)
    BY DEF BackInv
  <1>2. BackTypeOK'
    BY <1>1 DEF BackTypeOK, Left, Pruned, handover, cancellations, Fate
  <1>3. ASSUME NEW a \in Tries PROVE Accounted(a)'
    <2>1. Accounted(a) /\ Accounted(x)
      BY <1>1
    <2>2. Fresh(a)' /\ Pending(a)'
      BY <2>1, <1>1 DEF Accounted, Fresh, Pending, Open, BackTypeOK, Left, Pruned, handover,
         cancellations
    <2>3. Linked(a)' /\ Heard(a)' /\ Kinds(a)'
      BY <2>1, <1>1 DEF Accounted, Linked, Heard, Kinds, BackTypeOK, Left, Pruned, handover,
         cancellations
    <2>4. Recallable(a)'
      BY <2>1, <1>1 DEF Accounted, Recallable, BackTypeOK, Left, Pruned, handover, cancellations
    <2>5. Known(a)'
      BY <2>1, <1>1 DEF Accounted, Known, Sending, Open, BackTypeOK, Left, Pruned, handover,
         cancellations
    <2>6. Sheltered(a)' /\ Unheard(a)'
      BY <2>1, <1>1 DEF Accounted, Sheltered, Unheard, BackTypeOK, Left, Pruned, handover,
         cancellations
    <2> QED
      BY <2>2, <2>3, <2>4, <2>5, <2>6 DEF Accounted
  <1>4. Moves
    BY <1>1 DEF BackTypeOK, Accounted, Pending, Open, Left, Pruned, Moves, Received, EndStates
  <1> QED
    BY <1>2, <1>3, <1>4 DEF BackInv

LEMMA ReceiptStep ==
    ASSUME BackInv, NEW x \in Tries, TakesReceipt(x), UNCHANGED <<handover, try, wait, shut>>
    PROVE  BackInv' /\ Moves
  <1>1. BackTypeOK /\ Accounted(x)
    BY DEF BackInv
  <1>2. /\ Open(x) /\ pipe[x] = "receipt" /\ UNCHANGED cancellations
        /\ early' = Remembered([early EXCEPT ![x] = "none"], starts')
        /\ starts' = StartsWithout(x) /\ pipe' = [pipe EXCEPT ![x] = "over"]
    BY DEF TakesReceipt, StartEnds
  <1>3. /\ early' \in [Tries -> {"none", "proof", "rejected", "failed"}] /\ early'[x] = "none"
        /\ \A b \in Tries : early'[b] \in {early[b], "none"}
    BY <1>1, <1>2 DEF Remembered, BackTypeOK
  <1>4. /\ starts[x] # "none" /\ starts' \in [Tries -> StartState] /\ starts'[x] = "none"
        /\ \A b \in Tries : b # x => starts'[b] = starts[b]
        /\ pipe' \in [Tries -> Pipe] /\ pipe'[x] = "over" /\ \A b \in Tries : b # x => pipe'[b] = pipe[b]
    BY <1>1, <1>2 DEF StartsWithout, Open, BackTypeOK, StartState, Pipe
  <1>5. ASSUME NEW how PROVE fate' = Settled({x}, how) => fate' = [fate EXCEPT ![x] = how]
    BY <1>1 DEF Settled, BackTypeOK
  <1>6. CASE starts[x] = "closed" /\ early[x] = "none"
    <2>1. fate' = Settled({x}, "cut") /\ UNCHANGED <<owner, deliveries, handles>>
          /\ Prune(starts', deliveries, earlyHandles \ {}, {})
      BY <1>6 DEF TakesReceipt, StartEnds
    <2>2. Pruned({})
      BY <1>1, <2>1, PruneIs
    <2>3. send[x] \notin {"staged", "out"}
      BY <1>1, <1>6 DEF Accounted, Linked
    <2>4. Left(x, "cut", {})
      BY <1>2, <1>3, <1>4, <1>5, <2>1, <2>2, <2>3 DEF Left
    <2> QED
      BY <2>4, LeavesKeeps
  <1>7. CASE early[x] # "none"
    <2>1. /\ fate' = Settled({x}, Outcome(early[x])) /\ UNCHANGED <<deliveries, handles>>
          /\ owner' \in {owner, NoLink}
          /\ Prune(starts', deliveries, earlyHandles \ {x}, {})
      BY <1>7 DEF TakesReceipt, Disowned, StartEnds
    <2>2. Pruned({x})
      BY <1>1, <2>1, PruneIs
    <2> DEFINE how == Outcome(early[x])
    <2>3. how \in {"complete", "rejected", "failed"} /\ (how = "complete" => early[x] = "proof")
      BY <1>1, <1>7 DEF BackTypeOK, Outcome
    <2> HIDE DEF how
    <2>4. send[x] \in {"acked", "told"} /\ (how = "complete" => send[x] = "acked")
      BY <1>1, <1>7, <2>3 DEF Accounted, Heard
    <2>5. fate' = [fate EXCEPT ![x] = how]
      BY <1>5, <2>1 DEF how
    <2>6. Left(x, how, {x})
      BY <1>2, <1>3, <1>4, <2>1, <2>2, <2>3, <2>4, <2>5 DEF Left
    <2> QED
      BY <2>6, LeavesKeeps
  <1>8. CASE starts[x] = "live" /\ early[x] = "none"
    <2>1. /\ fate' = Settled({x}, "open") /\ deliveries' = deliveries \cup {x} /\ owner' = owner
          /\ handles' = handles \cup (earlyHandles \cap {x})
          /\ Prune(starts', deliveries', earlyHandles \ {x}, {})
      BY <1>8 DEF TakesReceipt, StartEnds
    <2>2. Pruned({x})
      BY <1>1, <2>1, PruneIs
    <2>3. fate[x] = "open"
      BY <1>1, <1>2 DEF Accounted, Pending
    <2>4. Left(x, fate[x], {x})
      BY <1>2, <1>3, <1>4, <1>5, <2>1, <2>2, <2>3 DEF Left
    <2> QED
      BY <2>4, LeavesKeeps
  <1> QED
    BY <1>2, <1>6, <1>7, <1>8 DEF Open

LEMMA ErrorStep ==
    ASSUME BackInv, NEW x \in Tries, TakesError(x) \/ ReservationEnds(x),
           UNCHANGED <<handover, try, wait, shut>>
    PROVE  BackInv' /\ Moves
  <1>1. BackTypeOK
    BY DEF BackInv
  <1>2. /\ Prune(starts', deliveries, earlyHandles \ {}, {}) /\ early' = Remembered(early, starts')
        /\ UNCHANGED <<deliveries, handles, cancellations>> /\ owner' \in {owner, NoLink}
        /\ starts' = StartsWithout(x)
    BY DEF TakesError, ReservationEnds, Disowned, StartEnds
  <1>3. Pruned({})
    BY <1>1, <1>2, PruneIs
  <1>4. /\ early' \in [Tries -> {"none", "proof", "rejected", "failed"}]
        /\ \A b \in Tries : early'[b] \in {early[b], "none"}
        /\ starts' \in [Tries -> StartState] /\ starts'[x] = "none"
        /\ \A b \in Tries : b # x => starts'[b] = starts[b]
    BY <1>1, <1>2 DEF Remembered, BackTypeOK, StartsWithout, StartState
  <1>5. CASE TakesError(x)
    <2>1. /\ Open(x) /\ starts[x] # "none" /\ pipe[x] = "error" /\ fate' = [fate EXCEPT ![x] = "failed"]
          /\ pipe' \in [Tries -> Pipe] /\ pipe'[x] = "over" /\ \A b \in Tries : b # x => pipe'[b] = pipe[b]
      BY <1>1, <1>5 DEF TakesError, StartEnds, Settled, BackTypeOK, Open, Pipe
    <2>2. Left(x, "failed", {})
      BY <1>2, <1>3, <1>4, <2>1 DEF Left
    <2> QED
      BY <2>2, LeavesKeeps
  <1>6. CASE ReservationEnds(x)
    <2>1. /\ starts[x] = "settled" /\ pipe' = pipe /\ fate' = [fate EXCEPT ![x] = fate[x]]
          /\ pipe' \in [Tries -> Pipe] /\ pipe[x] = "over" /\ x \notin abandons
      BY <1>1, <1>6 DEF ReservationEnds, Outlasted, Tries, BackTypeOK
    <2>2. Left(x, fate[x], {})
      BY <1>2, <1>3, <1>4, <2>1 DEF Left, Open
    <2> QED
      BY <2>2, LeavesKeeps
  <1> QED
    BY <1>5, <1>6

LEMMA BackSame == BackInv /\ UNCHANGED backVars => BackInv'
  <1> SUFFICES ASSUME BackInv, UNCHANGED backVars PROVE BackInv'
    OBVIOUS
  <1> USE DEF backVars, manager, runtime, handover, cancellations
  <1>1. BackTypeOK'
    BY DEF BackInv, BackTypeOK
  <1>2. ASSUME NEW a \in Tries PROVE Accounted(a)'
    <2>1. Accounted(a)
      BY DEF BackInv
    <2> QED
      BY <2>1 DEF Accounted, Fresh, Pending, Linked, Heard, Kinds, Recallable, Known, Sheltered,
         Unheard, Sending, Open
  <1> QED
    BY <1>1, <1>2 DEF BackInv

(* A step is the start of an attempt, the proof of its peer, or settles.    *)
Moved ==
    \/ Moves
    \/ \E x \in Tries : StartBackchannel(x)
    \/ \E x \in Tries : UNCHANGED fate /\ fate[x] # "new" /\ Received' = Received \cup {x}

LEMMA BackStep == BackInv /\ BackNext => BackInv' /\ Moved
  <1> SUFFICES ASSUME BackInv, BackNext PROVE BackInv' /\ Moved
    OBVIOUS
  <1> USE DEF Moved
  <1>1. CASE CommandsFull \/ \E l \in PeerLinks : Register(l)
    BY <1>1, OwnerSteps
  <1>2. CASE \E l \in PeerLinks : FailLink(l) \/ Closes(l)
    BY <1>2, FailLinkStep, CloseSteps
  <1>3. CASE \E m \in Letters : FailStart(m) \/ CancelStart(m)
    BY <1>3, FailStartStep, CancelStartStep
  <1>4. CASE \/ \E a \in Tries : DeliveryTimesOut(a)
            \/ \E m \in Letters : FailDelivery(m) \/ CancelDelivery(m)
    BY <1>4, DropSteps
  <1>5. CASE \E a \in Tries : ReadProof(a) \/ ReadConclusion(a)
    <2>1. PICK a \in Tries : ReadProof(a) \/ ReadConclusion(a)
      BY <1>5
    <2>2. \E what \in {"proof", "rejected", "failed"} : Reads(a, what)
      BY <2>1 DEF Reads, ReadConclusion
    <2> QED
      BY <2>2, ReadSteps
  <1>6. CASE \E a \in Tries : AgesOut(a) \/ ReadWait(a) \/ AbandonPacket(a)
    BY <1>6, AgeStep, WaitStep, AbandonStep
  <1>11. CASE \E a \in Tries : StartBackchannel(a)
    BY <1>11, StartStep
  <1>7. CASE \E a \in Tries : VisitStart(a)
    <2>1. PICK a \in Tries : VisitStart(a)
      BY <1>7
    <2>2. UNCHANGED <<handover, try, wait, shut>>
      BY <2>1 DEF VisitStart
    <2>3. CASE TakesReceipt(a)
      BY <2>2, <2>3, ReceiptStep
    <2>4. CASE TakesError(a) \/ ReservationEnds(a)
      BY <2>2, <2>4, ErrorStep
    <2>5. CASE StartTimesOut(a)
      BY <2>2, <2>5, TimeOutStep
    <2> QED
      BY <2>1, <2>3, <2>4, <2>5 DEF VisitStart
  <1>8. CASE \E a \in Tries : Dispatch(a) \/ Forward(a) \/ BridgeLeaves(a)
    BY <1>8, BridgeSteps
  <1>9. CASE \E a \in Tries : \/ RuntimeAnswers(a) \/ Admitted(a) \/ PeerRejects(a)
                              \/ TransferFails(a) \/ CancelResource(a) \/ AbandonResource(a)
    BY <1>9, RuntimeSteps
  <1>10. CASE \E a \in Tries : PeerProves(a)
    BY <1>10, ProvesStep
  <1> QED
    BY <1>1, <1>2, <1>3, <1>4, <1>5, <1>6, <1>7, <1>8, <1>9, <1>10, <1>11 DEF BackNext

LEMMA BackAlways == BackSpec => []BackInv
  <1>1. BackInv /\ [BackNext]_backVars => BackInv'
    BY BackStep, BackSame
  <1> QED
    BY <1>1, BackStart, PTL DEF BackSpec

(* The state of the backchannels is of its type.                            *)
THEOREM BackTypes == BackSpec => []BackTypeOK
  <1>1. BackInv => BackTypeOK
    BY DEF BackInv
  <1> QED
    BY <1>1, BackAlways, PTL

(* What the runtime still sends although its message is settled is always   *)
(* known by its name to somebody who will call it off, and a packet can be  *)
(* called off, however receipts, proofs, waits, timeouts, closed Links and  *)
(* the leaving bridge interleave; except for what the full table of         *)
(* cancelled keys did not take, and for a packet whose handle was dropped   *)
(* when its start was gone: its receipt raced the bridge's timeout, or its  *)
(* reservation went to another packet (bereft).                             *)
THEOREM NoSendIsOrphaned == BackSpec => []NoOrphan
  <1>1. ASSUME BackInv, NEW a \in Tries, Sending(a), fate[a] # "open", a \notin unlisted
        PROVE  /\ pipe[a] = "answered" \/ a \in abandons \cup resourceCancels \cup calledOff
               /\ Callable(a) \/ (wait[a] = "vain" /\ a \in bereft)
    <2>1. BackTypeOK /\ Accounted(a)
      BY <1>1 DEF BackInv
    <2>2. a \notin deliveries \cup handles /\ ~Open(a)
      BY <1>1, <2>1 DEF BackTypeOK, Accounted, Pending
    <2>3. pipe[a] = "answered" \/ a \in abandons \cup resourceCancels \cup calledOff
      BY <1>1, <2>1, <2>2 DEF Accounted, Known
    <2>4. CASE try[a].kind # "packet"
      BY <2>3, <2>4 DEF Callable
    <2>5. CASE try[a].kind = "packet"
      <3>1. send[a] = "staged" /\ wait[a] \in {"unread", "kept", "vain"}
        BY <1>1, <2>1, <2>5 DEF Sending, BackTypeOK
      <3>2. wait[a] = "kept" => a \in earlyHandles
        BY <1>1, <2>1, <2>2, <3>1 DEF Accounted, Recallable
      <3>3. wait[a] = "vain" => a \in bereft
        BY <1>1, <2>1, <3>1 DEF Accounted, Unheard
      <3> QED
        BY <2>3, <3>1, <3>2, <3>3 DEF Callable
    <2> QED
      BY <2>4, <2>5
  <1>2. BackInv => NoOrphan
    BY <1>1 DEF NoOrphan
  <1> QED
    BY <1>2, BackAlways, PTL

(* A proof that was read before its receipt, while it is remembered, is     *)
(* never lost to the closing of its Link: the attempt waits for the receipt *)
(* and is not cut.                                                          *)
THEOREM ProofsMeetTheirReceipts == BackSpec => ProofMeetsReceipt
  <1>1. ASSUME BackInv, BackNext, NEW a \in Tries, early[a] = "proof", fate'[a] = "cut", fate[a] # "cut"
        PROVE  FALSE
    <2>1. BackTypeOK /\ Accounted(a)
      BY <1>1 DEF BackInv
    <2>2. ASSUME NEW l \in PeerLinks, FailLink(l) PROVE FALSE
      <3>1. a \in (IF HasEarly(l) THEN {} ELSE {b \in Starting(l) : Open(b)})
                  \cup {b \in deliveries : try[b].link = l}
        BY <1>1, <2>2 DEF FailLink, Settled
      <3>2. a \notin deliveries
        BY <1>1, <2>1 DEF Accounted, Pending
      <3> QED
        BY <1>1, <3>1, <3>2 DEF HasEarly, Starting
    <2>3. ASSUME NEW x \in Tries, TakesReceipt(x) PROVE FALSE
      <3>1. PICK how : /\ fate' = Settled({x}, how)
                       /\ how = "cut" => early[x] = "none"
        <4>1. CASE early[x] # "none"
          <5>1. Outcome(early[x]) # "cut"
            BY <4>1, <2>1 DEF BackTypeOK, Outcome
          <5> QED
            BY <4>1, <5>1, <2>3 DEF TakesReceipt, StartEnds
        <4>2. CASE early[x] = "none"
          BY <4>2, <2>3 DEF TakesReceipt, StartEnds
        <4> QED
          BY <4>1, <4>2
      <3> QED
        BY <1>1, <3>1 DEF Settled
    <2>4. ASSUME NEW S, NEW how, fate' = Settled(S, how), how # "cut" PROVE FALSE
      BY <1>1, <2>4 DEF Settled
    <2>5. ASSUME NEW x \in Tries, VisitStart(x) PROVE FALSE
      BY <1>1, <2>3, <2>4, <2>5 DEF VisitStart, TakesError, StartTimesOut, ReservationEnds,
         StartEnds
    <2>6. ASSUME NEW m \in Letters, FailStart(m) \/ FailDelivery(m) \/ CancelStart(m) \/ CancelDelivery(m)
          PROVE  FALSE
      BY <1>1, <2>4, <2>6 DEF FailStart, FailDelivery, CancelStart, CancelDelivery, DropsDelivery
    <2>7. ASSUME NEW x \in Tries, ReadProof(x) \/ ReadConclusion(x) PROVE FALSE
      <3>1. PICK what \in {"proof", "rejected", "failed"} : Read(x, what)
        BY <2>7 DEF ReadProof, ReadConclusion
      <3>2. Outcome(what) # "cut"
        BY DEF Outcome
      <3>3. UNCHANGED fate \/ fate' = Settled({x}, Outcome(what))
        BY <3>1 DEF Read, Concludes, Remembers
      <3> QED
        BY <1>1, <2>4, <3>2, <3>3
    <2>8. ASSUME NEW x \in Tries, DeliveryTimesOut(x) PROVE FALSE
      BY <1>1, <2>4, <2>8 DEF DeliveryTimesOut, DropsDelivery
    <2>9. ASSUME NEW x \in Tries, StartBackchannel(x) PROVE FALSE
      BY <1>1, <2>1, <2>9 DEF StartBackchannel, BackTypeOK
    <2>10. CASE UNCHANGED fate
      BY <1>1, <2>10
    <2>11. ASSUME NEW x \in Tries,
                  \/ AgesOut(x) \/ ReadWait(x) \/ Dispatch(x) \/ Forward(x) \/ BridgeLeaves(x)
                  \/ AbandonPacket(x) \/ AbandonResource(x) \/ CancelResource(x)
                  \/ RuntimeAnswers(x) \/ Admitted(x) \/ PeerProves(x) \/ PeerRejects(x)
                  \/ TransferFails(x)
           PROVE  UNCHANGED fate
      BY <2>11 DEF AgesOut, ReadWait, Dispatch, Forward, BridgeLeaves, GivesUpOn, AbandonPacket,
         AbandonResource, CancelResource, RuntimeAnswers, Admitted, PeerProves, PeerRejects,
         TransferFails, Sends
    <2>12. ASSUME NEW l \in PeerLinks, Register(l) \/ CommandsFull \/ Closes(l) PROVE UNCHANGED fate
      BY <2>12 DEF Register, CommandsFull, Closes
    <2>13. CommandsFull => UNCHANGED fate
      BY DEF CommandsFull
    <2> QED
      BY <1>1, <2>2, <2>5, <2>6, <2>7, <2>8, <2>9, <2>10, <2>11, <2>12, <2>13 DEF BackNext
  <1>2. ASSUME BackInv, [BackNext]_backVars
        PROVE  [\A a \in Tries : early[a] = "proof" /\ fate'[a] = "cut" => fate[a] = "cut"]_backVars
    BY <1>1, <1>2
  <1> QED
    BY <1>2, BackAlways, PTL DEF BackSpec, ProofMeetsReceipt

(* The sends over the Links of peers keep the promise of Settlement: an     *)
(* attempt is settled once, and complete only when its peer has proved it.  *)
THEOREM BackchannelsSettle == BackSpec => ImplementsBackSettlement
  <1> DEFINE shown == [a \in Tries |-> IF fate[a] = "cut" THEN "failed" ELSE fate[a]]
  <1>1. BackInit => BackPromise!SInit
    BY DEF BackInit, BackPromise!SInit
  <1>2. BackInv /\ [BackNext]_backVars => [BackPromise!SNext]_<<shown, Received>>
    <2> SUFFICES ASSUME BackInv, BackNext
                 PROVE  BackPromise!SNext \/ UNCHANGED <<shown, Received>>
      BY DEF backVars, runtime, Received
    <2>1. BackTypeOK /\ BackInv' /\ Moved
      BY BackStep DEF BackInv
    <2>2. CASE Moves
      <3>1. BackPromise!Settle
        <4>1. \A a \in Tries : fate'[a] \in Fate /\ (fate'[a] = "complete" => a \in Received)
          BY <2>1, <2>2 DEF BackInv, BackTypeOK, Accounted, Heard, Moves, Received
        <4> QED
          BY <4>1, <2>1, <2>2 DEF BackPromise!Settle, BackPromise!Settled, Moves, EndStates, Fate,
             BackTypeOK, Received
      <3> QED
        BY <2>2, <3>1 DEF BackPromise!SNext, Moves, Received
    <2>3. CASE \E x \in Tries : StartBackchannel(x)
      <3>1. PICK x \in Tries : StartBackchannel(x)
        BY <2>3
      <3>2. /\ fate[x] = "new" /\ fate' = [fate EXCEPT ![x] = "open"] /\ send' = send
        BY <3>1 DEF StartBackchannel, IsNext, Tries, runtime
      <3>3. BackPromise!Accept(x)
        BY <3>2, <2>1 DEF BackPromise!Accept, BackTypeOK
      <3> QED
        BY <3>2, <3>3 DEF BackPromise!SNext, Received
    <2>4. CASE \E x \in Tries : UNCHANGED fate /\ fate[x] # "new" /\ Received' = Received \cup {x}
      <3>1. PICK x \in Tries : UNCHANGED fate /\ fate[x] # "new" /\ Received' = Received \cup {x}
        BY <2>4
      <3>2. BackPromise!Receive(x)
        BY <3>1 DEF BackPromise!Receive, Received
      <3> QED
        BY <3>1, <3>2 DEF BackPromise!SNext
    <2> QED
      BY <2>1, <2>2, <2>3, <2>4 DEF Moved
  <1> QED
    BY <1>1, <1>2, BackAlways, PTL DEF BackSpec, ImplementsBackSettlement,
       BackPromise!SettlementSpec, Received
=============================================================================
